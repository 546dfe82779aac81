------------------------ MODULE SessionManagerProofs ------------------------
(***************************************************************************)
(* Theorems about SessionManager and TerminalBridge for every value of     *)
(* their constants: the manager keeps its promises and implements          *)
(* SessionLifecycle; the bridge only takes steps the manager allows, so    *)
(* that all of this holds below it, counts its authentication slots        *)
(* exactly, and gives a session one active view.                           *)
(***************************************************************************)
EXTENDS TerminalBridge, FiniteSetTheorems, TLAPS

-----------------------------------------------------------------------------
(* The operations on one session object keep its type. *)

LEMMA ClockZero == 0 \in 0..MaxSessionAge /\ 0 \in 0..IdleGrace
BY LimitsAssumption DEF LimitsAssumption

LEMMA CreatedType == Unborn \in Session /\ Created \in Session
<1>1. Unborn \in Session
  BY ClockZero DEF Unborn, Session, FileState
<1> QED BY <1>1 DEF Created, Session

LEMMA TouchedType ==
    ASSUME NEW r \in Session
    PROVE  Touched(r) \in Session
BY ClockZero DEF Touched, Session

LEMMA StartedType ==
    ASSUME NEW r \in Session, NEW p \in Pids
    PROVE  Started(r, p) \in Session
<1>1. Touched(r) \in Session
  BY TouchedType
<1>2. {p} \in SUBSET Pids
  OBVIOUS
<1> QED BY <1>1, <1>2, Zenon DEF Started, Session

LEMMA FailedStartType ==
    ASSUME NEW r \in Session, NEW p \in Pids, NEW killed \in BOOLEAN
    PROVE  FailedStart(r, p, killed) \in Session
BY LimitsAssumption DEF LimitsAssumption, FailedStart, Session

LEMMA CloseAttemptType ==
    ASSUME NEW r \in Session, NEW killed \in BOOLEAN
    PROVE  CloseAttempt(r, killed) \in Session
<1> DEFINE d == [r EXCEPT !.closing = TRUE, !.wired = {},
                          !.files = DisposedFiles(r.files)]
<1>1. d \in Session
  <2>1. DisposedFiles(r.files) \in FileState
    BY DEF DisposedFiles, FileState
  <2>2. {} \in SUBSET Pids
    OBVIOUS
  <2> QED BY <2>1, <2>2, Zenon DEF Session
<1>2. [d EXCEPT !.life = "closed", !.pty = NoPid, !.age = 0, !.idle = 0] \in Session
  <2> HIDE DEF d
  <2> QED BY <1>1, ClockZero, ZenonT(30) DEF Session
<1> QED BY <1>1, <1>2, Zenon DEF CloseAttempt

LEMMA ExitedType ==
    ASSUME NEW r \in Session
    PROVE  Exited(r) \in Session
BY ClockZero, Zenon DEF Exited, Session

LEMMA SignalType ==
    ASSUME proc \in [Pids -> ProcState], NEW P
    PROVE  Signal(P) \in [Pids -> ProcState]
BY DEF Signal, ProcState

LEMMA OlderType ==
    ASSUME NEW limit \in Nat, NEW n \in 0..limit
    PROVE  Older(n, limit) \in 0..limit
BY DEF Older

\* A turn that closes sessions keeps the type of everything it changes.
LEMMA CloseSessionsType ==
    ASSUME TypeOK, NEW S \in SUBSET Ids, NEW failed, CloseSessions(S, failed)
    PROVE  /\ session' \in [Ids -> Session]
           /\ proc' \in [Pids -> ProcState]
           /\ killFaults' \in 0..MaxKillFaults
<1>1. session' \in [Ids -> Session]
  BY CloseAttemptType DEF CloseSessions, TypeOK
<1>2. proc' \in [Pids -> ProcState]
  BY SignalType DEF CloseSessions, TypeOK
<1>3. Cardinality(failed) \in Nat
  <2>1. failed \in SUBSET Ids
    BY DEF CloseSessions
  <2>2. IsFiniteSet(failed)
    BY <2>1, IdsAssumption, FS_Subset DEF IdsAssumption
  <2> QED BY <2>2, FS_CardinalityType
<1>4. killFaults' \in 0..MaxKillFaults
  BY <1>3, LimitsAssumption DEF LimitsAssumption, CloseSessions, TypeOK
<1> QED BY <1>1, <1>2, <1>4

-----------------------------------------------------------------------------
(* Type correctness *)

LEMMA InitType == Init => TypeOK
BY CreatedType, LimitsAssumption
   DEF Init, TypeOK, LimitsAssumption, ProcState, Phase

LEMMA StepType == TypeOK /\ [Next]_vars => TypeOK'
<1> SUFFICES ASSUME TypeOK, [Next]_vars
             PROVE  TypeOK'
  OBVIOUS
<1> USE DEF TypeOK
<1>1. ASSUME NEW s \in Ids, CreateSession(s)
      PROVE  TypeOK'
  BY <1>1, CreatedType DEF CreateSession
<1>2. ASSUME NEW s \in Ids, Touch(s)
      PROVE  TypeOK'
  BY <1>2, TouchedType DEF Touch
<1>3. ASSUME NEW s \in Ids, NEW p \in Pids, StartSession(s, p)
      PROVE  TypeOK'
  <2>1. "running" \in ProcState
    BY DEF ProcState
  <2> QED BY <1>3, <2>1, StartedType DEF StartSession
<1>4. ASSUME NEW s \in Ids, NEW p \in Pids, NEW killed \in BOOLEAN,
             BridgeStartFails(s, p, killed)
      PROVE  TypeOK'
  <2>1. FailedStart(Touched(session[s]), p, killed) \in Session
    BY TouchedType, FailedStartType
  <2>2. killFaults' \in 0..MaxKillFaults
    BY <1>4, LimitsAssumption DEF LimitsAssumption, BridgeStartFails
  <2>3. proc' \in [Pids -> ProcState]
    BY <1>4 DEF BridgeStartFails, ProcState
  <2> QED BY <1>4, <2>1, <2>2, <2>3 DEF BridgeStartFails
<1>5. ASSUME NEW s \in Ids, AppSpawnThrows(s)
      PROVE  TypeOK'
  BY <1>5, CloseSessionsType DEF AppSpawnThrows
<1>6. ASSUME NEW s \in Ids, NEW p \in Pids, NEW killed \in BOOLEAN,
             NEW rekilled \in BOOLEAN, AppStartFails(s, p, killed, rekilled)
      PROVE  TypeOK'
  <2>1. CloseAttempt(FailedStart(Touched(session[s]), p, killed), rekilled) \in Session
    BY TouchedType, FailedStartType, CloseAttemptType
  <2>2. killFaults' \in 0..MaxKillFaults
    BY <1>6, LimitsAssumption DEF LimitsAssumption, AppStartFails
  <2>3. proc' \in [Pids -> ProcState]
    BY <1>6 DEF AppStartFails, ProcState
  <2> QED BY <1>6, <2>1, <2>2, <2>3 DEF AppStartFails
<1>7. ASSUME NEW s \in Ids, GetFileSession(s)
      PROVE  TypeOK'
  <2>1. [session[s] EXCEPT !.idle = 0, !.files = "open"] \in Session
    BY ClockZero DEF Session, FileState
  <2> QED BY <1>7, <2>1 DEF GetFileSession
<1>8. ASSUME NEW s \in Ids, FileDrained(s)
      PROVE  TypeOK'
  <2>1. [session[s] EXCEPT !.files = "drained"] \in Session
    BY DEF Session, FileState
  <2> QED BY <1>8, <2>1 DEF FileDrained
<1>9. ASSUME NEW s \in Ids, NEW failed, CloseSession(s, failed)
      PROVE  TypeOK'
  BY <1>9, CloseSessionsType DEF CloseSession
<1>10. ASSUME NEW failed, CleanupExpiredSessions(failed)
       PROVE  TypeOK'
  <2>1. Expired \in SUBSET Ids
    BY DEF Expired, Open
  <2> QED BY <1>10, <2>1, CloseSessionsType DEF CleanupExpiredSessions
<1>11. ASSUME NEW p \in Pids, ProcessExits(p)
       PROVE  TypeOK'
  BY <1>11 DEF ProcessExits, ProcState
<1>12. ASSUME NEW p \in Pids, ExitEvent(p)
       PROVE  TypeOK'
  <2>1. session' \in [Ids -> Session]
    BY <1>12, ExitedType DEF ExitEvent
  <2> QED BY <1>12, <2>1 DEF ExitEvent, ProcState
<1>13. CASE BeginShutdown
  BY <1>13 DEF BeginShutdown, Phase
<1>14. ASSUME NEW failed, CloseAll(failed)
       PROVE  TypeOK'
  <2>1. Open \in SUBSET Ids
    BY DEF Open
  <2> QED BY <1>14, <2>1, CloseSessionsType DEF CloseAll, Phase
<1>15. CASE FinishShutdown
  BY <1>15 DEF FinishShutdown, Phase
<1>16. CASE Tick
  <2>1. ASSUME NEW s \in Ids
        PROVE  [session[s] EXCEPT !.age = Older(@, MaxSessionAge),
                                  !.idle = Older(@, IdleGrace)] \in Session
    <3>1. session[s].age \in 0..MaxSessionAge /\ session[s].idle \in 0..IdleGrace
      BY DEF Session
    <3>2. /\ Older(session[s].age, MaxSessionAge) \in 0..MaxSessionAge
          /\ Older(session[s].idle, IdleGrace) \in 0..IdleGrace
      BY <3>1, OlderType, LimitsAssumption DEF LimitsAssumption
    <3> QED BY <3>2 DEF Session
  <2> QED BY <1>16, <2>1 DEF Tick
<1>17. CASE UNCHANGED vars
  BY <1>17 DEF vars
<1> QED
  BY <1>1, <1>2, <1>3, <1>4, <1>5, <1>6, <1>7, <1>8, <1>9, <1>10, <1>11, <1>12,
     <1>13, <1>14, <1>15, <1>16, <1>17
     DEF Next, BackgroundStep, AppStep, BridgeStep, FileStep, ProcessStep, Sweep,
         ShutdownStep

\* Every reachable state of the manager is well typed, for any limits and any
\* number of sessions and processes.
THEOREM TypeCorrect == Spec => []TypeOK
BY InitType, StepType, PTL DEF Spec

-----------------------------------------------------------------------------
(* The operations on one session object keep it well formed. *)

LEMMA CreatedWellFormed == WellFormed(Unborn) /\ WellFormed(Created)
BY DEF WellFormed, Unborn, Created

LEMMA StartedWellFormed ==
    ASSUME NEW r \in Session, NEW p \in Pids, ~r.closing, r.life = "open"
    PROVE  WellFormed(Started(r, p))
<1>1. Started(r, p) = [r EXCEPT !.idle = 0, !.pty = p, !.wired = {p}]
  BY Zenon DEF Started, Touched
<1> QED BY <1>1 DEF WellFormed, Session

\* A session without a pty has no listener either, so marking it closing with
\* the handle of a process it could not kill needs no detaching.
LEMMA FailedStartWellFormed ==
    ASSUME NEW r \in Session, NEW p \in Pids, NEW killed \in BOOLEAN,
           WellFormed(r), r.life = "open", r.pty = NoPid
    PROVE  WellFormed(FailedStart(Touched(r), p, killed))
<1> DEFINE q == Touched(r)
           f == [q EXCEPT !.pty = p, !.closing = TRUE]
<1>1. q \in Session /\ WellFormed(q)
  BY TouchedType DEF Touched, WellFormed, Session
<1>2. q.life = "open" /\ q.wired = {}
  BY NoPidAssumption DEF Touched, WellFormed, Session, NoPidAssumption
<1>3. f.life = "open" /\ f.pty = p /\ f.wired = {}
  <2> HIDE DEF q
  <2> QED BY <1>1, <1>2 DEF Session
<1>4. WellFormed(f)
  <2> HIDE DEF f
  <2> QED BY <1>3 DEF WellFormed
<1> QED BY <1>1, <1>4 DEF FailedStart

LEMMA CloseAttemptFields ==
    ASSUME NEW r \in Session, NEW killed \in BOOLEAN
    PROVE  LET c == CloseAttempt(r, killed)
           IN  /\ c.closing
               /\ c.wired = {}
               /\ c.exited = r.exited
               /\ c.files # "open"
               /\ killed => c.life = "closed" /\ c.pty = NoPid
               /\ ~killed => c.life = r.life /\ c.pty = r.pty
BY DEF CloseAttempt, DisposedFiles, Session, FileState

LEMMA CloseAttemptWellFormed ==
    ASSUME NEW r \in Session, NEW killed \in BOOLEAN, WellFormed(r), r.life = "open"
    PROVE  WellFormed(CloseAttempt(r, killed))
BY CloseAttemptFields DEF WellFormed

LEMMA ExitedWellFormed ==
    ASSUME NEW r \in Session, NEW p \in r.wired, WellFormed(r)
    PROVE  /\ WellFormed(Exited(r))
           /\ r.life = "open" /\ r.pty = p
           /\ Exited(r).life = "open" /\ Exited(r).pty = p
           /\ Exited(r).closing = r.closing
<1>1. p \in Pids /\ r.pty = p /\ p # NoPid
  BY NoPidAssumption DEF NoPidAssumption, WellFormed, Session
<1>2. r.life = "open"
  BY <1>1 DEF WellFormed, Session, Unborn
<1>3. /\ Exited(r).life = r.life /\ Exited(r).pty = r.pty
      /\ Exited(r).wired = r.wired /\ Exited(r).closing = r.closing
  BY DEF Exited, Session
<1> QED BY <1>1, <1>2, <1>3 DEF WellFormed

-----------------------------------------------------------------------------
(* The inductive invariant, one lemma for each kind of step *)

LEMMA OpenIsFinite == IsFiniteSet(Open) /\ Cardinality(Open) \in Nat
<1>1. Open \in SUBSET Ids
  BY DEF Open
<1>2. IsFiniteSet(Open)
  BY <1>1, IdsAssumption, FS_Subset DEF IdsAssumption
<1> QED BY <1>2, FS_CardinalityType

\* A step that removes sessions from the map, or none, keeps the capacity.
LEMMA ShrinkingKeepsCapacity ==
    ASSUME CapacityRespected, Open' \subseteq Open
    PROVE  CapacityRespected'
<1>1. Cardinality(Open') <= Cardinality(Open) /\ Cardinality(Open') \in Nat
  BY OpenIsFinite, FS_Subset, FS_CardinalityType
<1> QED
  BY <1>1, OpenIsFinite, LimitsAssumption DEF LimitsAssumption, CapacityRespected

\* Steps that leave handles, flags and processes alone.
LEMMA QuietStepKeeps ==
    ASSUME IInv, TypeOK', proc' = proc,
           phase' \in {"draining", "down"} => phase \in {"draining", "down"},
           \A s \in Ids : /\ session'[s].life = session[s].life
                          /\ session'[s].pty = session[s].pty
                          /\ session'[s].exited = session[s].exited
                          /\ session'[s].closing = session[s].closing
                          /\ WellFormed(session'[s])
    PROVE  IInv'
<1>1. Open' = Open /\ Usable' = Usable
  BY DEF Open, Usable
<1>2. SessionsWellFormed'
  BY DEF SessionsWellFormed, WellFormed
<1>3. NoOrphanProcess'
  BY <1>1 DEF IInv, NoOrphanProcess, Open
<1>4. ExitedIsCurrent'
  BY <1>1 DEF IInv, ExitedIsCurrent, Open
<1>5. CapacityRespected'
  BY <1>1, ShrinkingKeepsCapacity DEF IInv
<1>6. ShutdownLeavesNothingUsable'
  BY <1>1 DEF IInv, ShutdownLeavesNothingUsable
<1> QED BY <1>2, <1>3, <1>4, <1>5, <1>6 DEF IInv

\* Steps that close sessions: a process whose kill worked is signalled, any
\* other keeps its owner.
LEMMA ClosingStepKeeps ==
    ASSUME IInv, TypeOK', NEW S \in SUBSET Open, NEW failed,
           CloseSessions(S, failed), phase' = phase \/ S = Open
    PROVE  IInv'
<1>1. ASSUME NEW s \in Ids \ S
      PROVE  session'[s] = session[s]
  BY <1>1 DEF CloseSessions
<1>2. ASSUME NEW s \in S
      PROVE  /\ session'[s].closing
             /\ session'[s].exited = session[s].exited
             /\ s \notin failed => session'[s].life = "closed"
             /\ s \in failed => /\ session'[s].life = "open"
                                /\ session'[s].pty = session[s].pty
             /\ WellFormed(session'[s])
  <2>1. s \in Ids /\ session[s].life = "open" /\ session[s] \in Session
    BY DEF Open, IInv, TypeOK
  <2>2. session'[s] = CloseAttempt(session[s], s \notin failed)
    BY <2>1 DEF CloseSessions
  <2>3. WellFormed(session[s])
    BY <2>1 DEF IInv, SessionsWellFormed
  <2> DEFINE killed == s \notin failed
             c == CloseAttempt(session[s], killed)
  <2>4. killed \in BOOLEAN
    OBVIOUS
  <2>5. /\ c.closing
        /\ c.exited = session[s].exited
        /\ killed => c.life = "closed"
        /\ ~killed => c.life = "open" /\ c.pty = session[s].pty
    <3> HIDE DEF killed
    <3> QED BY <2>1, <2>4, CloseAttemptFields
  <2>6. WellFormed(c)
    <3> HIDE DEF killed
    <3> QED BY <2>1, <2>3, <2>4, CloseAttemptWellFormed
  <2>7. session'[s] = c
    BY <2>2
  <2> HIDE DEF c
  <2> QED BY <2>5, <2>6, <2>7
<1>3. SessionsWellFormed'
  <2>1. ASSUME NEW s \in Ids
        PROVE  WellFormed(session'[s])
    BY <1>1, <1>2 DEF IInv, SessionsWellFormed
  <2> QED BY <2>1 DEF SessionsWellFormed, WellFormed
<1>4. Open' \subseteq Open /\ Usable' \subseteq Usable \ S
  BY <1>1, <1>2 DEF Open, Usable
<1>5. NoOrphanProcess'
  <2> SUFFICES ASSUME NEW p \in Pids, proc'[p] = "running"
               PROVE  \E s \in Open' : session'[s].pty = p
    BY DEF NoOrphanProcess
  <2>1. proc[p] = "running" /\ p \notin {session[s].pty : s \in S \ failed}
    BY DEF CloseSessions, Signal
  <2>2. PICK s \in Open : session[s].pty = p
    BY <2>1 DEF IInv, NoOrphanProcess
  <2>3. s \notin S \ failed
    BY <2>1, <2>2
  <2>4. session'[s].life = "open" /\ session'[s].pty = p
    BY <1>1, <1>2, <2>2, <2>3 DEF Open
  <2> QED BY <2>2, <2>4 DEF Open
<1>6. ExitedIsCurrent'
  <2> SUFFICES ASSUME NEW s \in Open', session'[s].exited
               PROVE  session'[s].pty \in Pids /\ proc'[session'[s].pty] = "reaped"
    BY DEF ExitedIsCurrent
  <2>1. s \in Open /\ session[s].exited /\ session'[s].pty = session[s].pty
    BY <1>1, <1>2 DEF Open
  <2>2. session[s].pty \in Pids /\ proc[session[s].pty] = "reaped"
    BY <2>1 DEF IInv, ExitedIsCurrent
  <2> QED BY <2>1, <2>2 DEF CloseSessions, Signal
<1>7. CapacityRespected'
  BY <1>4, ShrinkingKeepsCapacity DEF IInv
<1>8. ShutdownLeavesNothingUsable'
  BY <1>4 DEF IInv, ShutdownLeavesNothingUsable, Usable
<1> QED BY <1>3, <1>5, <1>6, <1>7, <1>8 DEF IInv

\* Steps that spawn p for the session s, whatever becomes of the attempt: a
\* process left running is the handle of a session that stays in the map.
LEMMA SpawnStepKeeps ==
    ASSUME IInv, TypeOK', NEW s \in Ids, NEW p \in Pids, NEW r, NEW st,
           CanSpawn(s), proc[p] = "unused",
           session' = [session EXCEPT ![s] = r],
           proc' = [proc EXCEPT ![p] = st], st \in {"running", "signalled"},
           phase' = phase,
           WellFormed(r), r.life \in {"open", "closed"}, r.exited = session[s].exited,
           st = "running" => r.life = "open" /\ r.pty = p
    PROVE  IInv'
<1>1. session'[s] = r /\ \A t \in Ids \ {s} : session'[t] = session[t]
  BY DEF IInv, TypeOK
<1>2. proc'[p] = st /\ \A q \in Pids \ {p} : proc'[q] = proc[q]
  BY DEF IInv, TypeOK
<1>3. s \in Usable /\ s \in Open /\ session[s].pty = NoPid /\ ~session[s].exited
  <2>1. s \in Usable /\ s \in Open /\ session[s].pty = NoPid
    BY DEF CanSpawn, Usable
  <2> QED BY <2>1, NoPidAssumption DEF NoPidAssumption, IInv, ExitedIsCurrent
<1>4. Open' \subseteq Open
  BY <1>1, <1>3 DEF Open
<1>5. SessionsWellFormed'
  <2>1. ASSUME NEW t \in Ids
        PROVE  WellFormed(session'[t])
    BY <1>1 DEF IInv, SessionsWellFormed
  <2> QED BY <2>1 DEF SessionsWellFormed, WellFormed
<1>6. NoOrphanProcess'
  <2> SUFFICES ASSUME NEW q \in Pids, proc'[q] = "running"
               PROVE  \E t \in Open' : session'[t].pty = q
    BY DEF NoOrphanProcess
  <2>1. CASE q = p
    BY <2>1, <1>1, <1>2 DEF Open
  <2>2. CASE q # p
    <3>1. PICK t \in Open : session[t].pty = q
      BY <2>2, <1>2 DEF IInv, NoOrphanProcess
    <3>2. t # s
      BY <3>1, <1>3, NoPidAssumption DEF NoPidAssumption
    <3> QED BY <3>1, <3>2, <1>1 DEF Open
  <2> QED BY <2>1, <2>2
<1>7. ExitedIsCurrent'
  <2> SUFFICES ASSUME NEW t \in Open', session'[t].exited
               PROVE  session'[t].pty \in Pids /\ proc'[session'[t].pty] = "reaped"
    BY DEF ExitedIsCurrent
  <2>1. t # s /\ t \in Open /\ session'[t] = session[t]
    BY <1>1, <1>3, <1>4 DEF Open
  <2>2. session[t].pty \in Pids /\ proc[session[t].pty] = "reaped"
    BY <2>1 DEF IInv, ExitedIsCurrent
  <2>3. session[t].pty # p
    BY <2>2
  <2> QED BY <2>1, <2>2, <2>3, <1>2
<1>8. CapacityRespected'
  BY <1>4, ShrinkingKeepsCapacity DEF IInv
<1>9. ShutdownLeavesNothingUsable'
  BY <1>3 DEF IInv, ShutdownLeavesNothingUsable
<1> QED BY <1>5, <1>6, <1>7, <1>8, <1>9 DEF IInv

LEMMA CreateStepKeeps ==
    ASSUME IInv, TypeOK', phase \in {"up", "stopping"}, NEW s \in Ids, CreateSession(s)
    PROVE  IInv'
<1>1. session'[s] = Created /\ \A t \in Ids \ {s} : session'[t] = session[t]
  BY DEF CreateSession, IInv, TypeOK
<1>2. Created.life = "open" /\ ~Created.exited
  BY DEF Created, Unborn
<1>3. s \notin Open /\ Open' = Open \union {s}
  BY <1>1, <1>2 DEF CreateSession, Open
<1>4. SessionsWellFormed'
  <2>1. ASSUME NEW t \in Ids
        PROVE  WellFormed(session'[t])
    BY <1>1, CreatedWellFormed DEF IInv, SessionsWellFormed
  <2> QED BY <2>1 DEF SessionsWellFormed, WellFormed
<1>5. NoOrphanProcess'
  <2> SUFFICES ASSUME NEW p \in Pids, proc[p] = "running"
               PROVE  \E t \in Open' : session'[t].pty = p
    BY DEF NoOrphanProcess, CreateSession
  <2>1. PICK t \in Open : session[t].pty = p
    BY DEF IInv, NoOrphanProcess
  <2> QED BY <2>1, <1>1, <1>3 DEF Open
<1>6. ExitedIsCurrent'
  <2> SUFFICES ASSUME NEW t \in Open', session'[t].exited
               PROVE  session'[t].pty \in Pids /\ proc[session'[t].pty] = "reaped"
    BY DEF ExitedIsCurrent, CreateSession
  <2>1. t \in Open /\ session'[t] = session[t]
    BY <1>1, <1>2, <1>3 DEF Open
  <2> QED BY <2>1 DEF IInv, ExitedIsCurrent
<1>7. CapacityRespected'
  <2>1. Cardinality(Open') = Cardinality(Open) + 1
    BY <1>3, OpenIsFinite, FS_AddElement
  <2> QED
    BY <2>1, OpenIsFinite, LimitsAssumption
       DEF LimitsAssumption, CreateSession, HasCapacity, CapacityRespected
<1>8. ShutdownLeavesNothingUsable'
  BY DEF CreateSession, ShutdownLeavesNothingUsable
<1> QED BY <1>4, <1>5, <1>6, <1>7, <1>8 DEF IInv

LEMMA ProcessExitKeeps ==
    ASSUME IInv, TypeOK', NEW p \in Pids, ProcessExits(p)
    PROVE  IInv'
<1>1. session' = session /\ phase' = phase /\ Open' = Open /\ Usable' = Usable
  BY DEF ProcessExits, Open, Usable
<1>2. proc'[p] = "exited" /\ \A q \in Pids \ {p} : proc'[q] = proc[q]
  BY DEF ProcessExits, IInv, TypeOK
<1>3. SessionsWellFormed'
  BY <1>1 DEF IInv, SessionsWellFormed, WellFormed
<1>4. NoOrphanProcess'
  <2>1. \A q \in Pids : proc'[q] = "running" => proc[q] = "running"
    BY <1>2
  <2> QED BY <1>1, <2>1 DEF IInv, NoOrphanProcess
<1>5. ExitedIsCurrent'
  <2>1. \A q \in Pids : proc[q] = "reaped" => proc'[q] = "reaped"
    BY <1>2 DEF ProcessExits
  <2> QED BY <1>1, <2>1 DEF IInv, ExitedIsCurrent
<1>6. CapacityRespected' /\ ShutdownLeavesNothingUsable'
  BY <1>1 DEF IInv, CapacityRespected, ShutdownLeavesNothingUsable
<1> QED BY <1>3, <1>4, <1>5, <1>6 DEF IInv

\* The exit event is delivered to the session whose handle the process is,
\* if any: that is what a well-formed session's listeners guarantee.
LEMMA ExitEventKeeps ==
    ASSUME IInv, TypeOK', NEW p \in Pids, ExitEvent(p)
    PROVE  IInv'
<1>1. proc[p] = "exited" /\ proc'[p] = "reaped" /\ \A q \in Pids \ {p} : proc'[q] = proc[q]
  BY DEF ExitEvent, IInv, TypeOK
<1>2. ASSUME NEW s \in Ids
      PROVE  /\ WellFormed(session'[s])
             /\ session'[s].life = session[s].life
             /\ session'[s].pty = session[s].pty
             /\ session'[s].closing = session[s].closing
             /\ session'[s].exited => session[s].exited \/ session[s].pty = p
  <2>1. session[s] \in Session /\ WellFormed(session[s])
    BY DEF IInv, TypeOK, SessionsWellFormed
  <2>2. CASE p \in session[s].wired
    <3>1. session'[s] = Exited(session[s])
      BY <2>2 DEF ExitEvent
    <3> QED BY <2>1, <2>2, <3>1, ExitedWellFormed
  <2>3. CASE p \notin session[s].wired
    <3>1. session'[s] = session[s]
      BY <2>3 DEF ExitEvent
    <3> QED BY <2>1, <3>1
  <2> QED BY <2>2, <2>3
<1>3. Open' = Open /\ Usable' = Usable
  BY <1>2 DEF Open, Usable
<1>4. SessionsWellFormed'
  BY <1>2 DEF SessionsWellFormed, WellFormed
<1>5. NoOrphanProcess'
  <2> SUFFICES ASSUME NEW q \in Pids, proc'[q] = "running"
               PROVE  \E s \in Open' : session'[s].pty = q
    BY DEF NoOrphanProcess
  <2>1. proc[q] = "running"
    BY <1>1
  <2>2. PICK s \in Open : session[s].pty = q
    BY <2>1 DEF IInv, NoOrphanProcess
  <2> QED BY <2>2, <1>2, <1>3 DEF Open
<1>6. ExitedIsCurrent'
  <2> SUFFICES ASSUME NEW s \in Open', session'[s].exited
               PROVE  session'[s].pty \in Pids /\ proc'[session'[s].pty] = "reaped"
    BY DEF ExitedIsCurrent
  <2>1. s \in Open /\ session'[s].pty = session[s].pty
    BY <1>2, <1>3 DEF Open
  <2>2. CASE session[s].pty = p
    BY <2>1, <2>2, <1>1
  <2>3. CASE session[s].pty # p
    <3>1. session[s].pty \in Pids /\ proc[session[s].pty] = "reaped"
      BY <2>1, <2>3, <1>2 DEF IInv, ExitedIsCurrent, Open
    <3> QED BY <2>1, <2>3, <3>1, <1>1
  <2> QED BY <2>2, <2>3
<1>7. CapacityRespected' /\ ShutdownLeavesNothingUsable'
  BY <1>3 DEF IInv, CapacityRespected, ShutdownLeavesNothingUsable, ExitEvent
<1> QED BY <1>4, <1>5, <1>6, <1>7 DEF IInv

-----------------------------------------------------------------------------
(* The invariant of the specification *)

LEMMA InvInit == Init => IInv
<1> SUFFICES ASSUME Init PROVE IInv
  OBVIOUS
<1>1. Open = {} /\ Usable = {}
  BY DEF Init, Open, Usable, Unborn
<1>2. SessionsWellFormed
  BY CreatedWellFormed DEF Init, SessionsWellFormed
<1>3. NoOrphanProcess /\ ExitedIsCurrent
  BY <1>1 DEF Init, NoOrphanProcess, ExitedIsCurrent
<1>4. CapacityRespected /\ ShutdownLeavesNothingUsable
  BY <1>1, FS_EmptySet, LimitsAssumption
     DEF LimitsAssumption, CapacityRespected, ShutdownLeavesNothingUsable
<1> QED BY <1>2, <1>3, <1>4, InitType DEF IInv

LEMMA InvStep == IInv /\ [Next]_vars => IInv'
<1> SUFFICES ASSUME IInv, [Next]_vars
             PROVE  IInv'
  OBVIOUS
<1>0. TypeOK'
  BY StepType DEF IInv
<1>t. /\ \A s \in Ids : session[s] \in Session /\ WellFormed(session[s])
      /\ session \in [Ids -> Session]
  BY DEF IInv, TypeOK, SessionsWellFormed
<1>1. ASSUME NEW s \in Ids, phase \in {"up", "stopping"}, CreateSession(s)
      PROVE  IInv'
  BY <1>0, <1>1, CreateStepKeeps
<1>2. ASSUME NEW s \in Ids, Touch(s)
      PROVE  IInv'
  <2>1. session'[s] = Touched(session[s]) /\ \A u \in Ids \ {s} : session'[u] = session[u]
    BY <1>2, <1>t DEF Touch
  <2>2. /\ Touched(session[s]).life = "open" /\ session[s].life = "open"
        /\ Touched(session[s]).pty = session[s].pty
        /\ Touched(session[s]).exited = session[s].exited
        /\ Touched(session[s]).closing = session[s].closing
        /\ Touched(session[s]).wired = session[s].wired
    BY <1>2, <1>t DEF Touch, Touched, Session, Open
  <2>3. WellFormed(Touched(session[s]))
    BY <2>2, <1>t DEF WellFormed
  <2>4. proc' = proc /\ phase' = phase
    BY <1>2 DEF Touch
  <2> QED BY <1>0, <1>t, <2>1, <2>2, <2>3, <2>4, QuietStepKeeps
<1>3. ASSUME NEW s \in Ids, NEW p \in Pids, StartSession(s, p)
      PROVE  IInv'
  <2>1. ~session[s].closing /\ session[s].life = "open"
    BY <1>3 DEF StartSession, CanSpawn, Usable, Open
  <2> DEFINE r == Started(session[s], p)
  <2>2. WellFormed(r)
    BY <1>t, <2>1, StartedWellFormed
  <2>3. r.life = "open" /\ r.pty = p /\ r.exited = session[s].exited
    BY <1>t, <2>1 DEF Started, Touched, Session
  <2>4. /\ CanSpawn(s) /\ proc[p] = "unused" /\ phase' = phase
        /\ session' = [session EXCEPT ![s] = r]
        /\ proc' = [proc EXCEPT ![p] = "running"]
    BY <1>3 DEF StartSession
  <2> HIDE DEF r
  <2> QED BY <1>0, <2>2, <2>3, <2>4, SpawnStepKeeps
<1>4. ASSUME NEW s \in Ids, NEW p \in Pids, NEW killed \in BOOLEAN,
             BridgeStartFails(s, p, killed)
      PROVE  IInv'
  <2>1. session[s].life = "open" /\ session[s].pty = NoPid
    BY <1>4 DEF BridgeStartFails, CanSpawn, Usable, Open
  <2> DEFINE r == FailedStart(Touched(session[s]), p, killed)
             st == IF killed THEN "signalled" ELSE "running"
  <2>2. WellFormed(r)
    BY <1>t, <2>1, FailedStartWellFormed
  <2>3. r.life = "open" /\ r.exited = session[s].exited /\ (~killed => r.pty = p)
    BY <1>t, <2>1 DEF FailedStart, Touched, Session
  <2>4. /\ CanSpawn(s) /\ proc[p] = "unused" /\ phase' = phase
        /\ session' = [session EXCEPT ![s] = r]
        /\ proc' = [proc EXCEPT ![p] = st]
    BY <1>4 DEF BridgeStartFails
  <2>5. st \in {"running", "signalled"} /\ (st = "running" => ~killed)
    OBVIOUS
  <2> HIDE DEF r, st
  <2> QED BY <1>0, <2>2, <2>3, <2>4, <2>5, SpawnStepKeeps
<1>5. ASSUME NEW s \in Ids, AppSpawnThrows(s)
      PROVE  IInv'
  <2>1. {s} \in SUBSET Open /\ CloseSessions({s}, {}) /\ phase' = phase
    BY <1>5 DEF AppSpawnThrows, CanSpawn, Usable
  <2> QED BY <1>0, <2>1, ClosingStepKeeps
<1>6. ASSUME NEW s \in Ids, NEW p \in Pids, NEW killed \in BOOLEAN,
             NEW rekilled \in BOOLEAN, AppStartFails(s, p, killed, rekilled)
      PROVE  IInv'
  <2>1. session[s].life = "open" /\ session[s].pty = NoPid
    BY <1>6 DEF AppStartFails, CanSpawn, Usable, Open
  <2> DEFINE f == FailedStart(Touched(session[s]), p, killed)
             r == CloseAttempt(f, rekilled)
             st == IF rekilled THEN "signalled" ELSE "running"
  <2>2. f \in Session /\ WellFormed(f)
    BY <1>t, <2>1, TouchedType, FailedStartType, FailedStartWellFormed
  <2>3. f.life = "open" /\ f.exited = session[s].exited /\ (~killed => f.pty = p)
    BY <1>t, <2>1 DEF FailedStart, Touched, Session
  <2>4. /\ CanSpawn(s) /\ proc[p] = "unused" /\ phase' = phase
        /\ killed => rekilled
        /\ session' = [session EXCEPT ![s] = r]
        /\ proc' = [proc EXCEPT ![p] = st]
    BY <1>6 DEF AppStartFails
  <2>5. st \in {"running", "signalled"} /\ (st = "running" => ~rekilled)
    OBVIOUS
  <2>6. /\ WellFormed(r) /\ r.life \in {"open", "closed"}
        /\ r.exited = session[s].exited
        /\ ~rekilled => r.life = "open" /\ r.pty = p
    <3> HIDE DEF f
    <3>1. WellFormed(r)
      BY <2>2, <2>3, CloseAttemptWellFormed
    <3>2. /\ r.exited = f.exited
          /\ rekilled => r.life = "closed"
          /\ ~rekilled => r.life = f.life /\ r.pty = f.pty
      BY <2>2, CloseAttemptFields
    <3> QED BY <3>1, <3>2, <2>3, <2>4
  <2> HIDE DEF r, st
  <2> QED BY <1>0, <2>4, <2>5, <2>6, SpawnStepKeeps
<1>7. ASSUME NEW s \in Ids, GetFileSession(s)
      PROVE  IInv'
  <2> DEFINE r == [session[s] EXCEPT !.idle = 0, !.files = "open"]
  <2>1. session'[s] = r /\ \A u \in Ids \ {s} : session'[u] = session[u]
    BY <1>7, <1>t DEF GetFileSession
  <2>2. session[s].life = "open" /\ ~session[s].closing
    BY <1>7 DEF GetFileSession, Usable, Open
  <2>3. /\ r.life = session[s].life /\ r.pty = session[s].pty
        /\ r.exited = session[s].exited /\ r.closing = session[s].closing
        /\ r.wired = session[s].wired
    BY <1>t DEF Session
  <2>4. WellFormed(r)
    <3> HIDE DEF r
    <3> QED BY <2>2, <2>3, <1>t DEF WellFormed
  <2>5. proc' = proc /\ phase' = phase
    BY <1>7 DEF GetFileSession
  <2> HIDE DEF r
  <2> QED BY <1>0, <1>t, <2>1, <2>3, <2>4, <2>5, QuietStepKeeps
<1>8. ASSUME NEW s \in Ids, FileDrained(s)
      PROVE  IInv'
  <2> DEFINE r == [session[s] EXCEPT !.files = "drained"]
  <2>1. session'[s] = r /\ \A u \in Ids \ {s} : session'[u] = session[u]
    BY <1>8, <1>t DEF FileDrained
  <2>2. session[s].life # "unborn"
    BY <1>8, <1>t DEF FileDrained, WellFormed, Unborn
  <2>3. /\ r.life = session[s].life /\ r.pty = session[s].pty
        /\ r.exited = session[s].exited /\ r.closing = session[s].closing
        /\ r.wired = session[s].wired /\ r.files = "drained"
    BY <1>t DEF Session
  <2>4. WellFormed(r)
    <3> HIDE DEF r
    <3> QED BY <2>2, <2>3, <1>t DEF WellFormed
  <2>5. proc' = proc /\ phase' = phase
    BY <1>8 DEF FileDrained
  <2> HIDE DEF r
  <2> QED BY <1>0, <1>t, <2>1, <2>3, <2>4, <2>5, QuietStepKeeps
<1>9. ASSUME NEW s \in Ids, NEW failed, CloseSession(s, failed)
      PROVE  IInv'
  <2>1. {s} \in SUBSET Open /\ CloseSessions({s}, failed) /\ phase' = phase
    BY <1>9 DEF CloseSession
  <2> QED BY <1>0, <2>1, ClosingStepKeeps
<1>10. ASSUME NEW failed, CleanupExpiredSessions(failed)
       PROVE  IInv'
  <2>1. Expired \in SUBSET Open /\ CloseSessions(Expired, failed) /\ phase' = phase
    BY <1>10 DEF CleanupExpiredSessions, Expired
  <2> QED BY <1>0, <2>1, ClosingStepKeeps
<1>11. ASSUME NEW p \in Pids, ProcessExits(p)
       PROVE  IInv'
  BY <1>0, <1>11, ProcessExitKeeps
<1>12. ASSUME NEW p \in Pids, ExitEvent(p)
       PROVE  IInv'
  BY <1>0, <1>12, ExitEventKeeps
<1>13. CASE BeginShutdown
  <2>1. session' = session /\ proc' = proc /\ phase' = "stopping"
    BY <1>13 DEF BeginShutdown
  <2> QED BY <1>0, <1>t, <2>1, QuietStepKeeps
<1>14. ASSUME NEW failed, CloseAll(failed)
       PROVE  IInv'
  BY <1>0, <1>14, ClosingStepKeeps DEF CloseAll
<1>15. CASE FinishShutdown
  <2>1. session' = session /\ proc' = proc /\ phase = "draining"
    BY <1>15 DEF FinishShutdown
  <2> QED BY <1>0, <1>t, <2>1, QuietStepKeeps
<1>16. CASE Tick
  <2>1. ASSUME NEW s \in Ids
        PROVE  /\ session'[s].life = session[s].life
               /\ session'[s].pty = session[s].pty
               /\ session'[s].exited = session[s].exited
               /\ session'[s].closing = session[s].closing
               /\ WellFormed(session'[s])
    <3>1. CASE s \in Open
      <4> DEFINE r == [session[s] EXCEPT !.age = Older(@, MaxSessionAge),
                                         !.idle = Older(@, IdleGrace)]
      <4>1. session'[s] = r
        BY <1>16, <3>1 DEF Tick
      <4>2. /\ r.life = session[s].life /\ r.pty = session[s].pty
            /\ r.exited = session[s].exited /\ r.closing = session[s].closing
            /\ r.wired = session[s].wired /\ session[s].life = "open"
        BY <1>t, <3>1 DEF Session, Open
      <4> HIDE DEF r
      <4> QED BY <4>1, <4>2, <1>t DEF WellFormed
    <3>2. CASE s \notin Open
      BY <1>16, <1>t, <3>2 DEF Tick
    <3> QED BY <3>1, <3>2
  <2>2. proc' = proc /\ phase' = phase
    BY <1>16 DEF Tick
  <2> QED BY <1>0, <2>1, <2>2, QuietStepKeeps
<1>17. CASE UNCHANGED vars
  BY <1>0, <1>t, <1>17, QuietStepKeeps DEF vars
<1> QED
  BY <1>1, <1>2, <1>3, <1>4, <1>5, <1>6, <1>7, <1>8, <1>9, <1>10, <1>11, <1>12,
     <1>13, <1>14, <1>15, <1>16, <1>17
     DEF Next, BackgroundStep, AppStep, BridgeStep, FileStep, ProcessStep, Sweep,
         ShutdownStep, Serving

\* IInv is an invariant of the manager.
THEOREM Invariance == Spec => []IInv
BY InvInit, InvStep, PTL DEF Spec

-----------------------------------------------------------------------------
(* What follows from it *)

\* No ssh process that was never killed is out of reach of the session map.
THEOREM NoOrphans == Spec => []NoOrphanProcess
<1>1. IInv => NoOrphanProcess
  BY DEF IInv
<1> QED BY <1>1, Invariance, PTL

\* exited always speaks of the process the session has now.
THEOREM ExitedCurrent == Spec => []ExitedIsCurrent
<1>1. IInv => ExitedIsCurrent
  BY DEF IInv
<1> QED BY <1>1, Invariance, PTL

\* A closing session listens to no process, and leaving the map releases the
\* handle and the file session.
THEOREM ClosingDetached == Spec => []ClosingIsDetached
<1>1. IInv => ClosingIsDetached
  BY DEF IInv, SessionsWellFormed, WellFormed, ClosingIsDetached
<1> QED BY <1>1, Invariance, PTL

\* After closeAll nothing in the map is usable again.
THEOREM ShutdownFinal == Spec => []ShutdownLeavesNothingUsable
<1>1. IInv => ShutdownLeavesNothingUsable
  BY DEF IInv
<1> QED BY <1>1, Invariance, PTL

\* Unkilled processes are at most maxSessions: each is the handle of another
\* entry of the map.
LEMMA ProcessesBoundedHolds == IInv => ProcessesBounded
<1> SUFFICES ASSUME IInv PROVE ProcessesBounded
  OBVIOUS
<1> DEFINE Running == {p \in Pids : proc[p] = "running"}
           Handles == {session[s].pty : s \in Open}
<1>1. Running \subseteq Handles
  BY DEF IInv, NoOrphanProcess
<1>2. IsFiniteSet(Handles) /\ Cardinality(Handles) <= Cardinality(Open)
  <2> DEFINE f == [s \in Open |-> session[s].pty]
  <2>1. f \in Surjection(Open, Handles)
    BY DEF Surjection
  <2> QED BY <2>1, OpenIsFinite, FS_Surjection
<1>3. Cardinality(Running) <= Cardinality(Handles) /\ Cardinality(Running) \in Nat
  BY <1>1, <1>2, FS_Subset, FS_CardinalityType
<1>4. Cardinality(Handles) \in Nat
  BY <1>2, FS_CardinalityType
<1> QED
  BY <1>2, <1>3, <1>4, OpenIsFinite, LimitsAssumption
     DEF LimitsAssumption, IInv, CapacityRespected, ProcessesBounded

\* The limit on sessions bounds the ssh processes nobody has killed.
THEOREM ProcessBound == Spec => []ProcessesBounded
BY Invariance, ProcessesBoundedHolds, PTL

-----------------------------------------------------------------------------
(* Draining before the exit *)

\* Once closeAll has run, a file session is drained, or its drain is awaited.
DrainInv ==
    phase \in {"draining", "down"} => \A s \in Ids :
        /\ session[s].files # "open"
        /\ session[s].files = "draining" => phase = "draining" /\ s \in awaited

LEMMA CloseAttemptFiles ==
    ASSUME NEW r \in Session, NEW killed \in BOOLEAN
    PROVE  CloseAttempt(r, killed).files = DisposedFiles(r.files)
BY DEF CloseAttempt, DisposedFiles, Session

LEMMA CloseSessionsFiles ==
    ASSUME IInv, NEW S \in SUBSET Ids, NEW failed, CloseSessions(S, failed), NEW s \in Ids
    PROVE  session'[s].files = IF s \in S THEN DisposedFiles(session[s].files)
                               ELSE session[s].files
<1>1. session[s] \in Session
  BY DEF IInv, TypeOK
<1>2. (s \notin failed) \in BOOLEAN
  OBVIOUS
<1>3. CloseAttempt(session[s], s \notin failed).files = DisposedFiles(session[s].files)
  BY <1>1, <1>2, CloseAttemptFiles
<1> QED BY <1>3 DEF CloseSessions

\* After closeAll a close attempt finds no file session it could open anew.
LEMMA LateCloseKeepsFiles ==
    ASSUME IInv, DrainInv, phase \in {"draining", "down"}, NEW S \in SUBSET Open, NEW failed,
           CloseSessions(S, failed), UNCHANGED <<phase, awaited>>
    PROVE  DrainInv'
<1>1. S \in SUBSET Ids
  BY DEF Open
<1>2. ASSUME NEW s \in Ids
      PROVE  session'[s].files = session[s].files
  <2>1. session[s].files \in {"none", "draining", "drained"}
    BY DEF IInv, TypeOK, Session, FileState, DrainInv
  <2> QED BY <1>1, <2>1, CloseSessionsFiles DEF DisposedFiles
<1> QED BY <1>2 DEF DrainInv

LEMMA DrainStep == IInv /\ DrainInv /\ [Next]_vars => DrainInv'
<1> SUFFICES ASSUME IInv, DrainInv, [Next]_vars, phase' \in {"draining", "down"}
             PROVE  DrainInv'
  BY DEF DrainInv
<1>t. /\ \A s \in Ids : session[s] \in Session /\ WellFormed(session[s])
      /\ session \in [Ids -> Session]
  BY DEF IInv, TypeOK, SessionsWellFormed
<1>u. phase \in {"draining", "down"} => Usable = {}
  BY DEF IInv, ShutdownLeavesNothingUsable
<1>k. ASSUME \A s \in Ids : session'[s].files = session[s].files,
             UNCHANGED <<phase, awaited>>
      PROVE  DrainInv'
  BY <1>k DEF DrainInv
<1>1. ASSUME NEW s \in Ids, Serving, CreateSession(s)
      PROVE  DrainInv'
  BY <1>1 DEF Serving, CreateSession
<1>2. ASSUME NEW s \in Ids, Touch(s)
      PROVE  DrainInv'
  <2>1. \A u \in Ids : session'[u].files = session[u].files
    BY <1>2, <1>t DEF Touch, Touched, Session
  <2> QED BY <1>2, <2>1, <1>k DEF Touch
<1>3. ASSUME NEW s \in Ids, s \in Usable, UNCHANGED phase
      PROVE  DrainInv'
  BY <1>3, <1>u
<1>4. ASSUME NEW s \in Ids, FileDrained(s)
      PROVE  DrainInv'
  <2>1. /\ session'[s].files = "drained"
        /\ \A u \in Ids \ {s} : session'[u].files = session[u].files
    BY <1>4, <1>t DEF FileDrained, Session
  <2> QED BY <1>4, <2>1 DEF FileDrained, DrainInv
<1>5. ASSUME NEW s \in Ids, NEW failed, CloseSession(s, failed)
      PROVE  DrainInv'
  <2>1. {s} \in SUBSET Open /\ CloseSessions({s}, failed) /\ UNCHANGED <<phase, awaited>>
    BY <1>5 DEF CloseSession
  <2> QED BY <2>1, LateCloseKeepsFiles
<1>6. ASSUME NEW failed, CleanupExpiredSessions(failed)
      PROVE  DrainInv'
  BY <1>6 DEF CleanupExpiredSessions
<1>7. ASSUME NEW p \in Pids, ProcessExits(p)
      PROVE  DrainInv'
  BY <1>7, <1>k DEF ProcessExits
<1>8. ASSUME NEW p \in Pids, ExitEvent(p)
      PROVE  DrainInv'
  <2>1. \A u \in Ids : session'[u].files = session[u].files
    BY <1>8, <1>t DEF ExitEvent, Exited, Session
  <2> QED BY <1>8, <2>1, <1>k DEF ExitEvent
<1>9. ASSUME NEW failed, CloseAll(failed)
      PROVE  DrainInv'
  <2>1. Open \in SUBSET Ids /\ CloseSessions(Open, failed)
    BY <1>9 DEF CloseAll, Open
  <2>2. ASSUME NEW s \in Ids
        PROVE  session'[s].files # "open"
    <3>1. CASE s \in Open
      BY <2>1, <3>1, CloseSessionsFiles DEF DisposedFiles
    <3>2. CASE s \notin Open
      <4>1. session[s].files # "open"
        BY <1>t, <3>2 DEF Open, Session, WellFormed, Unborn
      <4> QED BY <2>1, <3>2, <4>1, CloseSessionsFiles
    <3> QED BY <3>1, <3>2
  <2> QED BY <1>9, <2>2 DEF CloseAll, DrainInv
<1>10. CASE FinishShutdown
  BY <1>10 DEF FinishShutdown, DrainInv
<1>11. CASE Tick
  <2>1. \A u \in Ids : session'[u].files = session[u].files
    BY <1>11, <1>t DEF Tick, Session
  <2> QED BY <1>11, <2>1, <1>k DEF Tick
<1>12. CASE UNCHANGED vars
  BY <1>12, <1>k DEF vars
<1>13. CASE BeginShutdown
  BY <1>13 DEF BeginShutdown
<1>14. ASSUME NEW s \in Ids, AppStep(s) \/ BridgeStep(s)
       PROVE  DrainInv'
  <2>1. ASSUME NEW p \in Pids, NEW killed \in BOOLEAN, NEW rekilled \in BOOLEAN,
               \/ AppSpawnThrows(s) \/ StartSession(s, p)
               \/ BridgeStartFails(s, p, killed) \/ AppStartFails(s, p, killed, rekilled)
        PROVE  DrainInv'
    BY <2>1, <1>3 DEF AppSpawnThrows, StartSession, BridgeStartFails, AppStartFails, CanSpawn
  <2>2. CASE AppSpawnThrows(s)
    BY <2>2, <1>3 DEF AppSpawnThrows, CanSpawn
  <2> QED BY <1>1, <1>2, <1>5, <1>14, <2>1, <2>2 DEF AppStep, BridgeStep
<1>15. ASSUME NEW s \in Ids, GetFileSession(s)
       PROVE  DrainInv'
  BY <1>15, <1>3 DEF GetFileSession
<1> QED
  BY <1>4, <1>6, <1>7, <1>8, <1>9, <1>10, <1>11, <1>12, <1>13, <1>14, <1>15
     DEF Next, BackgroundStep, FileStep, ProcessStep, Sweep, ShutdownStep

\* The process does not exit before every file session there ever was, of
\* sessions in the map or gone long before, has been drained.
THEOREM AllDrained == Spec => []DrainedBeforeExit
<1>1. Init => DrainInv
  BY DEF Init, DrainInv
<1>2. IInv /\ DrainInv => DrainedBeforeExit
  BY DEF IInv, TypeOK, Session, FileState, DrainInv, DrainedBeforeExit
<1> QED BY <1>1, <1>2, DrainStep, Invariance, PTL DEF Spec

-----------------------------------------------------------------------------
(* What a step may do to one session object *)

\* The step leaves the handle, the flag and the map entry of s alone.
KeepsHandle(s) == /\ session'[s].pty = session[s].pty
                  /\ session'[s].closing = session[s].closing
                  /\ session'[s].life = session[s].life

\* It closes s: the handle goes with the map entry, or both stay.
ClosesSession(s) == /\ s \in Open
                    /\ session'[s].closing
                    /\ \/ session'[s].life = "closed" /\ session'[s].pty = NoPid
                       \/ session'[s].life = "open" /\ session'[s].pty = session[s].pty

\* Or s is fresh: it enters the map, or gets its first process.
IsFresh(s) == /\ session[s].life # "closed"
              /\ ~session[s].closing
              /\ session[s].pty = NoPid

OneOfThree(s) == KeepsHandle(s) \/ ClosesSession(s) \/ IsFresh(s)

LEMMA ClosingCases ==
    ASSUME IInv, NEW S \in SUBSET Open, NEW failed, CloseSessions(S, failed),
           NEW s \in Ids
    PROVE  OneOfThree(s)
<1>1. CASE s \notin S
  BY <1>1 DEF CloseSessions, OneOfThree, KeepsHandle
<1>2. CASE s \in S
  <2> DEFINE killed == s \notin failed
             c == CloseAttempt(session[s], killed)
  <2>1. session[s] \in Session /\ session[s].life = "open" /\ s \in Open
    BY <1>2 DEF IInv, TypeOK, Open
  <2>2. session'[s] = c
    BY <1>2 DEF CloseSessions
  <2>3. /\ c.closing
        /\ killed => c.life = "closed" /\ c.pty = NoPid
        /\ ~killed => c.life = "open" /\ c.pty = session[s].pty
    <3>1. killed \in BOOLEAN
      OBVIOUS
    <3> HIDE DEF killed
    <3> QED BY <2>1, <3>1, CloseAttemptFields
  <2> HIDE DEF c, killed
  <2> QED BY <2>1, <2>2, <2>3 DEF OneOfThree, ClosesSession
<1> QED BY <1>1, <1>2

LEMMA StepCases ==
    ASSUME IInv, [Next]_vars, NEW s \in Ids
    PROVE  OneOfThree(s)
<1>t. session \in [Ids -> Session] /\ session[s] \in Session /\ WellFormed(session[s])
  BY DEF IInv, TypeOK, SessionsWellFormed
<1>c. ASSUME NEW u \in Ids, CanSpawn(u),
             \A v \in Ids \ {u} : session'[v] = session[v]
      PROVE  OneOfThree(s)
  BY <1>c DEF CanSpawn, Usable, Open, OneOfThree, KeepsHandle, IsFresh
<1>1. ASSUME NEW u \in Ids, CreateSession(u)
      PROVE  OneOfThree(s)
  <2>1. CASE u = s
    BY <1>1, <1>t, <2>1
       DEF CreateSession, WellFormed, Unborn, OneOfThree, IsFresh
  <2>2. CASE u # s
    BY <1>1, <1>t, <2>2 DEF CreateSession, OneOfThree, KeepsHandle
  <2> QED BY <2>1, <2>2
<1>2. ASSUME NEW u \in Ids, Touch(u)
      PROVE  OneOfThree(s)
  BY <1>2, <1>t DEF Touch, Touched, Session, OneOfThree, KeepsHandle
<1>3. ASSUME NEW u \in Ids, NEW p \in Pids, StartSession(u, p)
      PROVE  OneOfThree(s)
  BY <1>3, <1>c, <1>t DEF StartSession
<1>4. ASSUME NEW u \in Ids, NEW p \in Pids, NEW killed \in BOOLEAN,
             BridgeStartFails(u, p, killed)
      PROVE  OneOfThree(s)
  BY <1>4, <1>c, <1>t DEF BridgeStartFails
<1>5. ASSUME NEW u \in Ids, AppSpawnThrows(u)
      PROVE  OneOfThree(s)
  <2>1. {u} \in SUBSET Open
    BY <1>5 DEF AppSpawnThrows, CanSpawn, Usable
  <2> QED BY <1>5, <2>1, ClosingCases DEF AppSpawnThrows
<1>6. ASSUME NEW u \in Ids, NEW p \in Pids, NEW killed \in BOOLEAN,
             NEW rekilled \in BOOLEAN, AppStartFails(u, p, killed, rekilled)
      PROVE  OneOfThree(s)
  BY <1>6, <1>c, <1>t DEF AppStartFails
<1>7. ASSUME NEW u \in Ids, GetFileSession(u)
      PROVE  OneOfThree(s)
  BY <1>7, <1>t DEF GetFileSession, Session, OneOfThree, KeepsHandle
<1>8. ASSUME NEW u \in Ids, FileDrained(u)
      PROVE  OneOfThree(s)
  BY <1>8, <1>t DEF FileDrained, Session, OneOfThree, KeepsHandle
<1>9. ASSUME NEW u \in Ids, NEW failed, CloseSession(u, failed)
      PROVE  OneOfThree(s)
  <2>1. {u} \in SUBSET Open
    BY <1>9 DEF CloseSession
  <2> QED BY <1>9, <2>1, ClosingCases DEF CloseSession
<1>10. ASSUME NEW failed, CleanupExpiredSessions(failed)
       PROVE  OneOfThree(s)
  <2>1. Expired \in SUBSET Open
    BY DEF Expired
  <2> QED BY <1>10, <2>1, ClosingCases DEF CleanupExpiredSessions
<1>11. ASSUME NEW p \in Pids, ProcessExits(p)
       PROVE  OneOfThree(s)
  BY <1>11 DEF ProcessExits, OneOfThree, KeepsHandle
<1>12. ASSUME NEW p \in Pids, ExitEvent(p)
       PROVE  OneOfThree(s)
  BY <1>12, <1>t DEF ExitEvent, Exited, Session, OneOfThree, KeepsHandle
<1>13. CASE BeginShutdown
  BY <1>13 DEF BeginShutdown, OneOfThree, KeepsHandle
<1>14. ASSUME NEW failed, CloseAll(failed)
       PROVE  OneOfThree(s)
  BY <1>14, ClosingCases DEF CloseAll
<1>15. CASE FinishShutdown
  BY <1>15 DEF FinishShutdown, OneOfThree, KeepsHandle
<1>16. CASE Tick
  BY <1>16, <1>t DEF Tick, Session, OneOfThree, KeepsHandle
<1>17. CASE UNCHANGED vars
  BY <1>17 DEF vars, OneOfThree, KeepsHandle
<1> QED
  BY <1>1, <1>2, <1>3, <1>4, <1>5, <1>6, <1>7, <1>8, <1>9, <1>10, <1>11, <1>12,
     <1>13, <1>14, <1>15, <1>16, <1>17
     DEF Next, BackgroundStep, AppStep, BridgeStep, FileStep, ProcessStep, Sweep,
         ShutdownStep

\* No call order makes a closing session usable, gives it another process, or
\* puts a removed session back in the map.
THEOREM ClosingFinal == Spec => ClosingIsFinal
<1>1. IInv /\ [Next]_vars =>
        [\A s \in Ids : session[s].closing =>
            /\ session'[s].closing
            /\ session'[s].pty \in {session[s].pty, NoPid}
            /\ session[s].life = "closed" => session'[s].life = "closed"]_vars
  BY StepCases DEF OneOfThree, KeepsHandle, ClosesSession, IsFresh, Open
<1> QED BY <1>1, Invariance, PTL DEF Spec, ClosingIsFinal

\* The handle of a session only goes from none to one process, and back to
\* none together with the session.
THEOREM OnePty == Spec => OnePtyPerSession
<1>1. IInv /\ [Next]_vars =>
        [\A s \in Ids : session[s].pty # NoPid =>
            \/ session'[s].pty = session[s].pty
            \/ session'[s].life = "closed"]_vars
  BY StepCases DEF OneOfThree, KeepsHandle, ClosesSession, IsFresh
<1> QED BY <1>1, Invariance, PTL DEF Spec, OnePtyPerSession

-----------------------------------------------------------------------------
(***************************************************************************)
(* That SessionManager implements SessionLifecycle, for every value of its *)
(* constants: what a client relies on needs neither ptys nor file sessions *)
(* nor clocks.  Retiring several sessions in one turn signals only their   *)
(* own processes because no two sessions ever share a handle.              *)
(***************************************************************************)

-----------------------------------------------------------------------------
(* The kinds of steps *)

\* Nothing a client is promised changes.
Quiet ==
    /\ \A s \in Ids : KeepsHandle(s)
    /\ \A p \in Pids : /\ proc'[p] = "running" <=> proc[p] = "running"
                       /\ proc'[p] = "unused" <=> proc[p] = "unused"

ProcessEnds(p) ==
    /\ proc[p] # "unused"
    /\ proc' = [proc EXCEPT ![p] = "exited"]
    /\ session' = session

\* p is spawned for s: it runs with s as its owner, or it is killed at once.
Spawns(s, p, r, st) ==
    /\ CanSpawn(s) /\ proc[p] = "unused"
    /\ session' = [session EXCEPT ![s] = r]
    /\ proc' = [proc EXCEPT ![p] = st]
    /\ \/ st = "running" /\ r.life = "open" /\ r.pty = p
       \/ st = "signalled" /\ r.life = "open" /\ r.pty = NoPid /\ ~r.closing
       \/ st = "signalled" /\ r.life = "closed" /\ r.pty = NoPid

StepKind ==
    \/ Quiet
    \/ \E p \in Pids : ProcessEnds(p)
    \/ \E s \in Ids : CreateSession(s)
    \/ \E s \in Ids, p \in Pids : \E r \in Session, st \in ProcState : Spawns(s, p, r, st)
    \/ \E S \in SUBSET Open : \E failed \in SUBSET S : CloseSessions(S, failed)

LEMMA StepKinds == ASSUME IInv, [Next]_vars PROVE StepKind
<1>t. /\ session \in [Ids -> Session] /\ proc \in [Pids -> ProcState]
      /\ \A s \in Ids : session[s] \in Session
  BY DEF IInv, TypeOK
<1>c. ASSUME NEW S \in SUBSET Open, NEW failed, CloseSessions(S, failed)
      PROVE  StepKind
  <2>1. failed \in SUBSET S
    BY <1>c DEF CloseSessions
  <2> QED BY <1>c, <2>1, Zenon DEF StepKind
<1>q. ASSUME proc' = proc, \A s \in Ids : KeepsHandle(s)
      PROVE  StepKind
  BY <1>q DEF StepKind, Quiet
<1>1. ASSUME NEW s \in Ids, CreateSession(s)
      PROVE  StepKind
  BY <1>1, Zenon DEF StepKind
<1>2. ASSUME NEW s \in Ids, Touch(s)
      PROVE  StepKind
  <2>1. \A u \in Ids : KeepsHandle(u)
    BY <1>2, <1>t DEF Touch, Touched, Session, KeepsHandle
  <2> QED BY <1>2, <2>1, <1>q DEF Touch
<1>3. ASSUME NEW s \in Ids, NEW p \in Pids, StartSession(s, p)
      PROVE  StepKind
  <2> DEFINE r == Started(session[s], p)
  <2>1. r \in Session
    BY <1>t, StartedType
  <2>2. r.life = "open" /\ r.pty = p
    BY <1>3, <1>t DEF StartSession, CanSpawn, Usable, Open, Started, Touched, Session
  <2>3. Spawns(s, p, r, "running")
    <3> HIDE DEF r
    <3>1. /\ CanSpawn(s) /\ proc[p] = "unused"
          /\ session' = [session EXCEPT ![s] = r]
          /\ proc' = [proc EXCEPT ![p] = "running"]
      BY <1>3 DEF StartSession, r
    <3> QED BY <2>2, <3>1 DEF Spawns
  <2>4. "running" \in ProcState
    BY DEF ProcState
  <2> HIDE DEF r
  <2> QED BY <2>1, <2>3, <2>4, Zenon DEF StepKind
<1>4. ASSUME NEW s \in Ids, NEW p \in Pids, NEW killed \in BOOLEAN,
             BridgeStartFails(s, p, killed)
      PROVE  StepKind
  <2> DEFINE r == FailedStart(Touched(session[s]), p, killed)
             st == IF killed THEN "signalled" ELSE "running"
  <2>1. r \in Session
    BY <1>t, TouchedType, FailedStartType
  <2>2. session[s].life = "open" /\ ~session[s].closing /\ session[s].pty = NoPid
    BY <1>4 DEF BridgeStartFails, CanSpawn, Usable, Open
  <2>3. /\ r.life = "open"
        /\ killed => r.pty = NoPid /\ ~r.closing
        /\ ~killed => r.pty = p
    BY <1>t, <2>2 DEF FailedStart, Touched, Session
  <2>4. Spawns(s, p, r, st)
    <3>1. /\ CanSpawn(s) /\ proc[p] = "unused"
          /\ session' = [session EXCEPT ![s] = r]
          /\ proc' = [proc EXCEPT ![p] = st]
      BY <1>4 DEF BridgeStartFails
    <3> HIDE DEF r
    <3> QED BY <2>3, <3>1 DEF Spawns
  <2>5. st \in ProcState
    BY DEF ProcState
  <2> HIDE DEF r, st
  <2> QED BY <2>1, <2>4, <2>5, Zenon DEF StepKind
<1>5. ASSUME NEW s \in Ids, AppSpawnThrows(s)
      PROVE  StepKind
  <2>1. {s} \in SUBSET Open /\ CloseSessions({s}, {})
    BY <1>5 DEF AppSpawnThrows, CanSpawn, Usable
  <2> QED BY <2>1, <1>c
<1>6. ASSUME NEW s \in Ids, NEW p \in Pids, NEW killed \in BOOLEAN,
             NEW rekilled \in BOOLEAN, AppStartFails(s, p, killed, rekilled)
      PROVE  StepKind
  <2> DEFINE f == FailedStart(Touched(session[s]), p, killed)
             r == CloseAttempt(f, rekilled)
             st == IF rekilled THEN "signalled" ELSE "running"
  <2>1. f \in Session
    BY <1>t, TouchedType, FailedStartType
  <2>2. session[s].life = "open"
    BY <1>6 DEF AppStartFails, CanSpawn, Usable, Open
  <2>3. f.life = "open" /\ (~killed => f.pty = p)
    BY <1>t, <2>2 DEF FailedStart, Touched, Session
  <2>4. /\ CanSpawn(s) /\ proc[p] = "unused" /\ (killed => rekilled)
        /\ session' = [session EXCEPT ![s] = r]
        /\ proc' = [proc EXCEPT ![p] = st]
    BY <1>6 DEF AppStartFails
  <2>5. /\ r \in Session
        /\ rekilled => r.life = "closed" /\ r.pty = NoPid
        /\ ~rekilled => r.life = f.life /\ r.pty = f.pty
    <3> HIDE DEF f
    <3> QED BY <2>1, CloseAttemptType, CloseAttemptFields
  <2>6. Spawns(s, p, r, st)
    <3> HIDE DEF r, f
    <3> QED BY <2>3, <2>4, <2>5 DEF Spawns
  <2>7. st \in ProcState
    BY DEF ProcState
  <2> HIDE DEF r, st
  <2> QED BY <2>5, <2>6, <2>7, Zenon DEF StepKind
<1>7. ASSUME NEW s \in Ids, GetFileSession(s)
      PROVE  StepKind
  <2>1. \A u \in Ids : KeepsHandle(u)
    BY <1>7, <1>t DEF GetFileSession, Session, KeepsHandle
  <2> QED BY <1>7, <2>1, <1>q DEF GetFileSession
<1>8. ASSUME NEW s \in Ids, FileDrained(s)
      PROVE  StepKind
  <2>1. \A u \in Ids : KeepsHandle(u)
    BY <1>8, <1>t DEF FileDrained, Session, KeepsHandle
  <2> QED BY <1>8, <2>1, <1>q DEF FileDrained
<1>9. ASSUME NEW s \in Ids, NEW failed, CloseSession(s, failed)
      PROVE  StepKind
  <2>1. {s} \in SUBSET Open /\ CloseSessions({s}, failed)
    BY <1>9 DEF CloseSession
  <2> QED BY <2>1, <1>c
<1>10. ASSUME NEW failed, CleanupExpiredSessions(failed)
       PROVE  StepKind
  <2>1. Expired \in SUBSET Open /\ CloseSessions(Expired, failed)
    BY <1>10 DEF CleanupExpiredSessions, Expired
  <2> QED BY <2>1, <1>c
<1>11. ASSUME NEW p \in Pids, ProcessExits(p)
       PROVE  StepKind
  <2>1. ProcessEnds(p)
    BY <1>11 DEF ProcessExits, ProcessEnds
  <2> QED BY <2>1, Zenon DEF StepKind
<1>12. ASSUME NEW p \in Pids, ExitEvent(p)
       PROVE  StepKind
  <2>1. \A u \in Ids : KeepsHandle(u)
    BY <1>12, <1>t DEF ExitEvent, Exited, Session, KeepsHandle
  <2>2. \A q \in Pids : /\ proc'[q] = "running" <=> proc[q] = "running"
                        /\ proc'[q] = "unused" <=> proc[q] = "unused"
    BY <1>12, <1>t DEF ExitEvent
  <2> QED BY <2>1, <2>2, Zenon DEF StepKind, Quiet
<1>13. CASE BeginShutdown
  BY <1>13, <1>q DEF BeginShutdown, KeepsHandle
<1>14. ASSUME NEW failed, CloseAll(failed)
       PROVE  StepKind
  BY <1>14, <1>c DEF CloseAll
<1>15. CASE FinishShutdown
  BY <1>15, <1>q DEF FinishShutdown, KeepsHandle
<1>16. CASE Tick
  <2>1. \A u \in Ids : KeepsHandle(u)
    BY <1>16, <1>t DEF Tick, Session, KeepsHandle
  <2> QED BY <1>16, <2>1, <1>q DEF Tick
<1>17. CASE UNCHANGED vars
  BY <1>17, <1>q DEF vars, KeepsHandle
<1> QED
  BY <1>1, <1>2, <1>3, <1>4, <1>5, <1>6, <1>7, <1>8, <1>9, <1>10, <1>11, <1>12,
     <1>13, <1>14, <1>15, <1>16, <1>17
     DEF Next, BackgroundStep, AppStep, BridgeStep, FileStep, ProcessStep, Sweep,
         ShutdownStep

-----------------------------------------------------------------------------
(* Handles are not shared *)

\* A handle is a process that was spawned, and no other session's handle.
HandlesInv ==
    /\ \A s \in Ids : session[s].pty # NoPid => proc[session[s].pty] # "unused"
    /\ \A s, t \in Ids : s # t /\ session[s].pty = session[t].pty => session[s].pty = NoPid

LEMMA HandlesInit == Init => HandlesInv
BY DEF Init, HandlesInv, Unborn

LEMMA CloseSessionsFields ==
    ASSUME IInv, NEW S \in SUBSET Open, NEW failed \in SUBSET S, CloseSessions(S, failed)
    PROVE  /\ \A s \in Ids \ S : session'[s] = session[s]
           /\ \A s \in S \ failed : session'[s].life = "closed" /\ session'[s].pty = NoPid
           /\ \A s \in failed : /\ session'[s].life = "open" /\ session'[s].closing
                                /\ session'[s].pty = session[s].pty
<1>1. ASSUME NEW s \in Ids \ S PROVE session'[s] = session[s]
  BY <1>1 DEF CloseSessions
<1>2. ASSUME NEW s \in S
      PROVE  /\ s \notin failed => session'[s].life = "closed" /\ session'[s].pty = NoPid
             /\ s \in failed => /\ session'[s].life = "open" /\ session'[s].closing
                               /\ session'[s].pty = session[s].pty
  <2> DEFINE killed == s \notin failed
             c == CloseAttempt(session[s], killed)
  <2>1. session[s] \in Session /\ session[s].life = "open"
    BY DEF IInv, TypeOK, Open
  <2>2. session'[s] = c
    BY DEF CloseSessions, Open
  <2>3. killed \in BOOLEAN
    OBVIOUS
  <2>4. /\ c.closing
        /\ killed => c.life = "closed" /\ c.pty = NoPid
        /\ ~killed => c.life = "open" /\ c.pty = session[s].pty
    <3> HIDE DEF killed
    <3> QED BY <2>1, <2>3, CloseAttemptFields
  <2> HIDE DEF c
  <2> QED BY <2>2, <2>4
<1> QED BY <1>1, <1>2

LEMMA HandlesStep == IInv /\ HandlesInv /\ [Next]_vars => HandlesInv'
<1> SUFFICES ASSUME IInv, HandlesInv, [Next]_vars PROVE HandlesInv'
  OBVIOUS
<1>t. /\ session \in [Ids -> Session] /\ proc \in [Pids -> ProcState]
      /\ \A s \in Ids : session[s].pty \in Pids \union {NoPid}
  BY DEF IInv, TypeOK, Session
<1> USE DEF HandlesInv
<1>1. CASE Quiet
  BY <1>1, <1>t DEF Quiet, KeepsHandle
<1>2. ASSUME NEW p \in Pids, ProcessEnds(p)
      PROVE  HandlesInv'
  BY <1>2, <1>t DEF ProcessEnds
<1>3. ASSUME NEW s \in Ids, CreateSession(s)
      PROVE  HandlesInv'
  <2>1. session'[s].pty = NoPid /\ \A t \in Ids \ {s} : session'[t] = session[t]
    BY <1>3, <1>t DEF CreateSession, Created, Unborn
  <2> QED BY <1>3, <2>1 DEF CreateSession
<1>4. ASSUME NEW s \in Ids, NEW p \in Pids, NEW r \in Session, NEW st \in ProcState,
             Spawns(s, p, r, st)
      PROVE  HandlesInv'
  <2>1. session'[s] = r /\ \A t \in Ids \ {s} : session'[t] = session[t]
    BY <1>4, <1>t DEF Spawns
  <2>2. proc'[p] = st /\ st # "unused" /\ \A q \in Pids \ {p} : proc'[q] = proc[q]
    BY <1>4, <1>t DEF Spawns
  <2>3. r.pty \in {p, NoPid} /\ proc[p] = "unused"
    BY <1>4 DEF Spawns
  <2> QED BY <1>t, <2>1, <2>2, <2>3
<1>5. ASSUME NEW S \in SUBSET Open, NEW failed \in SUBSET S, CloseSessions(S, failed)
      PROVE  HandlesInv'
  <2>1. \A s \in Ids : session'[s].pty \in {session[s].pty, NoPid}
    BY <1>5, CloseSessionsFields
  <2>2. \A p \in Pids : proc'[p] = "unused" => proc[p] = "unused"
    BY <1>5 DEF CloseSessions, Signal
  <2> QED BY <1>t, <2>1, <2>2
<1> QED BY <1>1, <1>2, <1>3, <1>4, <1>5, StepKinds, Zenon DEF StepKind

-----------------------------------------------------------------------------
(* The refinement *)

\* The abstract stage of a session, case by case.
StagesRead ==
    \A s \in Ids :
        /\ session[s].life = "unborn" => StageOf(s) = "absent"
        /\ session[s].life = "closed" => StageOf(s) = "gone"
        /\ session[s].life = "open" =>
              StageOf(s) = IF session[s].closing THEN "terminating"
                           ELSE IF session[s].pty = NoPid THEN "ready" ELSE "live"

LEMMA StagesReadHolds == StagesRead
BY DEF StagesRead, StageOf, Usable, Open

LEMMA HeldIsOpen == TypeOK => Lifecycle!Held = Open
BY StagesReadHolds DEF StagesRead, Lifecycle!Held, Open, TypeOK, Session

LEMMA RefinementInit == Init => Lifecycle!Init
<1> SUFFICES ASSUME Init PROVE Lifecycle!Init
  OBVIOUS
<1>1. \A s \in Ids : StageOf(s) = "absent"
  BY StagesReadHolds DEF StagesRead, Init, Unborn
<1>2. {s \in Ids : HasShell(s)} = {}
  BY NoPidAssumption DEF NoPidAssumption, Init, HasShell, Unborn
<1> QED BY <1>1, <1>2 DEF Lifecycle!Init

LEMMA RefinementStep ==
    IInv /\ HandlesInv /\ [Next]_vars => [Lifecycle!Next]_(Lifecycle!vars)
<1> SUFFICES ASSUME IInv, HandlesInv, [Next]_vars PROVE [Lifecycle!Next]_(Lifecycle!vars)
  OBVIOUS
<1> DEFINE stage == [s \in Ids |-> StageOf(s)]
           shells == {s \in Ids : HasShell(s)}
<1>t. /\ TypeOK /\ session \in [Ids -> Session] /\ proc \in [Pids -> ProcState]
      /\ \A s \in Ids : session[s].pty \in Pids \union {NoPid}
      /\ \A s \in Ids : session[s].life \in {"unborn", "open", "closed"}
  BY DEF IInv, TypeOK, Session
<1>r. StagesRead /\ StagesRead'
  BY StagesReadHolds, PTL
<1>1. CASE Quiet
  <2>1. \A s \in Ids : StageOf(s)' = StageOf(s) /\ HasShell(s)' = HasShell(s)
    BY <1>1, <1>t DEF Quiet, KeepsHandle, StageOf, Usable, Open, HasShell
  <2> QED BY <2>1 DEF Lifecycle!vars
<1>2. ASSUME NEW p \in Pids, ProcessEnds(p)
      PROVE  [Lifecycle!Next]_(Lifecycle!vars)
  <2>1. stage' = stage
    BY <1>2 DEF ProcessEnds, StageOf, Usable, Open
  <2>2. proc'[p] = "exited" /\ \A q \in Pids \ {p} : proc'[q] = proc[q]
    BY <1>2, <1>t DEF ProcessEnds
  <2>3. CASE proc[p] = "running"
    <3>1. PICK s \in Open : session[s].pty = p
      BY <2>3 DEF IInv, NoOrphanProcess
    <3>2. s \in Ids /\ s \in shells /\ \A t \in Ids \ {s} : session[t].pty # p
      BY <2>3, <3>1, NoPidAssumption DEF NoPidAssumption, HandlesInv, HasShell, Open
    <3>3. shells' = shells \ {s}
      BY <1>2, <2>2, <3>1, <3>2 DEF ProcessEnds, HasShell
    <3>4. Lifecycle!ShellEnds(s)
      BY <2>1, <3>2, <3>3 DEF Lifecycle!ShellEnds
    <3> QED BY <3>2, <3>4 DEF Lifecycle!Next
  <2>4. CASE proc[p] # "running"
    <3>1. shells' = shells
      BY <1>2, <2>2, <2>4 DEF ProcessEnds, HasShell
    <3> QED BY <2>1, <3>1 DEF Lifecycle!vars
  <2> QED BY <2>3, <2>4
<1>3. ASSUME NEW s \in Ids, CreateSession(s)
      PROVE  [Lifecycle!Next]_(Lifecycle!vars)
  <2>1. /\ session[s].life = "unborn" /\ session[s].pty = NoPid
        /\ session'[s] = Created /\ \A t \in Ids \ {s} : session'[t] = session[t]
        /\ proc' = proc
    BY <1>3, <1>t DEF CreateSession, IInv, SessionsWellFormed, WellFormed, Unborn
  <2>2. Created.life = "open" /\ ~Created.closing /\ Created.pty = NoPid
    BY DEF Created, Unborn
  <2>3. stage' = [stage EXCEPT ![s] = "ready"]
    <3>1. StageOf(s)' = "ready"
      BY <1>r, <2>1, <2>2 DEF StagesRead
    <3>2. \A t \in Ids \ {s} : StageOf(t)' = StageOf(t)
      BY <2>1 DEF StageOf, Usable, Open
    <3> QED BY <3>1, <3>2
  <2>4. shells' = shells
    BY <2>1, <2>2, NoPidAssumption DEF NoPidAssumption, HasShell
  <2>5. stage[s] = "absent"
    BY <1>r, <2>1 DEF StagesRead
  <2>6. Lifecycle!Cardinality(Lifecycle!Held) < MaxSessions
    <3>1. Cardinality(Open) < MaxSessions
      BY <1>3 DEF CreateSession, HasCapacity
    <3>2. Lifecycle!Cardinality(Open) = Cardinality(Open)
      BY DEF Lifecycle!Cardinality, Cardinality
    <3> QED BY <1>t, <3>1, <3>2, HeldIsOpen
  <2>7. Lifecycle!OpenSession(s)
    BY <2>3, <2>4, <2>5, <2>6 DEF Lifecycle!OpenSession
  <2> QED BY <2>7 DEF Lifecycle!Next
<1>4. ASSUME NEW s \in Ids, NEW p \in Pids, NEW r \in Session, NEW st \in ProcState,
             Spawns(s, p, r, st)
      PROVE  [Lifecycle!Next]_(Lifecycle!vars)
  <2>1. session'[s] = r /\ \A t \in Ids \ {s} : session'[t] = session[t]
    BY <1>4, <1>t DEF Spawns
  <2>2. proc'[p] = st /\ \A q \in Pids \ {p} : proc'[q] = proc[q]
    BY <1>4, <1>t DEF Spawns
  <2>3. /\ session[s].life = "open" /\ ~session[s].closing /\ session[s].pty = NoPid
        /\ \A t \in Ids : session[t].pty # p
    BY <1>4, NoPidAssumption
       DEF NoPidAssumption, Spawns, CanSpawn, Usable, Open, HandlesInv
  <2>4. stage[s] = "ready" /\ \A t \in Ids \ {s} : StageOf(t)' = StageOf(t)
    BY <1>r, <2>1, <2>3 DEF StagesRead, StageOf, Usable, Open
  <2>5. s \notin shells /\ \A t \in Ids \ {s} : HasShell(t)' = HasShell(t)
    BY <2>1, <2>2, <2>3, NoPidAssumption DEF NoPidAssumption, HasShell
  <2>6. CASE st = "running" /\ r.life = "open" /\ r.pty = p
    <3> DEFINE to == IF r.closing THEN "terminating" ELSE "live"
    <3>1. StageOf(s)' = to
      BY <1>r, <2>1, <2>6, NoPidAssumption DEF NoPidAssumption, StagesRead
    <3>2. stage' = [stage EXCEPT ![s] = to]
      BY <2>4, <3>1
    <3>3. HasShell(s)'
      BY <2>1, <2>2, <2>6 DEF HasShell
    <3>4. shells' = shells \union {s}
      BY <2>5, <3>3
    <3>5. to \in {"live", "terminating"} /\ to \in Lifecycle!Stages
      BY DEF Lifecycle!Stages
    <3> HIDE DEF to
    <3>6. Lifecycle!StartShell(s, to)
      BY <2>4, <3>2, <3>4, <3>5 DEF Lifecycle!StartShell
    <3> QED BY <3>5, <3>6 DEF Lifecycle!Next
  <2>7. CASE st = "signalled" /\ r.life = "open" /\ r.pty = NoPid /\ ~r.closing
    <3>1. StageOf(s)' = "ready"
      BY <1>r, <2>1, <2>7 DEF StagesRead
    <3>2. ~HasShell(s)'
      BY <2>1, <2>7, NoPidAssumption DEF NoPidAssumption, HasShell
    <3>3. stage' = stage /\ shells' = shells
      BY <2>4, <2>5, <3>1, <3>2
    <3> QED BY <3>3 DEF Lifecycle!vars
  <2>8. CASE st = "signalled" /\ r.life = "closed" /\ r.pty = NoPid
    <3>1. StageOf(s)' = "gone"
      BY <1>r, <2>1, <2>8 DEF StagesRead
    <3>2. ~HasShell(s)'
      BY <2>1, <2>8, NoPidAssumption DEF NoPidAssumption, HasShell
    <3>3. stage' = [t \in Ids |-> IF t \in {} THEN "terminating"
                                 ELSE IF t \in {s} THEN "gone" ELSE stage[t]]
      BY <2>4, <3>1
    <3>4. shells' = shells \ ({s} \ {})
      BY <2>5, <3>2
    <3>5. {s} \subseteq Lifecycle!Held
      BY <2>4 DEF Lifecycle!Held
    <3>6. Lifecycle!Retire({s}, {})
      BY <3>3, <3>4, <3>5 DEF Lifecycle!Retire
    <3> QED BY <3>6 DEF Lifecycle!Next
  <2> QED BY <1>4, <2>6, <2>7, <2>8 DEF Spawns
<1>5. ASSUME NEW S \in SUBSET Open, NEW failed \in SUBSET S, CloseSessions(S, failed)
      PROVE  [Lifecycle!Next]_(Lifecycle!vars)
  <2>1. /\ \A s \in Ids \ S : session'[s] = session[s]
        /\ \A s \in S \ failed : session'[s].life = "closed" /\ session'[s].pty = NoPid
        /\ \A s \in failed : /\ session'[s].life = "open" /\ session'[s].closing
                             /\ session'[s].pty = session[s].pty
    BY <1>5, CloseSessionsFields
  <2>2. S \in SUBSET Ids /\ \A s \in failed : session[s].pty \in Pids
    BY <1>5, <1>t DEF CloseSessions, Open
  <2>3. S \subseteq Lifecycle!Held
    BY <1>t, HeldIsOpen
  <2>4. failed \subseteq {s \in S : stage[s] # "ready"}
    BY <1>r, <2>2, NoPidAssumption DEF NoPidAssumption, StagesRead, Open
  <2>5. stage' = [s \in Ids |-> IF s \in failed THEN "terminating"
                               ELSE IF s \in S THEN "gone" ELSE stage[s]]
    <3>1. \A s \in failed : StageOf(s)' = "terminating"
      BY <1>r, <2>1, <2>2 DEF StagesRead
    <3>2. \A s \in S \ failed : StageOf(s)' = "gone"
      BY <1>r, <2>1, <2>2 DEF StagesRead
    <3>3. \A s \in Ids \ S : StageOf(s)' = StageOf(s)
      BY <2>1 DEF StageOf, Usable, Open
    <3> QED BY <2>2, <3>1, <3>2, <3>3
  <2>6. shells' = shells \ (S \ failed)
    <3>1. \A s \in S \ failed : ~HasShell(s)'
      BY <2>1, NoPidAssumption DEF NoPidAssumption, HasShell
    <3>2. ASSUME NEW s \in Ids, s \notin S \ failed
          PROVE  HasShell(s)' <=> HasShell(s)
      <4>1. session'[s].pty = session[s].pty
        BY <2>1, <3>2
      <4>2. CASE session[s].pty \notin Pids
        BY <4>1, <4>2 DEF HasShell
      <4>3. CASE session[s].pty \in Pids
        <5>1. session[s].pty \notin {session[t].pty : t \in S \ failed}
          BY <2>2, <3>2, <4>3, NoPidAssumption DEF NoPidAssumption, HandlesInv
        <5>2. proc'[session[s].pty] = proc[session[s].pty]
          BY <1>5, <4>3, <5>1 DEF CloseSessions, Signal
        <5> QED BY <4>1, <5>2 DEF HasShell
      <4> QED BY <4>2, <4>3
    <3> QED BY <2>2, <3>1, <3>2
  <2>7. Lifecycle!Retire(S, failed)
    BY <2>3, <2>4, <2>5, <2>6 DEF Lifecycle!Retire
  <2> QED BY <2>2, <2>7 DEF Lifecycle!Next
<1> QED BY <1>1, <1>2, <1>3, <1>4, <1>5, StepKinds, Zenon DEF StepKind

\* The manager implements SessionLifecycle: every turn of the event loop is one
\* step of the lifecycle a client may rely on, or none.
THEOREM Implements == Spec => ImplementsLifecycle
<1>1. Spec => []HandlesInv
  BY HandlesInit, HandlesStep, Invariance, PTL DEF Spec
<1> QED
  BY <1>1, Invariance, RefinementInit, RefinementStep, PTL
     DEF Spec, ImplementsLifecycle, Lifecycle!Spec

-----------------------------------------------------------------------------
(* The bridge on top of the manager *)

LEMMA ManagerStep == [BridgeNext]_allVars => [Next]_vars
<1> SUFFICES ASSUME [BridgeNext]_allVars PROVE [Next]_vars
  OBVIOUS
<1>1. CASE ManagerTurn
  BY <1>1 DEF ManagerTurn, Next
<1>2. ASSUME NEW k \in Socks, SocketStep(k)
      PROVE  [Next]_vars
  <2>1. CASE UNCHANGED vars
    BY <2>1
  <2>2. CASE AuthStartRefused(k) \/ Authenticated(k)
    <3> DEFINE s == sock[k].url
    <3>1. s \in Ids
      BY <2>2 DEF AuthStartRefused, Authenticated, Usable, Open, StartSession, CanSpawn
    <3>2. BridgeStep(s)
      BY <2>2, Zenon DEF AuthStartRefused, Authenticated, BridgeStep
    <3> QED BY <3>1, <3>2, Zenon DEF Next
  <2>3. CASE PtyWrite(k) \/ CloseBySocket(k) \/ OtherMessage(k)
    <3> DEFINE s == sock[k].bound
    <3>1. \/ UNCHANGED vars
          \/ Touch(s)
          \/ \E failed \in SUBSET {s} : CloseSession(s, failed)
      BY <2>3, Zenon DEF PtyWrite, CloseBySocket, OtherMessage, RecordActivity
    <3>2. Touch(s) \/ (\E failed \in SUBSET {s} : CloseSession(s, failed)) =>
            BridgeStep(s) /\ s \in Ids
      BY DEF BridgeStep, Touch, CloseSession, Open
    <3> QED BY <3>1, <3>2, Zenon DEF Next
  <2> QED
    BY <1>2, <2>1, <2>2, <2>3, Zenon
       DEF SocketStep, Upgrade, AuthTimeout, BadMessage, UnauthenticatedMessage, AuthRejected,
           Backpressure, SocketClosed
<1>3. CASE UNCHANGED allVars
  BY <1>3 DEF allVars, vars
<1> QED BY <1>1, <1>2, <1>3 DEF BridgeNext

\* Whatever sockets do, the manager below the bridge behaves as specified.
THEOREM BridgeUsesManager == BridgeSpec => Spec
<1>1. BridgeInit => Init
  BY DEF BridgeInit
<1> QED BY <1>1, ManagerStep, PTL DEF BridgeSpec, Spec

-----------------------------------------------------------------------------
(* The operations on one socket *)

LEMMA ClosingFields ==
    ASSUME NEW r \in Socket
    PROVE  /\ Closing(r) \in Socket
           /\ Closing(r).state # "open"
           /\ Closing(r).state = "unused" => r.state = "unused"
           /\ Closing(r).authPending = r.authPending
           /\ Closing(r).bound = r.bound
           /\ Closing(r).forwards = r.forwards
BY DEF Closing, Socket

LEMMA SettledFields ==
    ASSUME NEW r \in Socket
    PROVE  /\ Settled(r) \in Socket
           /\ ~Settled(r).authPending
           /\ Settled(r).state = r.state
           /\ Settled(r).bound = r.bound
           /\ Settled(r).forwards = r.forwards
BY DEF Settled, Socket

LEMMA DisposedFields ==
    ASSUME NEW r \in Socket
    PROVE  /\ Disposed(r) \in Socket
           /\ ~Disposed(r).forwards
           /\ Disposed(r).state = r.state
           /\ Disposed(r).authPending = r.authPending
           /\ Disposed(r).bound = r.bound
BY DEF Disposed, Socket

-----------------------------------------------------------------------------
(* The inductive invariant *)

Pending == {k \in Socks : sock[k].authPending}

BridgeTypeOK ==
    /\ sock \in [Socks -> Socket]
    /\ conn \in [Ids -> Socks \union {NoSock}]
    /\ pendingAuth \in Nat

\* What Upgrade relies on.
UnusedAreFresh ==
    \A k \in Socks : sock[k].state = "unused" =>
        sock[k].bound = NoId /\ ~sock[k].authPending

BridgeInv ==
    /\ BridgeTypeOK
    /\ UnusedAreFresh
    /\ pendingAuth = Cardinality(Pending)
    /\ OneActiveView

LEMMA BridgeInitially == BridgeInit => BridgeInv
<1> SUFFICES ASSUME BridgeInit PROVE BridgeInv
  OBVIOUS
<1>1. UnusedSocket \in Socket /\ UnusedSocket.bound = NoId /\ ~UnusedSocket.authPending
  BY DEF UnusedSocket, Socket
<1>2. BridgeTypeOK /\ UnusedAreFresh /\ OneActiveView
  BY <1>1 DEF BridgeInit, BridgeTypeOK, UnusedAreFresh, OneActiveView
<1>3. Pending = {}
  BY <1>1 DEF BridgeInit, Pending
<1> QED BY <1>2, <1>3, FS_EmptySet DEF BridgeInit, BridgeInv

LEMMA PendingIsFinite == IsFiniteSet(Pending) /\ Cardinality(Pending) \in Nat
BY BridgeAssumption, FS_Subset, FS_CardinalityType DEF BridgeAssumption, Pending

\* settleAuth counts exactly the socket that settles, however often it runs.
LEMMA SettledCountExact ==
    ASSUME BridgeInv, NEW k \in Socks
    PROVE  SettledCount(k) \in Nat /\ SettledCount(k) = Cardinality(Pending \ {k})
<1>1. Cardinality(Pending \ {k}) =
        IF k \in Pending THEN Cardinality(Pending) - 1 ELSE Cardinality(Pending)
  BY PendingIsFinite, FS_RemoveElement
<1>2. Cardinality(Pending \ {k}) \in Nat
  BY PendingIsFinite, FS_RemoveElement, FS_CardinalityType
<1>3. k \in Pending <=> sock[k].authPending
  BY DEF Pending
<1> QED BY <1>1, <1>2, <1>3, PendingIsFinite DEF BridgeInv, SettledCount

\* What every step has to show of the sockets it changes.
LEMMA BridgeInvFrom ==
    ASSUME BridgeTypeOK', UnusedAreFresh', OneActiveView', NEW S,
           Pending' = S, pendingAuth' = Cardinality(S)
    PROVE  BridgeInv'
BY DEF BridgeInv

\* Steps that touch neither sockets nor the map of the bridge.
LEMMA QuietKeeps ==
    ASSUME BridgeInv, UNCHANGED <<sock, conn, pendingAuth>>
    PROVE  BridgeInv'
BY DEF BridgeInv, BridgeTypeOK, UnusedAreFresh, Pending, OneActiveView, IsCurrent

LEMMA UpgradeKeeps ==
    ASSUME BridgeInv, NEW k \in Socks, NEW s \in Ids, Upgrade(k, s)
    PROVE  BridgeInv'
<1>1. sock[k] \in Socket /\ sock[k].bound = NoId /\ ~sock[k].authPending
  BY DEF BridgeInv, BridgeTypeOK, UnusedAreFresh, Upgrade
<1> DEFINE r == [sock[k] EXCEPT !.state = "open", !.url = s, !.authPending = TRUE]
<1>2. /\ r \in Socket /\ r.state = "open" /\ r.bound = NoId /\ r.authPending
  BY <1>1 DEF Socket
<1>3. /\ sock' = [sock EXCEPT ![k] = r]
      /\ pendingAuth' = pendingAuth + 1 /\ conn' = conn
  BY DEF Upgrade
<1> HIDE DEF r
<1>4. BridgeTypeOK' /\ UnusedAreFresh'
  BY <1>2, <1>3 DEF BridgeInv, BridgeTypeOK, UnusedAreFresh
<1>5. OneActiveView'
  BY <1>2, <1>3 DEF BridgeInv, BridgeTypeOK, OneActiveView, IsCurrent
<1>6. Pending' = Pending \union {k} /\ k \notin Pending
  BY <1>1, <1>2, <1>3 DEF BridgeInv, BridgeTypeOK, Pending
<1>7. Cardinality(Pending \union {k}) = Cardinality(Pending) + 1
  BY <1>6, PendingIsFinite, FS_AddElement
<1> QED BY <1>3, <1>4, <1>5, <1>6, <1>7, BridgeInvFrom DEF BridgeInv

LEMMA RejectKeeps ==
    ASSUME BridgeInv, NEW k \in Socks, Reject(k)
    PROVE  BridgeInv'
<1> DEFINE r == Closing(Settled(sock[k]))
<1>1. /\ r \in Socket /\ r.state # "open" /\ ~r.authPending
      /\ r.bound = sock[k].bound /\ r.forwards = sock[k].forwards
      /\ r.state = "unused" => sock[k].state = "unused"
  BY SettledFields, ClosingFields DEF BridgeInv, BridgeTypeOK
<1>2. sock' = [sock EXCEPT ![k] = r] /\ conn' = conn /\ pendingAuth' = SettledCount(k)
  BY DEF Reject
<1> HIDE DEF r
<1>3. BridgeTypeOK' /\ UnusedAreFresh'
  BY <1>1, <1>2, SettledCountExact DEF BridgeInv, BridgeTypeOK, UnusedAreFresh
<1>4. OneActiveView'
  BY <1>1, <1>2 DEF BridgeInv, BridgeTypeOK, OneActiveView, IsCurrent
<1>5. Pending' = Pending \ {k}
  BY <1>1, <1>2 DEF BridgeInv, BridgeTypeOK, Pending
<1> QED BY <1>2, <1>3, <1>4, <1>5, SettledCountExact, BridgeInvFrom

\* Every other socket of the session was no longer current, or is told to
\* close in the same turn.
LEMMA TakeOverKeeps ==
    ASSUME BridgeInv, NEW k \in Socks, NEW s \in Ids, Authenticates(k), TakeOver(k, s)
    PROVE  BridgeInv'
<1> DEFINE r == [Settled(sock[k]) EXCEPT !.bound = s, !.forwards = TRUE]
           q(j) == IF conn[s] = j THEN Closing(Disposed(sock[j])) ELSE sock[j]
<1>t. /\ \A j \in Socks : sock[j] \in Socket
      /\ s # NoId /\ k # NoSock /\ conn \in [Ids -> Socks \union {NoSock}]
  BY BridgeAssumption DEF BridgeAssumption, BridgeInv, BridgeTypeOK
<1>1. /\ r \in Socket /\ r.bound = s /\ ~r.authPending /\ r.state # "unused"
  <2>1. Settled(sock[k]) \in Socket /\ ~Settled(sock[k]).authPending
        /\ Settled(sock[k]).state # "unused"
    BY <1>t, SettledFields DEF Authenticates, Connected
  <2> QED BY <2>1 DEF Socket
<1>2. ASSUME NEW j \in Socks
      PROVE  /\ q(j) \in Socket /\ q(j).bound = sock[j].bound
             /\ q(j).authPending = sock[j].authPending
             /\ q(j).state = "unused" => sock[j].state = "unused"
             /\ conn[s] = j => ~q(j).forwards /\ q(j).state # "open"
             /\ conn[s] # j => q(j) = sock[j]
  BY <1>t, ClosingFields, DisposedFields
<1>3. /\ sock' = [j \in Socks |-> IF j = k THEN r ELSE q(j)]
      /\ conn' = [conn EXCEPT ![s] = k] /\ pendingAuth' = SettledCount(k)
  BY DEF TakeOver
<1> HIDE DEF r, q
<1>4. BridgeTypeOK' /\ UnusedAreFresh'
  BY <1>t, <1>1, <1>2, <1>3, SettledCountExact DEF BridgeInv, BridgeTypeOK, UnusedAreFresh
<1>5. OneActiveView'
  <2> SUFFICES ASSUME NEW j \in Socks, sock'[j].bound # NoId, ~IsCurrent(j)'
               PROVE  ~sock'[j].forwards /\ sock'[j].state # "open"
    BY DEF OneActiveView
  <2>1. j # k
    BY <1>t, <1>1, <1>3 DEF IsCurrent
  <2>2. sock'[j] = q(j) /\ q(j).bound = sock[j].bound
    BY <1>2, <1>3, <2>1
  <2>3. CASE conn[s] = j
    BY <1>2, <2>2, <2>3
  <2>4. CASE conn[s] # j
    <3>1. ~IsCurrent(j)
      BY <1>t, <1>3, <2>2, <2>4 DEF IsCurrent, BridgeInv, BridgeTypeOK, Socket
    <3> QED BY <1>2, <2>2, <2>4, <3>1 DEF BridgeInv, OneActiveView
  <2> QED BY <2>3, <2>4
<1>6. Pending' = Pending \ {k}
  BY <1>1, <1>2, <1>3 DEF Pending
<1> QED BY <1>3, <1>4, <1>5, <1>6, SettledCountExact, BridgeInvFrom

\* Steps that close some of the sockets, and unmap sessions whose socket they
\* close: the listener of closed sessions, bridge.close(), backpressure.
LEMMA ClosingKeeps ==
    ASSUME BridgeInv, pendingAuth' = pendingAuth, NEW D \in SUBSET Socks, NEW C \in SUBSET Socks,
           NEW E \in SUBSET Ids,
           sock' = [j \in Socks |-> IF j \in D THEN Closing(Disposed(sock[j]))
                                   ELSE IF j \in C THEN Closing(sock[j]) ELSE sock[j]],
           conn' = [s \in Ids |-> IF s \in E THEN NoSock ELSE conn[s]],
           \A s \in E, j \in Socks : conn[s] = j => j \in D,
           \A j \in D : \E s \in Ids : conn[s] = j
    PROVE  BridgeInv'
<1>t. /\ \A j \in Socks : sock[j] \in Socket
      /\ \A j \in Socks : sock[j].bound \in Ids \union {NoId}
      /\ conn \in [Ids -> Socks \union {NoSock}]
  BY DEF BridgeInv, BridgeTypeOK, Socket
<1>1. ASSUME NEW j \in Socks
      PROVE  /\ sock'[j] \in Socket /\ sock'[j].bound = sock[j].bound
             /\ sock'[j].authPending = sock[j].authPending
             /\ sock'[j].state = "unused" => sock[j].state = "unused"
             /\ j \in D => ~sock'[j].forwards /\ sock'[j].state # "open"
             /\ ~sock[j].forwards /\ sock[j].state # "open" =>
                  ~sock'[j].forwards /\ sock'[j].state # "open"
  <2>1. CASE j \in D
    BY <1>t, <2>1, ClosingFields, DisposedFields
  <2>2. CASE j \notin D /\ j \in C
    BY <1>t, <2>2, ClosingFields
  <2>3. CASE j \notin D /\ j \notin C
    BY <1>t, <2>3
  <2> QED BY <2>1, <2>2, <2>3
<1>2. BridgeTypeOK' /\ UnusedAreFresh'
  <2>1. sock' \in [Socks -> Socket]
    BY <1>1
  <2>2. conn' \in [Ids -> Socks \union {NoSock}]
    BY <1>t
  <2>3. UnusedAreFresh'
    BY <1>1 DEF BridgeInv, UnusedAreFresh
  <2> QED BY <2>1, <2>2, <2>3 DEF BridgeInv, BridgeTypeOK
<1>3. OneActiveView'
  <2> SUFFICES ASSUME NEW j \in Socks, sock'[j].bound # NoId, ~IsCurrent(j)'
               PROVE  ~sock'[j].forwards /\ sock'[j].state # "open"
    BY DEF OneActiveView
  <2> DEFINE b == sock[j].bound
  <2>1. b \in Ids /\ sock'[j].bound = b /\ conn'[b] # j
    BY <1>t, <1>1 DEF IsCurrent
  <2>2. CASE conn[b] = j
    BY <1>1, <2>1, <2>2
  <2>3. CASE conn[b] # j
    BY <1>1, <2>1, <2>3 DEF BridgeInv, OneActiveView, IsCurrent
  <2> QED BY <2>2, <2>3
<1>4. Pending' = Pending
  BY <1>1 DEF Pending
<1> QED BY <1>2, <1>3, <1>4, BridgeInvFrom DEF BridgeInv

LEMMA CloseListenerKeeps ==
    ASSUME BridgeInv, pendingAuth' = pendingAuth, NEW k \in Socks \union {NoSock},
           CloseListener(k)
    PROVE  BridgeInv'
<1> DEFINE E == Ended
           D == {j \in Socks : \E s \in E : conn[s] = j}
           C == {k} \intersect Socks
<1>1. E \in SUBSET Ids
  BY DEF Ended, Open
<1>2. /\ sock' = [j \in Socks |-> IF j \in D THEN Closing(Disposed(sock[j]))
                                ELSE IF j \in C THEN Closing(sock[j]) ELSE sock[j]]
      /\ conn' = [s \in Ids |-> IF s \in E THEN NoSock ELSE conn[s]]
  BY Zenon DEF CloseListener
<1>3. D \in SUBSET Socks /\ C \in SUBSET Socks
  OBVIOUS
<1>4. \A s \in E, j \in Socks : conn[s] = j => j \in D
  OBVIOUS
<1>5. \A j \in D : \E s \in Ids : conn[s] = j
  BY <1>1
<1> HIDE DEF D, C, E
<1> QED BY <1>1, <1>2, <1>3, <1>4, <1>5, ClosingKeeps

LEMMA CloseBridgeKeeps ==
    ASSUME BridgeInv, pendingAuth' = pendingAuth, CloseBridge
    PROVE  BridgeInv'
<1> DEFINE D == {j \in Socks : \E s \in Ids : conn[s] = j}
           C == Socks \ Socks
           E == Ids \ Ids
<1>1. conn = [s \in Ids |-> IF s \in E THEN NoSock ELSE conn[s]]
  BY DEF BridgeInv, BridgeTypeOK
<1>2. /\ sock' = [j \in Socks |-> IF j \in D THEN Closing(Disposed(sock[j]))
                                ELSE IF j \in C THEN Closing(sock[j]) ELSE sock[j]]
      /\ conn' = [s \in Ids |-> IF s \in E THEN NoSock ELSE conn[s]]
  BY <1>1 DEF CloseBridge
<1>3. /\ D \in SUBSET Socks /\ C \in SUBSET Socks /\ E \in SUBSET Ids
      /\ \A j \in D : \E s \in Ids : conn[s] = j
      /\ \A s \in E, j \in Socks : conn[s] = j => j \in D
  OBVIOUS
<1> HIDE DEF D, C, E
<1> QED BY <1>2, <1>3, ClosingKeeps

LEMMA BackpressureKeeps ==
    ASSUME BridgeInv, NEW k \in Socks, Backpressure(k)
    PROVE  BridgeInv'
<1> DEFINE D == Socks \ Socks
           C == {k}
           E == Ids \ Ids
<1>1. /\ conn = [s \in Ids |-> IF s \in E THEN NoSock ELSE conn[s]]
      /\ sock \in [Socks -> Socket]
  BY DEF BridgeInv, BridgeTypeOK
<1>2. /\ sock' = [j \in Socks |-> IF j \in D THEN Closing(Disposed(sock[j]))
                                ELSE IF j \in C THEN Closing(sock[j]) ELSE sock[j]]
      /\ conn' = [s \in Ids |-> IF s \in E THEN NoSock ELSE conn[s]]
      /\ pendingAuth' = pendingAuth
  BY <1>1 DEF Backpressure
<1>3. /\ D \in SUBSET Socks /\ C \in SUBSET Socks /\ E \in SUBSET Ids
      /\ \A j \in D : \E s \in Ids : conn[s] = j
      /\ \A s \in E, j \in Socks : conn[s] = j => j \in D
  OBVIOUS
<1> HIDE DEF D, C, E
<1> QED BY <1>2, <1>3, ClosingKeeps

LEMMA SocketClosedKeeps ==
    ASSUME BridgeInv, NEW k \in Socks, SocketClosed(k)
    PROVE  BridgeInv'
<1> DEFINE r == [Disposed(Settled(sock[k])) EXCEPT !.state = "gone"]
<1>t. /\ \A j \in Socks : sock[j] \in Socket
      /\ conn \in [Ids -> Socks \union {NoSock}] /\ NoSock \notin Socks
  BY BridgeAssumption DEF BridgeAssumption, BridgeInv, BridgeTypeOK
<1>1. r \in Socket /\ r.state = "gone" /\ ~r.authPending /\ ~r.forwards
  <2> DEFINE q == Disposed(Settled(sock[k]))
  <2>1. q \in Socket /\ ~q.authPending /\ ~q.forwards
    BY <1>t, SettledFields, DisposedFields
  <2> HIDE DEF q
  <2>2. /\ [q EXCEPT !.state = "gone"] \in Socket
        /\ [q EXCEPT !.state = "gone"].state = "gone"
        /\ ~[q EXCEPT !.state = "gone"].authPending
        /\ ~[q EXCEPT !.state = "gone"].forwards
    BY <2>1 DEF Socket
  <2> QED BY <2>2 DEF q
<1>2. /\ sock' = [sock EXCEPT ![k] = r] /\ pendingAuth' = SettledCount(k)
      /\ conn' = [s \in Ids |-> IF s = sock[k].bound /\ conn[s] = k THEN NoSock ELSE conn[s]]
  BY DEF SocketClosed
<1> HIDE DEF r
<1>3. BridgeTypeOK' /\ UnusedAreFresh'
  BY <1>t, <1>1, <1>2, SettledCountExact DEF BridgeInv, BridgeTypeOK, UnusedAreFresh
<1>4. OneActiveView'
  <2> SUFFICES ASSUME NEW j \in Socks, sock'[j].bound # NoId, ~IsCurrent(j)'
               PROVE  ~sock'[j].forwards /\ sock'[j].state # "open"
    BY DEF OneActiveView
  <2>1. CASE j = k
    BY <1>1, <1>2, <2>1 DEF BridgeInv, BridgeTypeOK
  <2>2. CASE j # k
    <3>1. sock'[j] = sock[j] /\ sock[j].bound \in Ids
      BY <1>t, <1>2, <2>2 DEF BridgeInv, BridgeTypeOK, Socket
    <3>2. ~IsCurrent(j)
      BY <1>2, <2>2, <3>1 DEF IsCurrent
    <3> QED BY <3>1, <3>2 DEF BridgeInv, OneActiveView
  <2> QED BY <2>1, <2>2
<1>5. Pending' = Pending \ {k}
  BY <1>1, <1>2 DEF BridgeInv, BridgeTypeOK, Pending
<1> QED BY <1>2, <1>3, <1>4, <1>5, SettledCountExact, BridgeInvFrom

LEMMA BridgeInvStep == BridgeInv /\ [BridgeNext]_allVars => BridgeInv'
<1> SUFFICES ASSUME BridgeInv, [BridgeNext]_allVars PROVE BridgeInv'
  OBVIOUS
<1>1. CASE ManagerTurn
  BY <1>1, CloseListenerKeeps, CloseBridgeKeeps, Zenon DEF ManagerTurn
<1>2. ASSUME NEW k \in Socks, NEW s \in Ids, Upgrade(k, s)
      PROVE  BridgeInv'
  BY <1>2, UpgradeKeeps
<1>3. ASSUME NEW k \in Socks,
             \/ AuthTimeout(k) \/ BadMessage(k) \/ UnauthenticatedMessage(k)
             \/ AuthRejected(k) \/ AuthStartRefused(k)
      PROVE  BridgeInv'
  <2>1. Reject(k)
    BY <1>3, Zenon DEF AuthTimeout, BadMessage, UnauthenticatedMessage, AuthRejected,
                       AuthStartRefused
  <2> QED BY <2>1, RejectKeeps
<1>4. ASSUME NEW k \in Socks, Authenticated(k)
      PROVE  BridgeInv'
  <2> DEFINE s == sock[k].url
  <2>1. Authenticates(k) /\ TakeOver(k, s)
    BY <1>4, Zenon DEF Authenticated
  <2>2. s \in Ids
    BY <1>4 DEF Authenticated, StartSession, CanSpawn, Usable, Open
  <2> HIDE DEF s
  <2> QED BY <2>1, <2>2, TakeOverKeeps
<1>5. ASSUME NEW k \in Socks, PtyWrite(k) \/ OtherMessage(k)
      PROVE  BridgeInv'
  <2>1. UNCHANGED <<sock, conn, pendingAuth>>
    BY <1>5, Zenon DEF PtyWrite, OtherMessage
  <2> QED BY <2>1, QuietKeeps
<1>6. ASSUME NEW k \in Socks, CloseBySocket(k)
      PROVE  BridgeInv'
  BY <1>6, CloseListenerKeeps, Zenon DEF CloseBySocket
<1>7. ASSUME NEW k \in Socks, Backpressure(k)
      PROVE  BridgeInv'
  BY <1>7, BackpressureKeeps
<1>8. ASSUME NEW k \in Socks, SocketClosed(k)
      PROVE  BridgeInv'
  BY <1>8, SocketClosedKeeps
<1>9. CASE UNCHANGED allVars
  <2>1. UNCHANGED <<sock, conn, pendingAuth>>
    BY <1>9 DEF allVars, bridgeVars
  <2> QED BY <2>1, QuietKeeps
<1> QED
  BY <1>1, <1>2, <1>3, <1>4, <1>5, <1>6, <1>7, <1>8, <1>9, Zenon DEF BridgeNext, SocketStep

LEMMA BridgeInvariance == BridgeSpec => []BridgeInv
BY BridgeInitially, BridgeInvStep, PTL DEF BridgeSpec

-----------------------------------------------------------------------------
(* What follows from it *)

\* No path of a socket out of authentication settles twice or not at all.
THEOREM SlotsExact == BridgeSpec => []PendingAuthExact
<1>1. BridgeInv => PendingAuthExact
  BY DEF BridgeInv, Pending, PendingAuthExact
<1> QED BY <1>1, BridgeInvariance, PTL

\* Whoever authenticated for a session and is not its current view forwards
\* nothing and has been told to close.
THEOREM ActiveView == BridgeSpec => []OneActiveView
<1>1. BridgeInv => OneActiveView
  BY DEF BridgeInv
<1> QED BY <1>1, BridgeInvariance, PTL

-----------------------------------------------------------------------------
(* A socket keeps its session only while the session is in the map *)

ConnInv ==
    \A s \in Ids : conn[s] # NoSock => s \in Open \/ phase = "down"

LEMMA DownLasts == phase = "down" /\ [Next]_vars => phase' = "down"
BY DEF Next, BackgroundStep, AppStep, BridgeStep, FileStep, ProcessStep, Sweep, ShutdownStep,
       CreateSession, Touch, StartSession, BridgeStartFails, AppSpawnThrows, AppStartFails,
       GetFileSession, FileDrained, CloseSession, CleanupExpiredSessions, ProcessExits,
       ExitEvent, BeginShutdown, CloseAll, FinishShutdown, Tick, vars

\* A session leaves the map by being closed.
LEMMA OpenLasts ==
    ASSUME IInv, [Next]_vars, NEW s \in Open
    PROVE  s \in Open' \/ session'[s].life = "closed"
<1>t. s \in Ids /\ session[s].life = "open" /\ session \in [Ids -> Session]
  BY DEF Open, IInv, TypeOK
<1>1. CASE Quiet
  BY <1>1, <1>t DEF Quiet, KeepsHandle, Open
<1>2. ASSUME NEW p \in Pids, ProcessEnds(p)
      PROVE  s \in Open'
  BY <1>2, <1>t DEF ProcessEnds, Open
<1>3. ASSUME NEW u \in Ids, CreateSession(u)
      PROVE  s \in Open'
  BY <1>3, <1>t DEF CreateSession, Open
<1>4. ASSUME NEW u \in Ids, NEW p \in Pids, NEW r \in Session, NEW st \in ProcState,
             Spawns(u, p, r, st)
      PROVE  s \in Open' \/ session'[s].life = "closed"
  <2>1. r.life \in {"open", "closed"} /\ session' = [session EXCEPT ![u] = r]
    BY <1>4 DEF Spawns
  <2> QED BY <2>1, <1>t DEF Open
<1>5. ASSUME NEW S \in SUBSET Open, NEW failed \in SUBSET S, CloseSessions(S, failed)
      PROVE  s \in Open' \/ session'[s].life = "closed"
  BY <1>5, <1>t, CloseSessionsFields DEF Open
<1> QED BY <1>1, <1>2, <1>3, <1>4, <1>5, StepKinds, Zenon DEF StepKind

\* Neither an activity nor a start from the bridge takes a session off the map.
LEMMA TouchKeepsLife ==
    ASSUME IInv, NEW u, NEW s \in Ids, Touch(u)
    PROVE  session'[s].life = session[s].life
BY DEF IInv, TypeOK, Touch, Touched, Session, Open

LEMMA StartKeepsLife ==
    ASSUME IInv, NEW u \in Ids, NEW s \in Ids, NEW p \in Pids, StartSession(u, p)
    PROVE  session'[s].life = session[s].life
BY DEF IInv, TypeOK, StartSession, Started, Touched, Session

LEMMA FailedStartKeepsLife ==
    ASSUME IInv, NEW u \in Ids, NEW s \in Ids, NEW p \in Pids, NEW killed \in BOOLEAN,
           BridgeStartFails(u, p, killed)
    PROVE  session'[s].life = session[s].life
BY DEF IInv, TypeOK, BridgeStartFails, FailedStart, Touched, Session

\* While the bridge listens for closed sessions, one that leaves the map loses
\* its socket in the same turn.
LEMMA ConnStep == IInv /\ BridgeInv /\ ConnInv /\ [BridgeNext]_allVars => ConnInv'
<1> SUFFICES ASSUME IInv, BridgeInv, ConnInv, [BridgeNext]_allVars,
                    NEW s \in Ids, conn'[s] # NoSock, phase' # "down"
             PROVE  s \in Open'
  BY DEF ConnInv
<1>t. /\ [Next]_vars /\ phase # "down"
      /\ conn \in [Ids -> Socks \union {NoSock}]
  BY ManagerStep, DownLasts DEF BridgeInv, BridgeTypeOK
<1>o. ASSUME conn[s] # NoSock
      PROVE  s \in Open /\ (s \in Open' \/ s \in Ended)
  <2>1. s \in Open
    BY <1>o, <1>t DEF ConnInv
  <2> QED BY <2>1, <1>t, OpenLasts DEF Ended
<1>l. ASSUME NEW k \in Socks \union {NoSock}, CloseListener(k)
      PROVE  s \in Open'
  <2>1. s \notin Ended /\ conn[s] # NoSock
    BY <1>l, Zenon DEF CloseListener
  <2> QED BY <2>1, <1>o
<1>v. ASSUME UNCHANGED vars, conn[s] # NoSock
      PROVE  s \in Open'
  BY <1>v, <1>o DEF vars, Open
<1>k. ASSUME s \in Open, session'[s].life = session[s].life
      PROVE  s \in Open'
  BY <1>k DEF Open
<1>1. CASE ManagerTurn
  BY <1>1, <1>l, <1>t, Zenon DEF ManagerTurn
<1>2. ASSUME NEW k \in Socks, NEW u \in Ids,
             \/ Upgrade(k, u) \/ AuthTimeout(k) \/ BadMessage(k)
             \/ UnauthenticatedMessage(k) \/ AuthRejected(k) \/ Backpressure(k)
             \/ SocketClosed(k)
      PROVE  s \in Open'
  <2>1. UNCHANGED vars /\ conn[s] # NoSock
    <3>1. CASE SocketClosed(k)
      BY <3>1 DEF SocketClosed
    <3>2. CASE ~SocketClosed(k)
      BY <1>2, <3>2, Zenon
         DEF Upgrade, AuthTimeout, BadMessage, UnauthenticatedMessage, AuthRejected,
             Backpressure, Reject
    <3> QED BY <3>1, <3>2
  <2> QED BY <2>1, <1>v
<1>3. ASSUME NEW k \in Socks, AuthStartRefused(k)
      PROVE  s \in Open'
  <2> DEFINE u == sock[k].url
  <2>1. u \in Ids /\ conn[s] # NoSock
    BY <1>3 DEF AuthStartRefused, Reject, Open
  <2>2. Touch(u) \/ \E p \in Pids, killed \in BOOLEAN : BridgeStartFails(u, p, killed)
    BY <1>3, Zenon DEF AuthStartRefused
  <2> HIDE DEF u
  <2>3. session'[s].life = session[s].life
    BY <2>1, <2>2, TouchKeepsLife, FailedStartKeepsLife, Zenon
  <2> QED BY <2>1, <2>3, <1>o, <1>k
<1>4. ASSUME NEW k \in Socks, Authenticated(k)
      PROVE  s \in Open'
  <2> DEFINE u == sock[k].url
  <2>1. u \in Open /\ u \in Ids
    BY <1>4 DEF Authenticated, StartSession, CanSpawn, Usable, Open
  <2>2. Touch(u) \/ \E p \in Pids : StartSession(u, p)
    BY <1>4, Zenon DEF Authenticated
  <2>3. conn[s] # NoSock \/ s = u
    BY <1>4, <1>t DEF Authenticated, TakeOver
  <2> HIDE DEF u
  <2>4. session'[s].life = session[s].life
    BY <2>1, <2>2, TouchKeepsLife, StartKeepsLife, Zenon
  <2> QED BY <2>1, <2>3, <2>4, <1>o, <1>k
<1>5. ASSUME NEW k \in Socks, PtyWrite(k) \/ OtherMessage(k)
      PROVE  s \in Open'
  <2> DEFINE u == sock[k].bound
  <2>1. conn' = conn /\ (Touch(u) \/ UNCHANGED vars)
    BY <1>5, Zenon DEF PtyWrite, OtherMessage, RecordActivity
  <2> HIDE DEF u
  <2>2. conn[s] # NoSock
    BY <2>1
  <2>3. CASE Touch(u)
    <3>1. session'[s].life = session[s].life
      BY <2>3, TouchKeepsLife
    <3> QED BY <2>2, <3>1, <1>o, <1>k
  <2>4. CASE UNCHANGED vars
    BY <2>2, <2>4, <1>v
  <2> QED BY <2>1, <2>3, <2>4
<1>6. ASSUME NEW k \in Socks, CloseBySocket(k)
      PROVE  s \in Open'
  BY <1>6, <1>l, Zenon DEF CloseBySocket
<1>7. CASE UNCHANGED allVars
  BY <1>7, <1>v DEF allVars, bridgeVars, vars
<1> QED
  BY <1>1, <1>2, <1>3, <1>4, <1>5, <1>6, <1>7, Zenon DEF BridgeNext, SocketStep

LEMMA ConnInvariance == BridgeSpec => []ConnInv
<1>1. BridgeInit => ConnInv
  BY DEF BridgeInit, ConnInv
<1> QED BY <1>1, ConnStep, BridgeUsesManager, Invariance, BridgeInvariance, PTL DEF BridgeSpec

\* PTY I/O has one author, and every other socket of its session is on its
\* way out.
LEMMA WriteStep ==
    ASSUME BridgeInv, ConnInv, [BridgeNext]_allVars
    PROVE  [wrote' # NoWrite =>
              /\ phase # "down" => wrote'.to \in Open
              /\ \A j \in Socks \ {wrote'.by} : sock[j].bound = wrote'.to =>
                    ~sock[j].forwards /\ sock[j].state # "open"]_allVars
<1>1. CASE UNCHANGED allVars
  BY <1>1
<1>2. ASSUME NEW k \in Socks, PtyWrite(k) \/ CloseBySocket(k), wrote' # NoWrite
      PROVE  /\ phase # "down" => wrote'.to \in Open
             /\ \A j \in Socks \ {wrote'.by} : sock[j].bound = wrote'.to =>
                   ~sock[j].forwards /\ sock[j].state # "open"
  <2>1. wrote'.by = k /\ wrote'.to = sock[k].bound
    BY <1>2 DEF PtyWrite, CloseBySocket, Attempt
  <2>2. sock[k].bound # NoId /\ conn[sock[k].bound] = k
    BY <1>2 DEF PtyWrite, CloseBySocket, IsCurrent
  <2>3. sock[k].bound \in Ids
    BY <2>2 DEF BridgeInv, BridgeTypeOK, Socket
  <2>4. phase # "down" => sock[k].bound \in Open
    BY <2>2, <2>3, BridgeAssumption DEF BridgeAssumption, ConnInv
  <2> QED BY <2>1, <2>2, <2>4 DEF BridgeInv, OneActiveView, IsCurrent
<1>3. ASSUME BridgeNext, ~\E k \in Socks : PtyWrite(k) \/ CloseBySocket(k)
      PROVE  wrote' = NoWrite
  BY <1>3, Zenon
     DEF BridgeNext, SocketStep, ManagerTurn, Upgrade, AuthTimeout, BadMessage,
         UnauthenticatedMessage, AuthRejected, AuthStartRefused, Authenticated,
         OtherMessage, Backpressure, SocketClosed
<1> QED BY <1>1, <1>2, <1>3

\* PTY I/O is attempted only for the one view a session's output goes to, and
\* while the bridge listens only on a session still in the map.
THEOREM ActiveViewWrites == BridgeSpec => OnlyActiveViewWrites
BY BridgeInvariance, ConnInvariance, WriteStep, PTL DEF BridgeSpec, OnlyActiveViewWrites
=============================================================================
