--------------------------- MODULE SessionManager ---------------------------
(***************************************************************************)
(* ConnexinSessionManager (src/server/session-manager.ts) with the app     *)
(* tools of create-server.ts that drive it and the cleanup timer and       *)
(* shutdown sequence of main.ts.                                           *)
(*                                                                         *)
(* Every method and tool handler modelled here runs to completion in one   *)
(* turn of the event loop (createSession is async but awaits nothing), so  *)
(* each is one action.  What interleaves is the order of the turns, the    *)
(* ssh processes, their exit events, and the clock.                        *)
(*                                                                         *)
(* Time is counted in ticks.  A session stores how many ticks ago it was   *)
(* created and last active, saturated at the two expiry limits: nothing    *)
(* in the code looks further back than that.                               *)
(***************************************************************************)
EXTENDS Naturals, FiniteSets

CONSTANTS
    Ids,            \* session ids randomUUID() may return, never twice
    Pids,           \* ssh processes the pty factory may spawn, never twice
    NoPid,          \* session.pty = undefined
    MaxSessions,    \* config.maxSessions
    MaxSessionAge,  \* config.maxSessionAgeMs, in ticks
    IdleGrace,      \* config.idleGraceMs, in ticks
    MaxKillFaults   \* bound on how often pty.kill() throws in one behaviour

ASSUME NoPidAssumption == NoPid \notin Pids

\* numberFromEnv accepts positive integers only.
ASSUME LimitsAssumption ==
    /\ MaxSessions \in Nat \ {0}
    /\ MaxSessionAge \in Nat \ {0}
    /\ IdleGrace \in Nat \ {0}
    /\ MaxKillFaults \in Nat

ASSUME IdsAssumption == IsFiniteSet(Ids)

VARIABLES
    session,    \* every session object, by id
    proc,       \* every ssh process
    killFaults, \* how many kills have thrown
    phase,      \* of the process: PreparedRuntime.close()
    awaited     \* sessions whose drain closeAllAndDrain awaits

vars == <<session, proc, killFaults, phase, awaited>>

\* "exited": the process is gone, node-pty has not emitted its exit event yet.
ProcState == {"unused", "running", "signalled", "exited", "reaped"}

Phase == {"up", "stopping", "draining", "down"}

\* "draining": every drain() of it is still running.  "drained": one has
\* resolved, because the helper ended or was killed at the time limit; the
\* drains that later close attempts start have nothing left to wait for.
FileState == {"none", "open", "draining", "drained"}

\* life "open": an entry of the sessions map; "closed": deleted from it.
\* wired: the processes whose exit listener is in session.disposables.
Session == [life    : {"unborn", "open", "closed"},
            pty     : Pids \union {NoPid},
            wired   : SUBSET Pids,
            exited  : BOOLEAN,
            closing : BOOLEAN,
            age     : 0..MaxSessionAge,
            idle    : 0..IdleGrace,
            files   : FileState]

Unborn == [life |-> "unborn", pty |-> NoPid, wired |-> {}, exited |-> FALSE,
           closing |-> FALSE, age |-> 0, idle |-> 0, files |-> "none"]

Created == [Unborn EXCEPT !.life = "open"]

Open == {s \in Ids : session[s].life = "open"}

\* Sessions authenticateApp, getFileSession and startSession accept.
Usable == {s \in Open : ~session[s].closing}

\* Mutant: the MCP server closes after the drains instead of before.
ServingWhileDraining == phase # "down"

Serving == phase \in {"up", "stopping"}

Init ==
    /\ session = [s \in Ids |-> Unborn]
    /\ proc = [p \in Pids |-> "unused"]
    /\ killFaults = 0
    /\ phase = "up"
    /\ awaited = {}

-----------------------------------------------------------------------------
(* The operations on one session object *)

\* recordActivity: lastActivityAt = Date.now().
Touched(r) == [r EXCEPT !.idle = 0]

\* startSession after the pty factory returned p and both listeners are on.
Started(r, p) == [Touched(r) EXCEPT !.pty = p, !.wired = {p}]

\* startSession when registering a listener throws: the listeners come off,
\* the process is killed, and the handle is kept exactly when that failed.
FailedStart(r, p, killed) ==
    IF killed THEN r ELSE [r EXCEPT !.pty = p, !.closing = TRUE]

\* fileSession.dispose() and a drain() promise, if there is a file session.
DisposedFiles(f) == IF f \in {"none", "drained"} THEN f ELSE "draining"

\* Mutant: the session leaves the map whether or not its kill worked.
CloseAttemptForgets(r, killed) ==
    [r EXCEPT !.closing = TRUE, !.wired = {}, !.files = DisposedFiles(r.files),
              !.life = "closed", !.pty = NoPid, !.age = 0, !.idle = 0]

\* Mutant: a failed kill takes the closing flag back.
CloseAttemptReopens(r, killed) ==
    IF killed
    THEN [r EXCEPT !.closing = TRUE, !.wired = {}, !.files = DisposedFiles(r.files),
                   !.life = "closed", !.pty = NoPid, !.age = 0, !.idle = 0]
    ELSE [r EXCEPT !.closing = FALSE, !.wired = {}, !.files = DisposedFiles(r.files)]

\* closeSessionWithDiagnostics: without a kill the session keeps its handle
\* and its place in the map.  node-pty's dispose() does not throw; where it
\* would, the code notes the failure, closes all the same, and the listener
\* could stay on the process.
CloseAttempt(r, killed) ==
    LET detached == [r EXCEPT !.closing = TRUE, !.wired = {},
                              !.files = DisposedFiles(r.files)]
    IN  IF killed
        THEN [detached EXCEPT !.life = "closed", !.pty = NoPid,
                              !.age = 0, !.idle = 0]
        ELSE detached

\* The exit listener of a process, run on the session that registered it.
Exited(r) == [r EXCEPT !.exited = TRUE, !.idle = 0]

\* pty.kill() that did not throw: SIGHUP is on its way.
Signal(P) ==
    [p \in Pids |-> IF p \in P /\ proc[p] = "running" THEN "signalled" ELSE proc[p]]

\* closeSessionWithDiagnostics for every session of S in one turn; the kill
\* of those in failed throws.  A session without a pty has nothing to throw.
CloseSessions(S, failed) ==
    /\ failed \subseteq {s \in S : session[s].pty # NoPid}
    /\ killFaults + Cardinality(failed) <= MaxKillFaults
    /\ killFaults' = killFaults + Cardinality(failed)
    /\ session' = [s \in Ids |-> IF s \in S
                                 THEN CloseAttempt(session[s], s \notin failed)
                                 ELSE session[s]]
    /\ proc' = Signal({session[s].pty : s \in S \ failed})

-----------------------------------------------------------------------------
(* Actions *)

\* Mutant: closing sessions do not count.
HasCapacityForUsable == Cardinality(Usable) < MaxSessions

\* createSession, from open_connexin: the capacity check and the insertion
\* are in one turn, and every entry of the map counts, closing ones too.
HasCapacity == Cardinality(Open) < MaxSessions

CreateSession(s) ==
    /\ session[s].life = "unborn"
    /\ HasCapacity
    /\ session' = [session EXCEPT ![s] = Created]
    /\ UNCHANGED <<proc, killFaults, phase, awaited>>

\* Everything that leaves only recordActivity behind: an authenticated app
\* tool on a started session, output of the process, bridge messages, and
\* authenticateWsCapability, which a closing session passes as well.
Touch(s) ==
    /\ s \in Open
    /\ session' = [session EXCEPT ![s] = Touched(@)]
    /\ UNCHANGED <<proc, killFaults, phase, awaited>>

\* Mutant: startSession does not look for a process it already has.
CanSpawnAgain(s) == s \in Usable

\* startSession spawns at most once per session object.
CanSpawn(s) == s \in Usable /\ session[s].pty = NoPid

\* startSession, reached from an app tool or from a bridge authentication.
StartSession(s, p) ==
    /\ CanSpawn(s)
    /\ proc[p] = "unused"
    /\ session' = [session EXCEPT ![s] = Started(@, p)]
    /\ proc' = [proc EXCEPT ![p] = "running"]
    /\ UNCHANGED <<killFaults, phase, awaited>>

\* startSession throws after the spawn, reached from a bridge
\* authentication: the bridge closes its socket and leaves the session.
BridgeStartFails(s, p, killed) ==
    /\ CanSpawn(s)
    /\ proc[p] = "unused"
    /\ ~killed => killFaults < MaxKillFaults
    /\ session' = [session EXCEPT ![s] = FailedStart(Touched(@), p, killed)]
    /\ proc' = [proc EXCEPT ![p] = IF killed THEN "signalled" ELSE "running"]
    /\ killFaults' = IF killed THEN killFaults ELSE killFaults + 1
    /\ UNCHANGED <<phase, awaited>>

\* startAppSession when the pty factory throws: nothing was spawned, and
\* the handler closes the session.
AppSpawnThrows(s) ==
    /\ CanSpawn(s)
    /\ CloseSessions({s}, {})
    /\ UNCHANGED <<phase, awaited>>

\* startAppSession when startSession throws after the spawn: startSession
\* kills (killed), then the handler's closeSession kills the retained handle
\* again (rekilled).
AppStartFails(s, p, killed, rekilled) ==
    /\ CanSpawn(s)
    /\ proc[p] = "unused"
    /\ killed => rekilled
    /\ killFaults' = killFaults + (IF killed THEN 0 ELSE IF rekilled THEN 1 ELSE 2)
    /\ killFaults' <= MaxKillFaults
    /\ session' = [session EXCEPT ![s] =
                      CloseAttempt(FailedStart(Touched(@), p, killed), rekilled)]
    /\ proc' = [proc EXCEPT ![p] = IF rekilled THEN "signalled" ELSE "running"]
    /\ UNCHANGED <<phase, awaited>>

\* getFileSession: the file session is created on the first request.
GetFileSession(s) ==
    /\ s \in Usable
    /\ session' = [session EXCEPT ![s].idle = 0, ![s].files = "open"]
    /\ UNCHANGED <<proc, killFaults, phase, awaited>>

\* A drain() promise resolves and leaves fileClosePromises.
FileDrained(s) ==
    /\ session[s].files = "draining"
    /\ session' = [session EXCEPT ![s].files = "drained"]
    /\ awaited' = awaited \ {s}
    /\ UNCHANGED <<proc, killFaults, phase>>

\* closeSession: the close tool (which accepts a closing session and so
\* retries its kill), the bridge's close message, a failed PTY write.
CloseSession(s, failed) ==
    /\ s \in Open
    /\ CloseSessions({s}, failed)
    /\ UNCHANGED <<phase, awaited>>

\* Mutant: only idle sessions expire.
ExpiredWhenIdle == {s \in Open : session[s].idle = IdleGrace}

\* cleanupExpiredSessions, from the interval timer.
Expired == {s \in Open : session[s].age = MaxSessionAge \/ session[s].idle = IdleGrace}

CleanupExpiredSessions(failed) ==
    /\ phase = "up"
    /\ Expired # {}
    /\ CloseSessions(Expired, failed)
    /\ UNCHANGED <<phase, awaited>>

\* An ssh process ends, by itself or by the signal.
ProcessExits(p) ==
    /\ proc[p] \in {"running", "signalled"}
    /\ proc' = [proc EXCEPT ![p] = "exited"]
    /\ UNCHANGED <<session, killFaults, phase, awaited>>

\* node-pty emits the exit event to whoever still listens.
ExitEvent(p) ==
    /\ proc[p] = "exited"
    /\ proc' = [proc EXCEPT ![p] = "reaped"]
    /\ session' = [s \in Ids |-> IF p \in session[s].wired
                                 THEN Exited(session[s]) ELSE session[s]]
    /\ UNCHANGED <<killFaults, phase, awaited>>

\* PreparedRuntime.close: the timer is cleared, then the MCP server closes.
BeginShutdown ==
    /\ phase = "up"
    /\ phase' = "stopping"
    /\ UNCHANGED <<session, proc, killFaults, awaited>>

\* Mutant: only the drains of sessions still in the map are awaited.
CloseAllAwaitsMap(failed) ==
    /\ phase = "stopping"
    /\ phase' = "draining"
    /\ CloseSessions(Open, failed)
    /\ awaited' = {s \in Open : session'[s].files = "draining"}

\* closeAllAndDrain up to its await: one attempt on every session, then the
\* promises of all drains still running are awaited together.
CloseAll(failed) ==
    /\ phase = "stopping"
    /\ phase' = "draining"
    /\ CloseSessions(Open, failed)
    /\ awaited' = {s \in Ids : session'[s].files = "draining"}

\* closeAllAndDrain resolves; the bridge closes and the process exits.
FinishShutdown ==
    /\ phase = "draining"
    /\ awaited = {}
    /\ phase' = "down"
    /\ UNCHANGED <<session, proc, killFaults, awaited>>

Older(n, limit) == IF n < limit THEN n + 1 ELSE limit

\* One tick of the clock.
Tick ==
    /\ phase # "down"
    /\ session' = [s \in Ids |-> IF s \in Open
                     THEN [session[s] EXCEPT !.age = Older(@, MaxSessionAge),
                                             !.idle = Older(@, IdleGrace)]
                     ELSE session[s]]
    /\ UNCHANGED <<proc, killFaults, phase, awaited>>

\* What the MCP app tools do to a session.
AppStep(s) ==
    /\ Serving
    /\ \/ CreateSession(s)
       \/ s \in Usable /\ Touch(s)
       \/ AppSpawnThrows(s)
       \/ \E failed \in SUBSET {s} : CloseSession(s, failed)
       \/ \E p \in Pids : StartSession(s, p)
       \/ \E p \in Pids, killed, rekilled \in BOOLEAN :
             AppStartFails(s, p, killed, rekilled)

\* What the WebSocket bridge does to a session.
BridgeStep(s) ==
    \/ Touch(s)
    \/ \E failed \in SUBSET {s} : CloseSession(s, failed)
    \/ \E p \in Pids : StartSession(s, p)
    \/ \E p \in Pids, killed \in BOOLEAN : BridgeStartFails(s, p, killed)

\* File requests, and the file sessions they leave behind.
FileStep(s) == GetFileSession(s) \/ FileDrained(s)

ProcessStep(p) == ProcessExits(p) \/ ExitEvent(p)

Sweep == \E failed \in SUBSET Ids : CleanupExpiredSessions(failed)

ShutdownStep ==
    \/ \E failed \in SUBSET Ids : CloseAll(failed)
    \/ FinishShutdown

\* What happens without any client.
BackgroundStep ==
    \/ \E s \in Ids : FileStep(s)
    \/ \E p \in Pids : ProcessStep(p)
    \/ Sweep
    \/ BeginShutdown
    \/ ShutdownStep
    \/ Tick

Next == BackgroundStep \/ \E s \in Ids : AppStep(s) \/ BridgeStep(s)

\* The clock advances and setInterval keeps firing.  Nothing is assumed of
\* clients, of ssh, or of whether a shutdown is ever requested.
Fairness ==
    /\ WF_vars(Tick)
    /\ WF_vars(Sweep)

Spec == Init /\ [][Next]_vars

FairSpec == Spec /\ Fairness

-----------------------------------------------------------------------------
(* Properties *)

\* Every variable keeps the shape the code gives it.
TypeOK ==
    /\ session \in [Ids -> Session]
    /\ proc \in [Pids -> ProcState]
    /\ killFaults \in 0..MaxKillFaults
    /\ phase \in Phase
    /\ awaited \subseteq Ids

\* No ssh process that was never successfully killed is ever out of reach:
\* it is the pty of a session still in the map, so a later close, sweep or
\* shutdown tries again.  closeSessionWithDiagnostics and the cleanup in
\* startSession keep the handle exactly when the kill threw.
NoOrphanProcess ==
    \A p \in Pids : proc[p] = "running" =>
        \E s \in Open : session[s].pty = p

\* maxSessions bounds the ssh processes nobody has killed yet, not only the
\* map: failed starts, failed kills and restarts included.
ProcessesBounded ==
    Cardinality({p \in Pids : proc[p] = "running"}) <= MaxSessions

\* exited is about the process the session has now: an exit event of a
\* process it gave up never marks its successor dead, and input is never
\* refused with "exited" while ssh is still running.
ExitedIsCurrent ==
    \A s \in Open : session[s].exited =>
        session[s].pty \in Pids /\ proc[session[s].pty] = "reaped"

\* A closing session keeps no exit listener on the process it may still own
\* (a late exit event cannot touch it), and leaving the map releases both
\* the process handle and the file session.
ClosingIsDetached ==
    \A s \in Ids :
        /\ session[s].closing => session[s].wired = {}
        /\ session[s].life = "closed" => /\ session[s].pty = NoPid
                                        /\ session[s].files # "open"

\* Once closeAll has run, whatever is left in the map is only there because
\* its kill threw, and it stays that way while the drains are awaited.
ShutdownLeavesNothingUsable == phase \in {"draining", "down"} => Usable = {}

\* The process does not exit while an sftp helper may still be moving bytes:
\* each file session there ever was has been drained, those of sessions that
\* left the map long before the shutdown included, and bridge requests that
\* arrive while the drains are awaited start none anew.
DrainedBeforeExit ==
    phase = "down" => \A s \in Ids : session[s].files \in {"none", "drained"}

\* The map never holds more sessions than createSession allows at once.
CapacityRespected == Cardinality(Open) <= MaxSessions

\* What a single session object satisfies between turns.  The first conjunct
\* lets createSession assume a fresh object; wired names no process but the
\* current one, which is what makes a late exit event harmless.
WellFormed(r) ==
    /\ r.life = "unborn" => r = Unborn
    /\ r.life = "closed" => r.pty = NoPid /\ r.files # "open"
    /\ r.wired \subseteq {r.pty}
    /\ r.closing => r.wired = {}
    /\ r.exited /\ r.life = "open" => r.pty \in Pids

SessionsWellFormed == \A s \in Ids : WellFormed(session[s])

\* The inductive invariant: every safety invariant above follows from it.
IInv ==
    /\ TypeOK
    /\ SessionsWellFormed
    /\ NoOrphanProcess
    /\ ExitedIsCurrent
    /\ CapacityRespected
    /\ ShutdownLeavesNothingUsable

\* Closing is for ever: no call order makes a closing session usable, gives
\* it another process, or puts a removed one back in the map.
ClosingIsFinal ==
    [][\A s \in Ids : session[s].closing =>
          /\ session'[s].closing
          /\ session'[s].pty \in {session[s].pty, NoPid}
          /\ session[s].life = "closed" => session'[s].life = "closed"]_vars

\* A session object never has a second process behind its client's back:
\* the handle only goes from none to one, and back to none with the session.
OnePtyPerSession ==
    [][\A s \in Ids : session[s].pty # NoPid =>
          \/ session'[s].pty = session[s].pty
          \/ session'[s].life = "closed"]_vars

\* The lifecycle a client is promised, read off the session object.
StageOf(s) ==
    CASE session[s].life = "unborn" -> "absent"
      [] session[s].life = "closed" -> "gone"
      [] s \in Usable -> IF session[s].pty = NoPid THEN "ready" ELSE "live"
      [] OTHER -> "terminating"

HasShell(s) == session[s].pty \in Pids /\ proc[session[s].pty] = "running"

Lifecycle == INSTANCE SessionLifecycle
                 WITH stage <- [s \in Ids |-> StageOf(s)],
                      shells <- {s \in Ids : HasShell(s)}

\* The manager implements SessionLifecycle: every turn of the event loop is
\* one step of that lifecycle or none, in the order a client may rely on.
ImplementsLifecycle == Lifecycle!Spec

\* Every session leaves the map, whatever activity refreshes it and however
\* its kills fail (finitely often), unless the process is shut down first.
EverySessionEnds ==
    \A s \in Ids : s \in Open ~> s \notin Open \/ phase # "up"
=============================================================================
