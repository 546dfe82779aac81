-------------------------- MODULE SessionLifecycle --------------------------
(***************************************************************************)
(* What the session manager promises about a session, without ptys, file   *)
(* sessions, tokens or clocks: a session is opened, given at most one ssh  *)
(* shell, and retired.  A shell whose kill failed keeps its session, and   *)
(* its slot, until a later attempt succeeds.  SessionManager implements    *)
(* this specification.                                                     *)
(***************************************************************************)
EXTENDS Naturals, FiniteSets

CONSTANTS Ids, MaxSessions

VARIABLES
    stage,   \* how far each session has come
    shells   \* the sessions whose ssh process runs and was never signalled

vars == <<stage, shells>>

Stages == {"absent", "ready", "live", "terminating", "gone"}

Held == {s \in Ids : stage[s] \in {"ready", "live", "terminating"}}

Init ==
    /\ stage = [s \in Ids |-> "absent"]
    /\ shells = {}

OpenSession(s) ==
    /\ stage[s] = "absent"
    /\ Cardinality(Held) < MaxSessions
    /\ stage' = [stage EXCEPT ![s] = "ready"]
    /\ UNCHANGED shells

\* The shell starts; "terminating" if starting it went wrong half-way and it
\* could not be killed.
StartShell(s, to) ==
    /\ stage[s] = "ready"
    /\ to \in {"live", "terminating"}
    /\ stage' = [stage EXCEPT ![s] = to]
    /\ shells' = shells \union {s}

ShellEnds(s) ==
    /\ s \in shells
    /\ shells' = shells \ {s}
    /\ UNCHANGED stage

\* Some sessions are retired at once; those of stuck had a kill fail.
Retire(S, stuck) ==
    /\ S \subseteq Held
    /\ stuck \subseteq {s \in S : stage[s] # "ready"}
    /\ stage' = [s \in Ids |-> IF s \in stuck THEN "terminating"
                               ELSE IF s \in S THEN "gone" ELSE stage[s]]
    /\ shells' = shells \ (S \ stuck)

Next ==
    \/ \E s \in Ids : OpenSession(s) \/ ShellEnds(s)
    \/ \E s \in Ids, to \in Stages : StartShell(s, to)
    \/ \E S \in SUBSET Ids : \E stuck \in SUBSET S : Retire(S, stuck)

Spec == Init /\ [][Next]_vars
=============================================================================
