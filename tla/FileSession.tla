----------------------------- MODULE FileSession -----------------------------
(***************************************************************************)
(* The file side of one terminal session (src/server/file-session.ts):     *)
(* operations share a helper process that is started lazily, transfers     *)
(* queue in a lane made of promises, a failed transfer or a timeout        *)
(* discards the helper, and operations that change files use up a lease.   *)
(*                                                                         *)
(* A handler is cut where it awaits.  Each continuation is an action, so   *)
(* that anything may happen before it runs.  A resolved promise of the     *)
(* lane is NoOp.  Tokens of leases are interchangeable and only counted.   *)
(***************************************************************************)
EXTENDS Naturals, FiniteSets

CONSTANTS
    Transfers,    \* callers of upload and downloadBuffer
    Lists,        \* callers of list
    Prepares,     \* callers of prepare
    Mutations,    \* callers of mutate
    Helpers,      \* helper processes that may exist at one time
    MaxLeases,    \* config.maxFileOperationLeases
    NoOp, NoHelper,
    Rejected      \* in connecting: a promise that has been rejected

Operations == Transfers \union Lists \union Prepares \union Mutations

ASSUME FileAssumption ==
    /\ MaxLeases \in Nat
    /\ NoOp \notin Operations
    /\ NoHelper \notin Helpers /\ Rejected \notin Helpers /\ NoHelper # Rejected

VARIABLES
    disposed,
    helper,
    connecting,
    transferTail,
    valid, expired,  \* leases that are still good, and that are not
    op,              \* the operations under way
    process,         \* the helper processes
    dirty            \* history: a transfer failed on this helper

vars == <<disposed, helper, connecting, transferTail, valid, expired, op, process, dirty>>

leaseVars == <<valid, expired>>

\* prev is the transfer whose promise a queued one awaits, helper the helper an
\* operation awaits or uses.
Operation ==
    [stage : {"idle", "queued", "connecting", "operating", "draining"},
     prev : Transfers \union {NoOp},
     helper : Helpers \union {NoHelper},
     retried : BOOLEAN]

Idle == [stage |-> "idle", prev |-> NoOp, helper |-> NoHelper, retried |-> FALSE]

Init ==
    /\ disposed = FALSE
    /\ helper = NoHelper
    /\ connecting = NoHelper
    /\ transferTail = NoOp
    /\ valid = 0
    /\ expired = 0
    /\ op = [t \in Operations |-> Idle]
    /\ process = [h \in Helpers |-> "closed"]
    /\ dirty = [h \in Helpers |-> FALSE]

-----------------------------------------------------------------------------
(* Ends, helpers and the lane *)

\* Operations end together; a transfer among them releases the lane.
End(ended) ==
    /\ op' = [t \in Operations |->
                IF t \in ended THEN Idle
                ELSE IF op[t].prev \in ended THEN [op[t] EXCEPT !.prev = NoOp]
                ELSE op[t]]
    /\ transferTail' = IF transferTail \in ended THEN NoOp ELSE transferTail

\* ChildSftpHelper.dispose: pending requests are rejected, SIGTERM is sent.
Terminated(h) ==
    [process EXCEPT ![h] = IF @ = "alive" THEN "terminated" ELSE @]

\* poison, on the field and on the process.
Unset(h) == IF helper = h THEN NoHelper ELSE helper

Awaiting(h) == {t \in Operations : op[t].stage = "connecting" /\ op[t].helper = h}

Free(h) ==
    /\ process[h] = "closed"
    /\ h \notin {helper, connecting}
    /\ \A t \in Operations : op[t].helper # h

Enter(t, stage, h, retried) ==
    /\ op' = [op EXCEPT ![t] = [stage |-> stage, prev |-> NoOp, helper |-> h,
                                retried |-> retried]]
    /\ UNCHANGED transferTail

\* getHelper up to its await; the caller may just have poisoned a helper, so it
\* says what the field and the processes are.
GetHelper(t, retried, current, running) ==
    /\ helper' = current
    /\ \/ /\ disposed \/ (current = NoHelper /\ connecting = Rejected)
          /\ End({t})
          /\ process' = running
          /\ UNCHANGED <<connecting, dirty>>
       \/ /\ ~disposed /\ current # NoHelper
          /\ Enter(t, "operating", current, retried)
          /\ process' = running
          /\ UNCHANGED <<connecting, dirty>>
       \/ /\ ~disposed /\ current = NoHelper /\ connecting \in Helpers
          /\ Enter(t, "connecting", connecting, retried)
          /\ process' = running
          /\ UNCHANGED <<connecting, dirty>>
       \/ /\ ~disposed /\ current = NoHelper /\ connecting = NoHelper
          /\ \E h \in Helpers :
                /\ Free(h)
                /\ connecting' = h
                /\ process' = [running EXCEPT ![h] = "alive"]
                /\ dirty' = [dirty EXCEPT ![h] = FALSE]
                /\ Enter(t, "connecting", h, retried)
       \/ \* The factory throws before the try: nothing resets connecting.
          /\ ~disposed /\ current = NoHelper /\ connecting = NoHelper
          /\ connecting' = Rejected
          /\ End({t})
          /\ process' = running
          /\ UNCHANGED dirty

-----------------------------------------------------------------------------
(* Operations start *)

List(t) ==
    /\ op[t].stage = "idle"
    /\ GetHelper(t, FALSE, helper, process)
    /\ UNCHANGED <<disposed, leaseVars>>

\* prepare up to its first await.
Prepare(t) ==
    /\ op[t].stage = "idle"
    /\ expired' = 0
    /\ valid < MaxLeases
    /\ GetHelper(t, FALSE, helper, process)
    /\ UNCHANGED <<disposed, valid>>

PrepareRefused(t) ==
    /\ op[t].stage = "idle"
    /\ valid >= MaxLeases
    /\ expired' = 0
    /\ UNCHANGED <<disposed, helper, connecting, transferTail, valid, op, process, dirty>>

\* consumeLease of a good token.
ConsumeLease ==
    /\ valid > 0
    /\ valid' = valid - 1
    /\ UNCHANGED expired

\* consumeLease of a token that is too old or for something else: it is used
\* up, and refused.
LeaseRefused(t) ==
    /\ op[t].stage = "idle"
    /\ \/ expired > 0 /\ expired' = expired - 1 /\ UNCHANGED valid
       \/ valid > 0 /\ valid' = valid - 1 /\ UNCHANGED expired
    /\ UNCHANGED <<disposed, helper, connecting, transferTail, op, process, dirty>>

Mutate(t) ==
    /\ op[t].stage = "idle"
    /\ ConsumeLease
    /\ GetHelper(t, FALSE, helper, process)
    /\ UNCHANGED disposed

\* upload and downloadBuffer, and withTransfer up to its await.
Transfer(t) ==
    /\ op[t].stage = "idle"
    /\ ConsumeLease
    /\ op' = [op EXCEPT ![t] = [Idle EXCEPT !.stage = "queued", !.prev = transferTail]]
    /\ transferTail' = t
    /\ UNCHANGED <<disposed, helper, connecting, process, dirty>>

\* The transfer before it is over.
LaneProceeds(t) ==
    /\ op[t].stage = "queued"
    /\ op[t].prev = NoOp
    /\ GetHelper(t, FALSE, helper, process)
    /\ UNCHANGED <<disposed, leaseVars>>

\* Mutant: a transfer that gives up waiting keeps its promise unresolved.
AbortWaitKeepsLane(t) ==
    /\ op[t].stage = "queued"
    /\ op' = [op EXCEPT ![t] = Idle]
    /\ UNCHANGED <<disposed, helper, connecting, transferTail, leaseVars, process, dirty>>

\* The signal aborts while the transfer waits: it releases its own promise.
AbortWait(t) ==
    /\ op[t].stage = "queued"
    /\ End({t})
    /\ UNCHANGED <<disposed, helper, connecting, leaseVars, process, dirty>>

-----------------------------------------------------------------------------
(* The helper connects *)

\* Mutant: the connection is used although the session is disposed.
ConnectedAfterDispose(h) ==
    /\ connecting = h
    /\ process[h] = "alive"
    /\ connecting' = NoHelper
    /\ helper' = h
    /\ op' = [t \in Operations |->
                IF t \in Awaiting(h) THEN [op[t] EXCEPT !.stage = "operating"] ELSE op[t]]
    /\ UNCHANGED <<disposed, transferTail, leaseVars, process, dirty>>

\* hello and root are answered.
Connected(h) ==
    /\ connecting = h
    /\ process[h] = "alive"
    /\ connecting' = NoHelper
    /\ \/ /\ disposed
          /\ process' = Terminated(h)
          /\ End(Awaiting(h))
          /\ UNCHANGED helper
       \/ /\ ~disposed
          /\ helper' = h
          /\ op' = [t \in Operations |->
                      IF t \in Awaiting(h) THEN [op[t] EXCEPT !.stage = "operating"] ELSE op[t]]
          /\ UNCHANGED <<process, transferTail>>
    /\ UNCHANGED <<disposed, leaseVars, dirty>>

\* Mutant: the helper is not disposed.
ConnectFailsLeaks(h) ==
    /\ connecting = h
    /\ connecting' = NoHelper
    /\ End(Awaiting(h))
    /\ UNCHANGED <<disposed, helper, leaseVars, process, dirty>>

\* One of the two fails or takes too long.
ConnectFails(h) ==
    /\ connecting = h
    /\ connecting' = NoHelper
    /\ process' = Terminated(h)
    /\ End(Awaiting(h))
    /\ UNCHANGED <<disposed, helper, leaseVars, dirty>>

-----------------------------------------------------------------------------
(* Operations on a helper *)

On(t, h) == op[t].stage = "operating" /\ op[t].helper = h

\* The operation succeeds; prepare inserts its lease.
Succeeds(t, h) ==
    /\ On(t, h)
    /\ process[h] = "alive"
    /\ End({t})
    /\ valid' = IF t \in Prepares THEN valid + 1 ELSE valid
    /\ UNCHANGED <<disposed, helper, connecting, expired, process, dirty>>

\* The helper answers with an error, or a check refuses.
Refused(t, h) ==
    /\ t \notin Transfers
    /\ On(t, h)
    /\ process[h] = "alive"
    /\ End({t})
    /\ UNCHANGED <<disposed, helper, connecting, leaseVars, process, dirty>>

\* timed poisons the helper of a request that takes too long; the requests of a
\* dead helper have been rejected.  readOnly poisons in both cases and tries once more.
LosesHelper(t, h) ==
    /\ t \notin Transfers
    /\ On(t, h)
    /\ IF t \in Lists /\ ~op[t].retried /\ ~disposed
       THEN GetHelper(t, TRUE, Unset(h), Terminated(h))
       ELSE /\ End({t})
            /\ helper' = IF process[h] = "alive" THEN Unset(h) ELSE helper
            /\ process' = Terminated(h)
            /\ UNCHANGED <<connecting, dirty>>
    /\ UNCHANGED <<disposed, leaseVars>>

\* Mutant: the helper of a failed transfer stays in use.
TransferFailsUnpoisoned(t, h) ==
    /\ t \in Transfers
    /\ On(t, h)
    /\ dirty' = [dirty EXCEPT ![h] = TRUE]
    /\ op' = [op EXCEPT ![t].stage = "draining"]
    /\ UNCHANGED <<disposed, helper, connecting, transferTail, leaseVars, process>>

\* A transfer ends in any other way than success: an error of the helper, a
\* changed file, an abort, fileTransferMaxDurationMs.
TransferFails(t, h) ==
    /\ t \in Transfers
    /\ On(t, h)
    /\ helper' = Unset(h)
    /\ process' = Terminated(h)
    /\ dirty' = [dirty EXCEPT ![h] = TRUE]
    /\ op' = [op EXCEPT ![t].stage = "draining"]
    /\ UNCHANGED <<disposed, connecting, transferTail, leaseVars>>

\* helper.drain is over, by the close of the process or by time.
Drained(t) ==
    /\ op[t].stage = "draining"
    /\ End({t})
    /\ UNCHANGED <<disposed, helper, connecting, leaseVars, process, dirty>>

-----------------------------------------------------------------------------
(* Environment *)

\* A line that is no response disposes the helper; FileSession is not told.
GarbledLine(h) ==
    /\ process[h] = "alive"
    /\ process' = Terminated(h)
    /\ UNCHANGED <<disposed, helper, connecting, transferTail, leaseVars, op, dirty>>

\* The close event of the child, whoever ended it.
HelperCloses(h) ==
    /\ process[h] # "closed"
    /\ process' = [process EXCEPT ![h] = "closed"]
    /\ helper' = Unset(h)
    /\ UNCHANGED <<disposed, connecting, transferTail, leaseVars, op, dirty>>

LeaseExpires ==
    /\ valid > 0
    /\ valid' = valid - 1
    /\ expired' = expired + 1
    /\ UNCHANGED <<disposed, helper, connecting, transferTail, op, process, dirty>>

\* dispose; a helper that is connecting goes when its connection is settled.
Dispose ==
    /\ ~disposed
    /\ disposed' = TRUE
    /\ valid' = 0
    /\ expired' = 0
    /\ process' = [h \in Helpers |->
                     IF h = helper /\ process[h] = "alive" THEN "terminated" ELSE process[h]]
    /\ UNCHANGED <<helper, connecting, transferTail, op, dirty>>

Answers(t) == \E h \in Helpers :
    Succeeds(t, h) \/ Refused(t, h) \/ LosesHelper(t, h) \/ TransferFails(t, h)

OperationStep(t) ==
    \/ t \in Lists /\ List(t)
    \/ t \in Prepares /\ (Prepare(t) \/ PrepareRefused(t))
    \/ t \in Mutations /\ Mutate(t)
    \/ t \in Transfers /\ (Transfer(t) \/ LaneProceeds(t) \/ AbortWait(t) \/ Drained(t))
    \/ t \in Transfers \union Mutations /\ LeaseRefused(t)
    \/ Answers(t)

HelperStep(h) == Connected(h) \/ ConnectFails(h) \/ GarbledLine(h) \/ HelperCloses(h)

Next ==
    \/ \E t \in Operations : OperationStep(t)
    \/ \E h \in Helpers : HelperStep(h)
    \/ LeaseExpires
    \/ Dispose

Spec == Init /\ [][Next]_vars

\* Continuations run; requests, connections, transfers and drains have
\* time limits; a helper that got SIGTERM or SIGKILL ends.
Fairness ==
    /\ \A t \in Operations : WF_vars(LaneProceeds(t)) /\ WF_vars(Drained(t)) /\ WF_vars(Answers(t))
    /\ \A h \in Helpers :
          /\ WF_vars(Connected(h) \/ ConnectFails(h))
          /\ WF_vars(process[h] = "terminated" /\ HelperCloses(h))

FairSpec == Spec /\ Fairness

-----------------------------------------------------------------------------
(* Properties *)

\* The variables keep their shape; concurrent prepares exceed the limit on
\* leases at most by their number.
TypeOK ==
    /\ disposed \in BOOLEAN
    /\ helper \in Helpers \union {NoHelper}
    /\ connecting \in Helpers \union {NoHelper, Rejected}
    /\ transferTail \in Transfers \union {NoOp}
    /\ valid \in Nat /\ expired \in Nat
    /\ valid + expired <= MaxLeases + Cardinality(Prepares)
    /\ op \in [Operations -> Operation]
    /\ process \in [Helpers -> {"alive", "terminated", "closed"}]
    /\ dirty \in [Helpers -> BOOLEAN]

\* A helper nobody can find is never left running: whatever times out, fails
\* or is thrown away, a live helper is the one in use or the one connecting.
NoHelperLeak ==
    \A h \in Helpers : process[h] = "alive" => h \in {helper, connecting}

\* After dispose nothing works any more, whatever was under way: no lease, no
\* helper but one that is still connecting, no operation that could succeed.
DisposedIsFinal ==
    disposed =>
        /\ valid = 0 /\ expired = 0
        /\ \A h \in Helpers : process[h] = "alive" => h = connecting
        /\ \A t \in Operations :
              op[t].stage = "operating" => process[op[t].helper] # "alive"

\* Bytes of a failed transfer may be left in the pipes of its helper; no other
\* transfer ever succeeds on that helper, not even one that already runs.
CleanTransfersOnly ==
    [][\A t \in Transfers :
          op[t].stage = "operating" /\ op'[t].stage = "idle" => ~dirty[op[t].helper]]_vars

\* A queued transfer gets its turn and ends, whatever those before it do.
EveryTransferEnds ==
    \A t \in Transfers : op[t].stage # "idle" ~> op[t].stage = "idle"

=============================================================================
