--------------------------- MODULE FileSessionProofs ---------------------------
(***************************************************************************)
(* Theorems about FileSession, for every set of callers and helpers.       *)
(***************************************************************************)
EXTENDS FileSession, TLAPS

-----------------------------------------------------------------------------
(* The inductive invariant *)

\* The part of TypeOK that the proofs need.
Shape ==
    /\ disposed \in BOOLEAN
    /\ helper \in Helpers \union {NoHelper}
    /\ connecting \in Helpers \union {NoHelper, Rejected}
    /\ transferTail \in Transfers \union {NoOp}
    /\ valid \in Nat /\ expired \in Nat
    /\ op \in [Operations -> Operation]
    /\ process \in [Helpers -> {"alive", "terminated", "closed"}]
    /\ dirty \in [Helpers -> BOOLEAN]

Busy == {"connecting", "operating", "draining"}

\* An operation that waits for a helper or uses one knows it; it never uses the
\* one that is still connecting.
HoldsHelper ==
    \A t \in Operations :
        /\ op[t].stage \in Busy => op[t].helper \in Helpers
        /\ op[t].stage = "operating" => op[t].helper # connecting

\* While a helper connects there is none in use.
ConnectingIsAlone == connecting \in Helpers => helper = NoHelper

\* The helper of a failed transfer is never alive.
DirtyIsDead == \A h \in Helpers : dirty[h] => process[h] # "alive"

IInv == Shape /\ HoldsHelper /\ ConnectingIsAlone /\ NoHelperLeak /\ DirtyIsDead /\ DisposedIsFinal

-----------------------------------------------------------------------------
(* Lemmas about the helpers of the actions *)

\* Ending operations changes no other than in what it waits for.
LEMMA EndShape ==
    ASSUME Shape, HoldsHelper, NEW ended, End(ended)
    PROVE  /\ op' \in [Operations -> Operation]
           /\ transferTail' \in Transfers \union {NoOp}
           /\ \A t \in Operations :
                 /\ op'[t].stage \in {op[t].stage, "idle"}
                 /\ op'[t].stage \in Busy => op'[t].helper = op[t].helper
  BY DEF Shape, HoldsHelper, End, Operation, Idle, Busy

\* Disposing of a process keeps its type and brings nothing to life.
LEMMA TerminatedShape ==
    ASSUME Shape, NEW h \in Helpers
    PROVE  /\ Terminated(h) \in [Helpers -> {"alive", "terminated", "closed"}]
           /\ \A g \in Helpers : Terminated(h)[g] = "alive" <=> process[g] = "alive" /\ g # h
           /\ Unset(h) \in Helpers \union {NoHelper}
  BY DEF Shape, Terminated, Unset

\* getHelper keeps the invariant, also when a helper was poisoned before.
LEMMA GetHelperKeeps ==
    ASSUME IInv, NEW t \in Operations, NEW retried \in BOOLEAN,
           NEW current \in Helpers \union {NoHelper},
           NEW running \in [Helpers -> {"alive", "terminated", "closed"}],
           current \in {helper, NoHelper},
           \A h \in Helpers : running[h] = "alive" =>
                process[h] = "alive" /\ h \in {current, connecting},
           \A h \in Helpers : process[h] = "closed" => running[h] # "alive",
           GetHelper(t, retried, current, running),
           disposed' = disposed,
           valid' \in Nat, expired' \in Nat, disposed => valid' = 0 /\ expired' = 0
    PROVE  IInv'
<1>1. CASE End({t}) /\ process' = running /\ UNCHANGED <<connecting, dirty>>
  <2>1. helper' = current  BY DEF GetHelper
  <2>2. /\ op' \in [Operations -> Operation]
        /\ transferTail' \in Transfers \union {NoOp}
        /\ \A u \in Operations :
              /\ op'[u].stage \in {op[u].stage, "idle"}
              /\ op'[u].stage \in Busy => op'[u].helper = op[u].helper
    BY <1>1, EndShape DEF IInv
  <2>3. Shape'  BY <1>1, <2>1, <2>2 DEF IInv, Shape
  <2>4. HoldsHelper'  BY <1>1, <2>2 DEF IInv, HoldsHelper, Busy
  <2>5. ConnectingIsAlone' /\ NoHelperLeak' /\ DirtyIsDead'
    BY <1>1, <2>1, FileAssumption
       DEF IInv, Shape, ConnectingIsAlone, NoHelperLeak, DirtyIsDead
  <2>6. ASSUME disposed'
        PROVE  /\ valid' = 0 /\ expired' = 0
               /\ \A h \in Helpers : process'[h] = "alive" => h = connecting'
               /\ \A u \in Operations :
                     op'[u].stage = "operating" => process'[op'[u].helper] # "alive"
    <3>1. valid' = 0 /\ expired' = 0  BY <2>6
    <3>2. \A h \in Helpers : process'[h] = "alive" => h = connecting'
      BY <1>1, <2>6 DEF IInv, DisposedIsFinal
    <3>3. ASSUME NEW u \in Operations, op'[u].stage = "operating"
          PROVE  process'[op'[u].helper] # "alive"
      BY <1>1, <2>2, <2>6, <3>3 DEF IInv, HoldsHelper, DisposedIsFinal, Busy
    <3> QED  BY <3>1, <3>2, <3>3
  <2> QED  BY <2>3, <2>4, <2>5, <2>6 DEF IInv, DisposedIsFinal
<1>2. CASE /\ ~disposed /\ current # NoHelper
           /\ Enter(t, "operating", current, retried)
           /\ process' = running /\ UNCHANGED <<connecting, dirty>>
  <2>1. helper' = current /\ current = helper /\ helper \in Helpers
    BY <1>2 DEF GetHelper
  <2>2. /\ op' \in [Operations -> Operation]
        /\ transferTail' \in Transfers \union {NoOp}
        /\ \A u \in Operations : u # t => op'[u] = op[u]
        /\ op'[t].stage = "operating" /\ op'[t].helper = helper
    BY <1>2, <2>1 DEF Enter, IInv, Shape, Operation
  <2>3. Shape'  BY <1>2, <2>1, <2>2 DEF IInv, Shape
  <2>4. HoldsHelper'
    BY <1>2, <2>1, <2>2 DEF IInv, Shape, HoldsHelper, ConnectingIsAlone, Busy
  <2>5. ConnectingIsAlone' /\ NoHelperLeak' /\ DirtyIsDead'
    BY <1>2, <2>1 DEF IInv, Shape, ConnectingIsAlone, NoHelperLeak, DirtyIsDead
  <2>6. DisposedIsFinal'  BY <1>2 DEF DisposedIsFinal
  <2> QED  BY <2>3, <2>4, <2>5, <2>6 DEF IInv
<1>3. CASE /\ ~disposed /\ current = NoHelper /\ connecting \in Helpers
           /\ Enter(t, "connecting", connecting, retried)
           /\ process' = running /\ UNCHANGED <<connecting, dirty>>
  <2>1. helper' = NoHelper  BY <1>3 DEF GetHelper
  <2>2. /\ op' \in [Operations -> Operation]
        /\ transferTail' \in Transfers \union {NoOp}
        /\ \A u \in Operations : u # t => op'[u] = op[u]
        /\ op'[t].stage = "connecting" /\ op'[t].helper = connecting
    BY <1>3 DEF Enter, IInv, Shape, Operation
  <2>3. Shape'  BY <1>3, <2>1, <2>2 DEF IInv, Shape
  <2>4. HoldsHelper'  BY <1>3, <2>2 DEF IInv, Shape, HoldsHelper, Busy
  <2>5. ConnectingIsAlone' /\ NoHelperLeak' /\ DirtyIsDead'
    BY <1>3, <2>1, FileAssumption
       DEF IInv, Shape, ConnectingIsAlone, NoHelperLeak, DirtyIsDead
  <2>6. DisposedIsFinal'  BY <1>3 DEF DisposedIsFinal
  <2> QED  BY <2>3, <2>4, <2>5, <2>6 DEF IInv
<1>4. ASSUME ~disposed, current = NoHelper, connecting = NoHelper,
             NEW h \in Helpers, Free(h), connecting' = h,
             process' = [running EXCEPT ![h] = "alive"],
             dirty' = [dirty EXCEPT ![h] = FALSE],
             Enter(t, "connecting", h, retried)
      PROVE  IInv'
  <2>1. helper' = NoHelper  BY <1>4 DEF GetHelper
  <2>2. /\ op' \in [Operations -> Operation]
        /\ transferTail' \in Transfers \union {NoOp}
        /\ \A u \in Operations : u # t => op'[u] = op[u]
        /\ op'[t].stage = "connecting" /\ op'[t].helper = h
    BY <1>4 DEF Enter, IInv, Shape, Operation
  <2>3. Shape'  BY <1>4, <2>1, <2>2 DEF IInv, Shape
  <2>4. HoldsHelper'
    BY <1>4, <2>2 DEF IInv, Shape, HoldsHelper, Free, Busy
  <2>5. ConnectingIsAlone' /\ NoHelperLeak' /\ DirtyIsDead'
    BY <1>4, <2>1, FileAssumption
       DEF IInv, Shape, ConnectingIsAlone, NoHelperLeak, DirtyIsDead
  <2>6. DisposedIsFinal'  BY <1>4 DEF DisposedIsFinal
  <2> QED  BY <2>3, <2>4, <2>5, <2>6 DEF IInv
<1>5. CASE /\ ~disposed /\ current = NoHelper /\ connecting = NoHelper
           /\ connecting' = Rejected /\ End({t})
           /\ process' = running /\ UNCHANGED dirty
  <2>1. helper' = NoHelper  BY <1>5 DEF GetHelper
  <2>2. /\ op' \in [Operations -> Operation]
        /\ transferTail' \in Transfers \union {NoOp}
        /\ \A u \in Operations :
              /\ op'[u].stage \in {op[u].stage, "idle"}
              /\ op'[u].stage \in Busy => op'[u].helper = op[u].helper
    BY <1>5, EndShape DEF IInv
  <2>3. Shape'  BY <1>5, <2>1, <2>2 DEF IInv, Shape
  <2>4. HoldsHelper'
    BY <1>5, <2>2, FileAssumption DEF IInv, HoldsHelper, Busy
  <2>5. ConnectingIsAlone' /\ NoHelperLeak' /\ DirtyIsDead'
    BY <1>5, <2>1, FileAssumption
       DEF IInv, Shape, ConnectingIsAlone, NoHelperLeak, DirtyIsDead
  <2>6. DisposedIsFinal'  BY <1>5 DEF DisposedIsFinal
  <2> QED  BY <2>3, <2>4, <2>5, <2>6 DEF IInv
<1> QED  BY <1>1, <1>2, <1>3, <1>4, <1>5 DEF GetHelper

\* A step that only ends operations and stops processes keeps the invariant.
LEMMA EndingStepKeeps ==
    ASSUME IInv, NEW ended, End(ended), UNCHANGED <<disposed, dirty>>,
           connecting' \in {connecting, NoHelper},
           helper' \in {helper, NoHelper},
           process' \in [Helpers -> {"alive", "terminated", "closed"}],
           \A h \in Helpers : process'[h] = "alive" =>
                process[h] = "alive" /\ h \in {helper', connecting'},
           valid' \in Nat, expired' \in Nat,
           disposed => valid' = 0 /\ expired' = 0
    PROVE  IInv'
<1>1. /\ op' \in [Operations -> Operation]
      /\ transferTail' \in Transfers \union {NoOp}
      /\ \A u \in Operations :
            /\ op'[u].stage \in {op[u].stage, "idle"}
            /\ op'[u].stage \in Busy => op'[u].helper = op[u].helper
  BY EndShape DEF IInv
<1>2. Shape'  BY <1>1 DEF IInv, Shape
<1>3. HoldsHelper'  BY <1>1, FileAssumption DEF IInv, HoldsHelper, Busy
<1>4. ConnectingIsAlone' /\ NoHelperLeak' /\ DirtyIsDead'
  BY FileAssumption DEF IInv, Shape, ConnectingIsAlone, NoHelperLeak, DirtyIsDead
<1>5. ASSUME disposed'
      PROVE  /\ valid' = 0 /\ expired' = 0
             /\ \A h \in Helpers : process'[h] = "alive" => h = connecting'
             /\ \A u \in Operations :
                   op'[u].stage = "operating" => process'[op'[u].helper] # "alive"
  <2>1. disposed  BY <1>5
  <2>2. valid' = 0 /\ expired' = 0  BY <1>5
  <2>3. ASSUME NEW h \in Helpers, process'[h] = "alive"
        PROVE  h = connecting'
    BY <1>5, <2>3, FileAssumption DEF IInv, Shape, DisposedIsFinal, ConnectingIsAlone
  <2>4. ASSUME NEW u \in Operations, op'[u].stage = "operating"
        PROVE  process'[op'[u].helper] # "alive"
    BY <1>1, <1>5, <2>4 DEF IInv, DisposedIsFinal, HoldsHelper, Busy
  <2> QED  BY <2>2, <2>3, <2>4
<1> QED  BY <1>2, <1>3, <1>4, <1>5 DEF IInv, DisposedIsFinal

\* A step that starts or fails operations without giving them a new helper,
\* and only stops processes, keeps the invariant.
LEMMA QuietStepKeeps ==
    ASSUME IInv, UNCHANGED <<disposed, connecting>>,
           op' \in [Operations -> Operation],
           transferTail' \in Transfers \union {NoOp},
           \A u \in Operations :
              /\ op'[u].stage = "operating" => op[u].stage = "operating"
              /\ op'[u].stage \in Busy => op[u].stage \in Busy /\ op'[u].helper = op[u].helper,
           helper' \in {helper, NoHelper},
           process' \in [Helpers -> {"alive", "terminated", "closed"}],
           \A h \in Helpers : process'[h] = "alive" =>
                process[h] = "alive" /\ h \in {helper', connecting'},
           dirty' \in [Helpers -> BOOLEAN],
           \A h \in Helpers : dirty'[h] => process'[h] # "alive",
           valid' \in Nat, expired' \in Nat, disposed => valid' = 0 /\ expired' = 0
    PROVE  IInv'
<1>1. Shape'  BY DEF IInv, Shape
<1>2. HoldsHelper'  BY DEF IInv, HoldsHelper, Busy
<1>3. ConnectingIsAlone' /\ NoHelperLeak' /\ DirtyIsDead'
  BY FileAssumption DEF IInv, Shape, ConnectingIsAlone, NoHelperLeak, DirtyIsDead
<1>4. ASSUME disposed'
      PROVE  /\ valid' = 0 /\ expired' = 0
             /\ \A h \in Helpers : process'[h] = "alive" => h = connecting'
             /\ \A u \in Operations :
                   op'[u].stage = "operating" => process'[op'[u].helper] # "alive"
  <2>1. valid' = 0 /\ expired' = 0  BY <1>4
  <2>2. \A h \in Helpers : process'[h] = "alive" => h = connecting'
    BY <1>4 DEF IInv, DisposedIsFinal
  <2>3. ASSUME NEW u \in Operations, op'[u].stage = "operating"
        PROVE  process'[op'[u].helper] # "alive"
    BY <1>4, <2>3 DEF IInv, DisposedIsFinal, HoldsHelper, Busy
  <2> QED  BY <2>1, <2>2, <2>3
<1> QED  BY <1>1, <1>2, <1>3, <1>4 DEF IInv, DisposedIsFinal

-----------------------------------------------------------------------------
(* Invariance *)

LEMMA InvInit == Init => IInv
<1> SUFFICES ASSUME Init PROVE IInv
  OBVIOUS
<1>1. Idle \in Operation  BY DEF Idle, Operation
<1>2. Shape  BY <1>1 DEF Init, Shape
<1>3. HoldsHelper  BY DEF Init, HoldsHelper, Idle, Busy
<1>4. ConnectingIsAlone /\ NoHelperLeak /\ DirtyIsDead /\ DisposedIsFinal
  BY FileAssumption
     DEF Init, ConnectingIsAlone, NoHelperLeak, DirtyIsDead, DisposedIsFinal
<1> QED  BY <1>2, <1>3, <1>4 DEF IInv

\* Every operation of the session keeps the invariant.
LEMMA InvOperationStep ==
    ASSUME IInv, NEW t \in Operations, OperationStep(t)
    PROVE  IInv'
<1>0. /\ \A h \in Helpers : process[h] = "alive" => h \in {helper, connecting}
      /\ helper \in Helpers \union {NoHelper}
      /\ process \in [Helpers -> {"alive", "terminated", "closed"}]
      /\ valid \in Nat /\ expired \in Nat
      /\ disposed => valid = 0 /\ expired = 0
      /\ transferTail \in Transfers \union {NoOp}
      /\ op \in [Operations -> Operation]
      /\ dirty \in [Helpers -> BOOLEAN]
      /\ \A h \in Helpers : dirty[h] => process[h] # "alive"
  BY DEF IInv, Shape, NoHelperLeak, DisposedIsFinal, DirtyIsDead
<1>1. CASE List(t)
  BY <1>0, <1>1, GetHelperKeeps DEF List, leaseVars
<1>2. CASE Prepare(t)
  BY <1>0, <1>2, GetHelperKeeps DEF Prepare
<1>3. CASE PrepareRefused(t)
  BY <1>0, <1>3, QuietStepKeeps DEF PrepareRefused
<1>4. CASE Mutate(t)
  <2>1. valid' \in Nat /\ expired' \in Nat /\ (disposed => valid' = 0 /\ expired' = 0)
    BY <1>0, <1>4 DEF Mutate, ConsumeLease
  <2>2. GetHelper(t, FALSE, helper, process) /\ disposed' = disposed
    BY <1>4 DEF Mutate
  <2> QED  BY <1>0, <2>1, <2>2, GetHelperKeeps
<1>5. CASE t \in Transfers /\ Transfer(t)
  <2>1. op' \in [Operations -> Operation]
    BY <1>0, <1>5 DEF Transfer, Operation, Idle
  <2>2. \A u \in Operations :
           /\ op'[u].stage = "operating" => op[u].stage = "operating"
           /\ op'[u].stage \in Busy => op[u].stage \in Busy /\ op'[u].helper = op[u].helper
    BY <1>0, <1>5 DEF Transfer, Idle, Busy
  <2>3. valid' \in Nat /\ expired' \in Nat /\ (disposed => valid' = 0 /\ expired' = 0)
    BY <1>0, <1>5 DEF Transfer, ConsumeLease
  <2> QED  BY <1>0, <1>5, <2>1, <2>2, <2>3, QuietStepKeeps DEF Transfer
<1>6. CASE LaneProceeds(t)
  BY <1>0, <1>6, GetHelperKeeps DEF LaneProceeds, leaseVars
<1>7. CASE AbortWait(t)
  BY <1>0, <1>7, EndingStepKeeps DEF AbortWait, leaseVars
<1>8. CASE Drained(t)
  BY <1>0, <1>8, EndingStepKeeps DEF Drained, leaseVars
<1>9. CASE LeaseRefused(t)
  BY <1>0, <1>9, QuietStepKeeps DEF LeaseRefused
<1>10. ASSUME NEW h \in Helpers, Succeeds(t, h)
       PROVE  IInv'
  <2>1. ~disposed
    BY <1>10 DEF Succeeds, On, IInv, DisposedIsFinal
  <2>2. valid' \in Nat /\ expired' \in Nat
    BY <1>0, <1>10 DEF Succeeds
  <2> QED  BY <1>0, <1>10, <2>1, <2>2, EndingStepKeeps DEF Succeeds
<1>11. ASSUME NEW h \in Helpers, Refused(t, h)
       PROVE  IInv'
  BY <1>0, <1>11, EndingStepKeeps DEF Refused, leaseVars
<1>12. ASSUME NEW h \in Helpers, LosesHelper(t, h)
       PROVE  IInv'
  <2>1. /\ Terminated(h) \in [Helpers -> {"alive", "terminated", "closed"}]
        /\ \A g \in Helpers : Terminated(h)[g] = "alive" <=> process[g] = "alive" /\ g # h
        /\ Unset(h) \in Helpers \union {NoHelper}
    BY <1>12, TerminatedShape DEF IInv
  <2>2. Unset(h) \in {helper, NoHelper} /\ (helper # h => Unset(h) = helper)
    BY DEF Unset
  <2>3. valid' = valid /\ expired' = expired /\ disposed' = disposed
    BY <1>12 DEF LosesHelper, leaseVars
  <2>4. CASE GetHelper(t, TRUE, Unset(h), Terminated(h))
    <3>1. /\ \A g \in Helpers : Terminated(h)[g] = "alive" =>
                 process[g] = "alive" /\ g \in {Unset(h), connecting}
          /\ \A g \in Helpers : process[g] = "closed" => Terminated(h)[g] # "alive"
      BY <1>0, <2>1, <2>2
    <3>2. valid' \in Nat /\ expired' \in Nat /\ (disposed => valid' = 0 /\ expired' = 0)
      BY <1>0, <2>3
    <3>3. Terminated(h) \in [Helpers -> {"alive", "terminated", "closed"}]
      BY <2>1
    <3>4. Unset(h) \in Helpers \union {NoHelper} /\ Unset(h) \in {helper, NoHelper}
      BY <2>1, <2>2
    <3> QED  BY <2>3, <2>4, <3>1, <3>2, <3>3, <3>4, GetHelperKeeps
  <2>5. CASE /\ End({t})
             /\ helper' = IF process[h] = "alive" THEN Unset(h) ELSE helper
             /\ process' = Terminated(h)
             /\ UNCHANGED <<connecting, dirty>>
    BY <1>0, <2>1, <2>2, <2>3, <2>5, EndingStepKeeps
  <2> QED  BY <1>12, <2>4, <2>5 DEF LosesHelper
<1>13. ASSUME NEW h \in Helpers, TransferFails(t, h)
       PROVE  IInv'
  <2>1. /\ Terminated(h) \in [Helpers -> {"alive", "terminated", "closed"}]
        /\ \A g \in Helpers : Terminated(h)[g] = "alive" <=> process[g] = "alive" /\ g # h
        /\ Unset(h) \in Helpers \union {NoHelper}
    BY <1>13, TerminatedShape DEF IInv
  <2>2. Unset(h) \in {helper, NoHelper} /\ (helper # h => Unset(h) = helper)
    BY DEF Unset
  <2>3. /\ op' \in [Operations -> Operation]
        /\ \A u \in Operations :
              /\ op'[u].stage = "operating" => op[u].stage = "operating"
              /\ op'[u].stage \in Busy =>
                    op[u].stage \in Busy /\ op'[u].helper = op[u].helper
    BY <1>0, <1>13 DEF TransferFails, On, Operation, Busy
  <2>4. /\ dirty' \in [Helpers -> BOOLEAN]
        /\ \A g \in Helpers : dirty'[g] => process'[g] # "alive"
    BY <1>0, <1>13, <2>1 DEF TransferFails
  <2> QED  BY <1>0, <1>13, <2>1, <2>2, <2>3, <2>4, QuietStepKeeps
           DEF TransferFails, leaseVars
<1> QED  BY <1>1, <1>2, <1>3, <1>4, <1>5, <1>6, <1>7, <1>8, <1>9, <1>10, <1>11, <1>12, <1>13
         DEF OperationStep, Answers

\* So does everything that happens to a helper, and dispose.
LEMMA InvOtherStep ==
    ASSUME IInv, (\E h \in Helpers : HelperStep(h)) \/ LeaseExpires \/ Dispose
    PROVE  IInv'
<1>0. /\ \A h \in Helpers : process[h] = "alive" => h \in {helper, connecting}
      /\ helper \in Helpers \union {NoHelper}
      /\ process \in [Helpers -> {"alive", "terminated", "closed"}]
      /\ valid \in Nat /\ expired \in Nat
      /\ disposed => valid = 0 /\ expired = 0
      /\ transferTail \in Transfers \union {NoOp}
      /\ op \in [Operations -> Operation]
      /\ dirty \in [Helpers -> BOOLEAN]
      /\ \A h \in Helpers : dirty[h] => process[h] # "alive"
  BY DEF IInv, Shape, NoHelperLeak, DisposedIsFinal, DirtyIsDead
<1>1. ASSUME NEW h \in Helpers
      PROVE  /\ Terminated(h) \in [Helpers -> {"alive", "terminated", "closed"}]
             /\ \A g \in Helpers : Terminated(h)[g] = "alive" <=> process[g] = "alive" /\ g # h
             /\ Unset(h) \in {helper, NoHelper} /\ (helper # h => Unset(h) = helper)
  BY <1>1, TerminatedShape DEF IInv, Unset
<1>2. ASSUME NEW h \in Helpers, Connected(h), disposed
      PROVE  IInv'
  BY <1>0, <1>1, <1>2, EndingStepKeeps DEF Connected, leaseVars
<1>3. ASSUME NEW h \in Helpers, Connected(h), ~disposed
      PROVE  IInv'
  <2>1. /\ helper' = h /\ connecting = h /\ connecting' = NoHelper
        /\ op' = [t \in Operations |->
                     IF t \in Awaiting(h) THEN [op[t] EXCEPT !.stage = "operating"] ELSE op[t]]
        /\ UNCHANGED <<disposed, transferTail, valid, expired, process, dirty>>
    BY <1>3 DEF Connected, leaseVars
  <2>2. Shape'  BY <2>1 DEF IInv, Shape, Operation
  <2>3. HoldsHelper'
    BY <2>1, FileAssumption DEF IInv, HoldsHelper, Shape, Awaiting, Operation, Busy
  <2>4. NoHelperLeak'
    BY <2>1, FileAssumption DEF IInv, NoHelperLeak, ConnectingIsAlone
  <2>5. ConnectingIsAlone' /\ DirtyIsDead'
    BY <2>1, FileAssumption DEF IInv, ConnectingIsAlone, DirtyIsDead
  <2>6. DisposedIsFinal'  BY <1>3, <2>1 DEF DisposedIsFinal
  <2> QED  BY <2>2, <2>3, <2>4, <2>5, <2>6 DEF IInv
<1>4. ASSUME NEW h \in Helpers, ConnectFails(h)
      PROVE  IInv'
  BY <1>0, <1>1, <1>4, EndingStepKeeps DEF ConnectFails, leaseVars
<1>5. ASSUME NEW h \in Helpers, GarbledLine(h)
      PROVE  IInv'
  BY <1>0, <1>1, <1>5, QuietStepKeeps DEF GarbledLine, leaseVars
<1>6. ASSUME NEW h \in Helpers, HelperCloses(h)
      PROVE  IInv'
  BY <1>0, <1>1, <1>6, QuietStepKeeps DEF HelperCloses, leaseVars
<1>7. CASE LeaseExpires
  BY <1>0, <1>7, QuietStepKeeps DEF LeaseExpires
<1>8. CASE Dispose
  <2>1. /\ disposed' /\ disposed' \in BOOLEAN
        /\ valid' = 0 /\ expired' = 0
        /\ UNCHANGED <<helper, connecting, transferTail, op, dirty>>
    BY <1>8 DEF Dispose
  <2>2. /\ process' \in [Helpers -> {"alive", "terminated", "closed"}]
        /\ \A h \in Helpers : process'[h] = "alive" => process[h] = "alive" /\ h # helper
    BY <1>0, <1>8 DEF Dispose
  <2>3. Shape' /\ HoldsHelper' /\ ConnectingIsAlone' /\ NoHelperLeak' /\ DirtyIsDead'
    BY <2>1, <2>2 DEF IInv, Shape, HoldsHelper, ConnectingIsAlone, NoHelperLeak, DirtyIsDead
  <2>4. DisposedIsFinal'
    BY <1>0, <2>1, <2>2 DEF IInv, HoldsHelper, DisposedIsFinal, Busy
  <2> QED  BY <2>3, <2>4 DEF IInv
<1> QED  BY <1>2, <1>3, <1>4, <1>5, <1>6, <1>7, <1>8 DEF HelperStep

LEMMA InvStep == IInv /\ [Next]_vars => IInv'
<1> SUFFICES ASSUME IInv, [Next]_vars PROVE IInv'
  OBVIOUS
<1>1. CASE UNCHANGED vars
  BY <1>1 DEF vars, leaseVars, IInv, Shape, HoldsHelper, ConnectingIsAlone, NoHelperLeak,
              DirtyIsDead, DisposedIsFinal
<1> QED  BY <1>1, InvOperationStep, InvOtherStep DEF Next

\* The inductive invariant holds in every reachable state.
THEOREM FileInvariance == Spec => []IInv
  BY InvInit, InvStep, PTL DEF Spec

\* Only the helper in use and the one connecting are alive: withTransfer, timed,
\* readOnly and getHelper dispose every other one.
THEOREM NoLeak == Spec => []NoHelperLeak
  BY FileInvariance, PTL DEF IInv

\* After dispose() no lease is left and no operation can succeed.
THEOREM DisposedFinal == Spec => []DisposedIsFinal
  BY FileInvariance, PTL DEF IInv

\* A transfer on a helper leaves it for the idle stage only by succeeding.
LEMMA OnlySuccessEnds ==
    ASSUME IInv, Next, NEW t \in Transfers, op[t].stage = "operating", op'[t].stage = "idle"
    PROVE  Succeeds(t, op[t].helper)
<1>0. t \in Operations /\ op \in [Operations -> Operation]
  BY DEF IInv, Shape, Operations
<1>1. ASSUME NEW ended, End(ended), t \notin ended
      PROVE  FALSE
  BY <1>0, <1>1 DEF End, Idle
<1>2. ASSUME NEW u \in Operations, u # t, NEW stage, NEW h, NEW retried, Enter(u, stage, h, retried)
      PROVE  FALSE
  BY <1>0, <1>2 DEF Enter
<1>3. ASSUME NEW u \in Operations, u # t, NEW retried, NEW current, NEW running,
             GetHelper(u, retried, current, running)
      PROVE  FALSE
  BY <1>1, <1>2, <1>3 DEF GetHelper
<1>4. ASSUME NEW u \in Operations, OperationStep(u)
      PROVE  u = t /\ Answers(t)
  <2>1. ASSUME u # t
        PROVE  FALSE
    BY <1>0, <1>1, <1>3, <1>4, <2>1
       DEF OperationStep, Answers, List, Prepare, PrepareRefused, Mutate, Transfer, LaneProceeds,
           AbortWait, Drained, LeaseRefused, Succeeds, Refused, LosesHelper, TransferFails
  <2>2. ASSUME u = t
        PROVE  Answers(t)
    BY <1>0, <1>4, <2>2
       DEF OperationStep, List, Prepare, PrepareRefused, Mutate, Transfer, LaneProceeds,
           AbortWait, Drained, LeaseRefused
  <2> QED  BY <2>1, <2>2
<1>5. ASSUME NEW h \in Helpers, HelperStep(h)
      PROVE  FALSE
  <2>1. t \notin Awaiting(h)  BY DEF Awaiting
  <2> QED  BY <1>0, <1>1, <1>5, <2>1 DEF HelperStep, Connected, ConnectFails, GarbledLine, HelperCloses
<1>6. ~LeaseExpires /\ ~Dispose
  BY DEF LeaseExpires, Dispose
<1>7. Answers(t)  BY <1>4, <1>5, <1>6 DEF Next
<1>8. ASSUME NEW h \in Helpers, TransferFails(t, h)
      PROVE  FALSE
  BY <1>0, <1>8 DEF TransferFails
<1> QED  BY <1>7, <1>8 DEF Answers, Succeeds, Refused, LosesHelper, On

\* No transfer succeeds on a helper on which another transfer failed.
THEOREM CleanTransfers == Spec => CleanTransfersOnly
<1>1. IInv /\ [Next]_vars =>
        [\A t \in Transfers :
            op[t].stage = "operating" /\ op'[t].stage = "idle" => ~dirty[op[t].helper]]_vars
  <2> SUFFICES ASSUME IInv, Next, NEW t \in Transfers,
                      op[t].stage = "operating", op'[t].stage = "idle"
               PROVE  ~dirty[op[t].helper]
    BY DEF vars
  <2>1. Succeeds(t, op[t].helper)  BY OnlySuccessEnds
  <2>2. op[t].helper \in Helpers  BY DEF IInv, HoldsHelper, Busy, Operations
  <2> QED  BY <2>1, <2>2 DEF Succeeds, IInv, DirtyIsDead
<1> QED  BY <1>1, FileInvariance, PTL DEF Spec, CleanTransfersOnly
=============================================================================
