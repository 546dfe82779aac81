--------------------------- MODULE SftpPipeProofs ---------------------------
(***************************************************************************)
(* Proofs about SftpPipe: uploads and downloads keep their bytes apart on  *)
(* pipes that have no framing, and an answer is taken for its own call.    *)
(***************************************************************************)
EXTENDS SftpPipe, SequenceTheorems, TLAPS

Stages == {"idle", "queued", "active", "tail", "ok", "failed"}
Phases == {"idle", "copying", "discarding", "sending"}
Answer == [op : Operations, ok : BOOLEAN, bytes : Nat]
Handled == [op : Operations \union {NoOp}, phase : Phases, copied : Seq(Uploads), moved : Nat]

PipeTypeOK ==
    /\ disposed \in BOOLEAN
    /\ stage \in [Operations -> Stages]
    /\ transferTail \in Nat
    /\ turn \in [Transfers -> Nat]
    /\ received \in [Downloads -> Seq(Downloads)]
    /\ expected \in [Downloads -> Nat]
    /\ control \in Seq(Operations)
    /\ answers \in Seq(Answer)
    /\ uploadPipe \in Seq(Uploads)
    /\ downloadPipe \in Seq(Downloads)
    /\ sent \in [Uploads -> Nat]
    /\ process \in {"running", "ended"}
    /\ handling \in Handled
    /\ handling.phase \in {"copying", "discarding"} => handling.op \in Uploads
    /\ handling.phase = "sending" => handling.op \in Downloads
    /\ desynced \in BOOLEAN
    /\ committed \in [Uploads -> Seq(Uploads)]
    /\ served \in SUBSET Operations

Current(t) == stage[t] \in {"active", "tail"}
Settled(t) == stage[t] \in {"ok", "failed"}
Over(t) == Current(t) \/ Settled(t)

\* Transfers run one at a time and in the order of their calls, until the helper
\* is disposed of; from then on nothing is active.
LaneInOrder ==
    /\ \A t \in Transfers : turn[t] \in 0..transferTail
    /\ \A t \in Transfers : turn[t] = 0 <=> stage[t] = "idle"
    /\ \A n \in 1..transferTail : \E t \in Transfers : turn[t] = n
    /\ \A s, t \in Transfers : turn[s] = turn[t] /\ turn[s] # 0 => s = t
    /\ ~disposed =>
          \A s, t \in Transfers : turn[s] # 0 /\ turn[s] < turn[t] /\ Over(t) => Settled(s)
    /\ \A s, t \in Transfers : Current(s) /\ Current(t) => s = t
    /\ disposed => Pending = {}

InControl(o) == \E i \in DOMAIN control : control[i] = o
Busy(o) == InControl(o) \/ handling.op = o
Answered(o) == \E i \in DOMAIN answers : answers[i].op = o
Live == process = "running"

\* What the helper has to do, and has done, is something it was asked; as long as
\* it runs that is at most one transfer, and this one is the transfer that runs.
HelperFollows ==
    /\ \A o \in Operations : Busy(o) \/ Answered(o) => Over(o)
    /\ handling.phase = "idle" => handling = Idle
    /\ Live => \A i, j \in DOMAIN control :
          control[i] \in Transfers /\ control[j] \in Transfers => i = j
    /\ Live => \A t \in Transfers : handling.op \in Transfers => ~InControl(t)
    /\ Live /\ ~disposed =>
          \A t \in Transfers : Busy(t) => stage[t] = "active"
    /\ Live /\ ~disposed =>
          \A s, t \in Transfers : Answered(s) /\ Busy(t) => s # t
    /\ Live => \A d \in Downloads : stage[d] = "tail" => \A t \in Transfers : ~Busy(t)

\* The bytes on the upload pipe belong to the upload that the helper has to do.
UploadBytes ==
    /\ \A u \in Uploads : sent[u] <= BodyBytes
    /\ Live => \A i \in DOMAIN uploadPipe : Busy(uploadPipe[i])
    /\ Live => \A u \in Uploads : InControl(u) => Len(uploadPipe) <= sent[u]
    /\ Live /\ handling.op \in Uploads =>
          handling.moved + Len(uploadPipe) <= sent[handling.op]
    /\ Live => \A u \in Uploads : stage[u] = "active" => Busy(u) \/ sent[u] = BodyBytes
    /\ handling.phase = "copying" =>
          /\ Len(handling.copied) = handling.moved
          /\ \A i \in DOMAIN handling.copied : handling.copied[i] = handling.op
    /\ \A u \in Uploads : committed[u] \in {<<>>, Body(u, BodyBytes)}
    /\ \A i \in DOMAIN answers :
          answers[i].ok /\ answers[i].op \in Uploads => committed[answers[i].op] # <<>>
    /\ \A u \in Uploads : stage[u] = "ok" => committed[u] # <<>>

Carried(d) == Len(received[d]) + Len(downloadPipe)
OnlyOwn(d) ==
    /\ \A i \in DOMAIN received[d] : received[d][i] = d
    /\ \A i \in DOMAIN downloadPipe : downloadPipe[i] = d

\* The bytes of the download that runs are in its target or in the pipe, as many
\* as the helper wrote; without a download the pipe is empty.
DownloadBytes ==
    /\ Live /\ ~disposed => (downloadPipe # <<>> => \E d \in Downloads : Current(d))
    /\ \A d \in Downloads : stage[d] \in {"idle", "queued"} => received[d] = <<>>
    /\ Live => \A d \in Downloads : stage[d] = "active" =>
          /\ OnlyOwn(d)
          /\ InControl(d) => Carried(d) = 0
          /\ handling.op = d => Carried(d) = handling.moved
          /\ \A i \in DOMAIN answers :
                answers[i].op = d /\ ~answers[i].ok => Carried(d) = 0
    /\ \A d \in Downloads : stage[d] = "active" =>
          \A i \in DOMAIN answers : answers[i].op = d /\ answers[i].ok =>
             OnlyOwn(d) /\ Carried(d) = answers[i].bytes
    /\ \A d \in Downloads : stage[d] = "tail" => OnlyOwn(d) /\ Carried(d) = expected[d]
    /\ DownloadsIntact

\* Success is answered by the helper alone.
Truthful ==
    /\ \A i \in DOMAIN answers : answers[i].ok => answers[i].op \in served
    /\ \A o \in Operations : stage[o] \in {"ok", "tail"} => o \in served

PipeInv == PipeTypeOK /\ LaneInOrder /\ HelperFollows /\ UploadBytes /\ DownloadBytes /\ Truthful
-----------------------------------------------------------------------------
(* Sequences *)

LEMMA Appended ==
    ASSUME NEW S, NEW q \in Seq(S), NEW x \in S
    PROVE  /\ Append(q, x) \in Seq(S)
           /\ Len(Append(q, x)) = Len(q) + 1
           /\ DOMAIN Append(q, x) = 1..Len(q) + 1
           /\ DOMAIN q = 1..Len(q)
           /\ Len(q) \in Nat
           /\ \A i \in DOMAIN q : q[i] \in S /\ Append(q, x)[i] = q[i]
           /\ Append(q, x)[Len(q) + 1] = x
           /\ \A i \in DOMAIN Append(q, x) : i \in DOMAIN q \/ i = Len(q) + 1
BY AppendProperties, LenProperties, ElementOfSeq

LEMMA Taken ==
    ASSUME NEW S, NEW q \in Seq(S), q # <<>>
    PROVE  /\ Tail(q) \in Seq(S)
           /\ Len(q) \in Nat \ {0}
           /\ Len(Tail(q)) = Len(q) - 1
           /\ 1 \in DOMAIN q
           /\ Head(q) = q[1]
           /\ Head(q) \in S
           /\ \A i \in DOMAIN Tail(q) : i + 1 \in DOMAIN q /\ Tail(q)[i] = q[i + 1]
           /\ \A i \in DOMAIN q : i = 1 \/ (i - 1 \in DOMAIN Tail(q) /\ Tail(q)[i - 1] = q[i])
<1>1. /\ Head(q) \in S /\ Tail(q) \in Seq(S) /\ Len(Tail(q)) = Len(q) - 1
      /\ \A i \in 1..Len(Tail(q)) : Tail(q)[i] = q[i + 1]
    BY HeadTailProperties
<1>2. Len(q) \in Nat \ {0} /\ DOMAIN q = 1..Len(q)
    BY EmptySeq, LenProperties
<1>3. DOMAIN Tail(q) = 1..Len(q) - 1
    BY <1>1, LenProperties
<1>4. Head(q) = q[1]
    OBVIOUS
<1>5. QED
    BY <1>1, <1>2, <1>3, <1>4

-----------------------------------------------------------------------------
(* Types *)



LEMMA SettleType ==
    ASSUME stage \in [Operations -> Stages], NEW C, NEW r \in {"ok", "failed"}, Settle(C, r)
    PROVE  stage' \in [Operations -> Stages]
BY DEF Settle, Stages

LEMMA SendCases ==
    ASSUME NEW o, Send(o)
    PROVE  \/ Settle({o}, "failed") /\ control' = control
           \/ ~disposed /\ stage' = [stage EXCEPT ![o] = "active"] /\ control' = Append(control, o)
BY DEF Send

LEMMA SendType ==
    ASSUME PipeTypeOK, NEW o \in Operations, Send(o)
    PROVE  stage' \in [Operations -> Stages] /\ control' \in Seq(Operations)
<1>1. CASE Settle({o}, "failed") /\ control' = control
    BY <1>1, SettleType DEF PipeTypeOK
<1>2. CASE stage' = [stage EXCEPT ![o] = "active"] /\ control' = Append(control, o)
    BY <1>2, Appended DEF PipeTypeOK, Stages
<1>3. QED
    BY <1>1, <1>2, SendCases

LEMMA ResolveCases ==
    ASSUME NEW o, NEW n, Resolve(o, n)
    PROVE  \/ /\ o \in Downloads /\ Len(received[o]) < n
              /\ stage' = [stage EXCEPT ![o] = "tail"] /\ expected' = [expected EXCEPT ![o] = n]
           \/ /\ o \in Downloads /\ ~(Len(received[o]) < n)
              /\ Settle({o}, "ok") /\ expected' = [expected EXCEPT ![o] = n]
           \/ o \notin Downloads /\ Settle({o}, "ok") /\ expected' = expected
BY DEF Resolve

LEMMA ResolveType ==
    ASSUME PipeTypeOK, NEW o \in Operations, NEW n \in Nat, Resolve(o, n)
    PROVE  stage' \in [Operations -> Stages] /\ expected' \in [Downloads -> Nat]
<1>1. stage \in [Operations -> Stages] /\ expected \in [Downloads -> Nat]
    BY DEF PipeTypeOK
<1>2. CASE stage' = [stage EXCEPT ![o] = "tail"]
    BY <1>1, <1>2, ResolveCases DEF Stages
<1>3. CASE Settle({o}, "ok")
    BY <1>1, <1>3, SettleType, ResolveCases
<1>4. QED
    BY <1>2, <1>3, ResolveCases

\* What an answer does, but for the process.
Answers(o, ok, n) ==
    /\ answers' = Append(answers, [op |-> o, ok |-> ok, bytes |-> n])
    /\ handling' = Idle
    /\ served' = IF ok THEN served \union {o} ELSE served
    /\ desynced' \in BOOLEAN
    /\ process' \in {process, "ended"}

LEMMA IdleHandled == Idle \in Handled /\ Idle.op = NoOp /\ Idle.phase = "idle"
BY EmptySeq DEF Idle, Handled, Phases

\* What each action of the helper that answers does.
LEMMA TakeCases ==
    ASSUME PipeTypeOK, Take
    PROVE  /\ Live /\ handling.phase = "idle" /\ control # <<>> /\ control' = Tail(control)
           /\ \/ Head(control) \notin Uploads /\ Answers(Head(control), FALSE, 0)
              \/ Head(control) \in Requests /\ Answers(Head(control), TRUE, 0)
              \/ Head(control) \in Uploads /\ (Start("copying") \/ Start("discarding"))
              \/ Head(control) \in Downloads /\ Start("sending")
           /\ UNCHANGED <<clientVars, uploadPipe, downloadPipe, committed>>
BY DEF Take, Reply, Answers, Handling, Live, PipeTypeOK

LEMMA RenameCases ==
    ASSUME PipeTypeOK, Rename
    PROVE  /\ Live /\ handling.phase = "copying" /\ handling.moved = BodyBytes
           /\ \/ /\ committed' = [committed EXCEPT ![handling.op] = handling.copied]
                 /\ Answers(handling.op, TRUE, BodyBytes)
              \/ committed' = committed /\ Answers(handling.op, FALSE, 0)
           /\ UNCHANGED <<clientVars, control, uploadPipe, downloadPipe>>
BY DEF Rename, Reply, Answers, Handling, Live, PipeTypeOK

LEMMA DiscardedCases ==
    ASSUME PipeTypeOK, Discarded
    PROVE  /\ Live /\ handling.phase = "discarding" /\ Answers(handling.op, FALSE, 0)
           /\ Live' => handling.moved >= BodyBytes
           /\ UNCHANGED <<clientVars, control, uploadPipe, downloadPipe, committed>>
<1>1. handling.moved \in Nat /\ BodyBytes \in Nat /\ desynced \in BOOLEAN
    BY PipeAssumption DEF PipeTypeOK, Handled
<1>2. Live /\ handling.phase = "discarding" /\ Answers(handling.op, FALSE, 0)
    BY <1>1 DEF Discarded, Reply, Answers, Handling, Live
<1>3. Live' => ~(handling.moved < BodyBytes)
    BY DEF Discarded, Reply, Live
<1>4. Live' => handling.moved >= BodyBytes
    BY <1>1, <1>3
<1>5. QED
    BY <1>2, <1>4 DEF Discarded

LEMMA ReadCases ==
    ASSUME PipeTypeOK, ReadFails \/ ReadEnds
    PROVE  /\ Live /\ handling.phase = "sending"
           /\ \/ Answers(handling.op, FALSE, 0) /\ (Live' => handling.moved = 0)
              \/ Answers(handling.op, TRUE, handling.moved)
           /\ UNCHANGED <<clientVars, control, uploadPipe, downloadPipe, committed>>
<1>1. handling.moved \in Nat /\ desynced \in BOOLEAN
    BY DEF PipeTypeOK, Handled
<1>2. Live /\ handling.phase = "sending"
    BY DEF ReadFails, ReadEnds, Handling, Live
<1>3. CASE ReadFails
  <2>1. Answers(handling.op, FALSE, 0)
    BY <1>1, <1>3 DEF ReadFails, Reply, Answers
  <2>2. Live' => ~(handling.moved > 0)
    BY <1>3 DEF ReadFails, Reply, Live
  <2>3. Live' => handling.moved = 0
    BY <1>1, <2>2
  <2>4. QED
    BY <1>2, <1>3, <2>1, <2>3 DEF ReadFails
<1>4. CASE ReadEnds
    BY <1>1, <1>2, <1>4 DEF ReadEnds, Reply, Answers, Live
<1>5. QED
    BY <1>3, <1>4

LEMMA AnswersType ==
    ASSUME PipeTypeOK, NEW o \in Operations, NEW ok \in BOOLEAN, NEW n \in Nat, Answers(o, ok, n)
    PROVE  /\ answers' \in Seq(Answer) /\ served' \in SUBSET Operations
           /\ handling' \in Handled /\ handling'.phase = "idle" /\ desynced' \in BOOLEAN
           /\ process' \in {"running", "ended"}
<1>1. [op |-> o, ok |-> ok, bytes |-> n] \in Answer
    BY DEF Answer
<1>2. QED
    BY <1>1, IdleHandled, Appended DEF Answers, PipeTypeOK

LEMMA StartType ==
    ASSUME PipeTypeOK, control # <<>>, NEW ph \in Phases, Start(ph)
    PROVE  /\ handling' = [op |-> Head(control), phase |-> ph, copied |-> <<>>, moved |-> 0]
           /\ handling' \in Handled /\ handling'.op = Head(control) /\ handling'.phase = ph
BY Taken, EmptySeq DEF Start, PipeTypeOK, Idle, Handled

LEMMA ClientType ==
    ASSUME PipeTypeOK, Client
    PROVE  PipeTypeOK'
<1> USE DEF PipeTypeOK, Operations, Transfers
<1>1. ASSUME NEW r \in Requests, CallRequest(r) PROVE PipeTypeOK'
    BY <1>1, SendType DEF CallRequest, helperVars, lane
<1>2. ASSUME NEW t \in Transfers, CallTransfer(t) PROVE PipeTypeOK'
    BY <1>2 DEF CallTransfer, helperVars, pipes, Stages
<1>3. ASSUME NEW t \in Transfers, Begin(t) PROVE PipeTypeOK'
    BY <1>3, SendType DEF Begin, helperVars, lane
<1>4. ASSUME NEW u \in Uploads, SendByte(u) PROVE PipeTypeOK'
    BY <1>4, Appended DEF SendByte, helperVars, lane
<1>5. ASSUME NEW d \in Downloads, ReceiveByte(d) PROVE PipeTypeOK'
  <2>1. downloadPipe' \in Seq(Downloads) /\ received' \in [Downloads -> Seq(Downloads)]
    BY <1>5, Taken, Appended DEF ReceiveByte
  <2>2. stage' \in [Operations -> Stages]
    BY <1>5, SettleType DEF ReceiveByte
  <2>3. QED
    BY <1>5, <2>1, <2>2 DEF ReceiveByte, helperVars, lane
<1>6. CASE HandleLine
  <2>1. answers' \in Seq(Answer) /\ Head(answers) \in Answer
    BY <1>6, Taken DEF HandleLine
  <2>2. stage' \in [Operations -> Stages] /\ expected' \in [Downloads -> Nat]
    BY <1>6, <2>1, SettleType, ResolveType DEF HandleLine, Answer
  <2>3. QED
    BY <1>6, <2>1, <2>2 DEF HandleLine, helperVars, lane
<1>7. ASSUME NEW o \in Operations, Abort(o) PROVE PipeTypeOK'
    BY <1>7, SettleType DEF Abort, AbortRequest, AbortTransfer, helperVars, pipes, lane
<1>8. CASE Dispose \/ StreamError \/ ChildCloses
    BY <1>8, SettleType DEF Dispose, StreamError, ChildCloses, helperVars, pipes, lane
<1>9. QED
    BY <1>1, <1>2, <1>3, <1>4, <1>5, <1>6, <1>7, <1>8 DEF Client

\* A step of the helper inside a transfer.
LEMMA CopyType ==
    ASSUME PipeTypeOK, CopyByte \/ CopyFails \/ DiscardByte \/ WriteByte
    PROVE  PipeTypeOK'
<1>1. uploadPipe' \in Seq(Uploads)
  <2>1. CASE uploadPipe' = uploadPipe
    BY <2>1 DEF PipeTypeOK
  <2>2. CASE uploadPipe # <<>> /\ uploadPipe' = Tail(uploadPipe)
    BY <2>2, Taken DEF PipeTypeOK
  <2>3. QED
    BY <2>1, <2>2 DEF CopyByte, CopyFails, DiscardByte, WriteByte
<1>2. downloadPipe' \in Seq(Downloads)
  <2>1. CASE WriteByte
    BY <2>1, Appended DEF WriteByte, Handling, PipeTypeOK
  <2>2. CASE CopyByte \/ CopyFails \/ DiscardByte
    BY <2>2 DEF CopyByte, CopyFails, DiscardByte, PipeTypeOK
  <2>3. QED
    BY <2>1, <2>2
<1>3. /\ handling' \in Handled /\ handling'.op = handling.op
      /\ \/ handling'.phase = handling.phase
         \/ handling.phase = "copying" /\ handling'.phase = "discarding"
  <2>1. CASE CopyByte
    <3>1. Head(uploadPipe) \in Uploads
        BY <2>1, Taken DEF CopyByte, PipeTypeOK
    <3>2. handling.copied \in Seq(Uploads) /\ handling \in Handled
        BY DEF PipeTypeOK, Handled
    <3>3. Append(handling.copied, Head(uploadPipe)) \in Seq(Uploads)
        BY <3>1, <3>2, Appended
    <3>4. /\ handling' = [op |-> handling.op, phase |-> "copying",
                          copied |-> Append(handling.copied, Head(uploadPipe)), moved |-> handling.moved + 1]
          /\ handling.phase = "copying"
        BY <2>1 DEF CopyByte, Handling
    <3>5. /\ handling.op \in Operations \union {NoOp} /\ handling.moved + 1 \in Nat
          /\ "copying" \in Phases
        BY <3>2 DEF Handled, Phases
    <3>6. handling' \in Handled
        BY <3>3, <3>4, <3>5 DEF Handled
    <3>7. QED
        BY <3>4, <3>6
  <2>2. CASE CopyFails \/ DiscardByte \/ WriteByte
    <3>1. handling \in Handled
        BY DEF PipeTypeOK
    <3>2. \/ handling' = [handling EXCEPT !.moved = @ + 1]
          \/ handling.phase = "copying" /\ handling' = [handling EXCEPT !.phase = "discarding"]
        BY <2>2 DEF CopyFails, DiscardByte, WriteByte, Handling
    <3>3. CASE handling' = [handling EXCEPT !.moved = @ + 1]
      <4>1. handling' \in Handled
        BY <3>1, <3>3 DEF Handled
      <4>2. handling'.op = handling.op /\ handling'.phase = handling.phase
        BY <3>1, <3>3 DEF Handled
      <4>3. QED
        BY <4>1, <4>2
    <3>4. CASE handling.phase = "copying" /\ handling' = [handling EXCEPT !.phase = "discarding"]
        BY <3>1, <3>4 DEF Handled, Phases
    <3>5. QED
        BY <3>2, <3>3, <3>4
  <2>3. QED
    BY <2>1, <2>2
<1>4. QED
    BY <1>1, <1>2, <1>3 DEF CopyByte, CopyFails, DiscardByte, WriteByte, clientVars, lane, PipeTypeOK

LEMMA HelperType ==
    ASSUME PipeTypeOK, Helper
    PROVE  PipeTypeOK'
<1>1. CASE Take
  <2>1. control' \in Seq(Operations) /\ Head(control) \in Operations /\ control # <<>>
    BY <1>1, Taken DEF Take, PipeTypeOK
  <2>2. ASSUME NEW ok \in BOOLEAN, Answers(Head(control), ok, 0)
        PROVE  PipeTypeOK'
    <3>1. /\ answers' \in Seq(Answer) /\ served' \in SUBSET Operations
          /\ handling' \in Handled /\ handling'.phase = "idle" /\ desynced' \in BOOLEAN
          /\ process' \in {"running", "ended"}
        BY <2>1, <2>2, AnswersType
    <3>2. QED
        BY <1>1, <2>1, <3>1, TakeCases DEF clientVars, lane, PipeTypeOK
  <2>3. ASSUME NEW ph \in {"copying", "discarding"}, Start(ph), Head(control) \in Uploads
        PROVE  PipeTypeOK'
    BY <1>1, <2>1, <2>3, StartType DEF Take, clientVars, lane, Start, Phases, PipeTypeOK
  <2>4. ASSUME Start("sending"), Head(control) \in Downloads
        PROVE  PipeTypeOK'
    BY <1>1, <2>1, <2>4, StartType DEF Take, clientVars, lane, Start, Phases, PipeTypeOK
  <2>5. QED
    BY <1>1, <2>2, <2>3, <2>4, TakeCases
<1>2. ASSUME Rename \/ Discarded \/ ReadFails \/ ReadEnds
      PROVE  PipeTypeOK'
  <2>1. /\ handling.op \in Operations /\ handling.moved \in Nat
        /\ handling.copied \in Seq(Uploads) /\ BodyBytes \in Nat
    BY <1>2, PipeAssumption
    DEF Rename, Discarded, ReadFails, ReadEnds, Handling, Handled, PipeTypeOK, Operations, Transfers
  <2>2. \E ok \in BOOLEAN, n \in Nat : Answers(handling.op, ok, n)
    BY <1>2, <2>1, RenameCases, DiscardedCases, ReadCases
  <2>3. /\ answers' \in Seq(Answer) /\ served' \in SUBSET Operations
        /\ handling' \in Handled /\ handling'.phase = "idle" /\ desynced' \in BOOLEAN
        /\ process' \in {"running", "ended"}
    BY <2>1, <2>2, AnswersType
  <2>4. committed' \in [Uploads -> Seq(Uploads)]
    BY <1>2, <2>1, RenameCases, DiscardedCases, ReadCases DEF PipeTypeOK
  <2>5. UNCHANGED <<clientVars, control, uploadPipe, downloadPipe>>
    BY <1>2, RenameCases, DiscardedCases, ReadCases
  <2>6. QED
    BY <2>3, <2>4, <2>5 DEF clientVars, lane, PipeTypeOK
<1>3. CASE HelperEnds
    BY <1>3 DEF HelperEnds, clientVars, pipes, lane, PipeTypeOK
<1>4. QED
    BY <1>1, <1>2, <1>3, CopyType DEF Helper

LEMMA TypeStep == PipeTypeOK /\ [Next]_vars => PipeTypeOK'
<1>1. ASSUME PipeTypeOK, UNCHANGED vars PROVE PipeTypeOK'
    BY <1>1 DEF vars, clientVars, helperVars, pipes, lane, PipeTypeOK
<1>2. QED
    BY <1>1, ClientType, HelperType DEF Next

-----------------------------------------------------------------------------
(* The lane of transfers *)

\* What the client's actions do to the stages, three kinds of change: calls are
\* settled, a call is sent, an answered download waits for its tail.
Stops(C, r) ==
    /\ C \in SUBSET Operations /\ r \in {"ok", "failed"}
    /\ stage' = [o \in Operations |-> IF o \in C THEN r ELSE stage[o]]
    /\ \A t \in Transfers : t \in C =>
          Current(t) \/ (stage[t] = "queued" /\ (disposed' \/ Released(t)))
    /\ disposed => disposed'
    /\ disposed' => disposed \/ Pending \subseteq C

Starts(o) ==
    /\ o \in Operations /\ ~disposed /\ disposed' = disposed
    /\ stage' = [stage EXCEPT ![o] = "active"]
    /\ o \in Transfers => stage[o] = "queued" /\ Released(o)

Waits(d) ==
    /\ d \in Downloads /\ stage[d] = "active" /\ disposed' = disposed
    /\ stage' = [stage EXCEPT ![d] = "tail"]

LEMMA BeforeReleased ==
    ASSUME PipeTypeOK, LaneInOrder, ~disposed,
           NEW s \in Transfers, NEW t \in Transfers, stage[t] = "queued", Released(t),
           turn[s] # 0, turn[s] < turn[t]
    PROVE  Settled(s)
<1>1. turn[s] \in Nat /\ turn[t] \in 1..transferTail /\ transferTail \in Nat
    BY DEF PipeTypeOK, LaneInOrder
<1>2. turn[t] - 1 \in 1..transferTail
    BY <1>1
<1>3. PICK p \in Transfers : turn[p] = turn[t] - 1
    BY <1>2 DEF LaneInOrder
<1>4. turn[p] # 0 /\ turn[p] + 1 = turn[t]
    BY <1>1, <1>2, <1>3
<1>5. Settled(p)
    BY <1>4 DEF Released, LaneInOrder, Settled
<1>6. turn[s] < turn[p] \/ turn[s] = turn[p]
    BY <1>1, <1>3
<1>7. CASE turn[s] = turn[p]
    BY <1>5, <1>7 DEF LaneInOrder
<1>8. CASE turn[s] < turn[p]
    BY <1>5, <1>8 DEF LaneInOrder, Over
<1>9. QED
    BY <1>6, <1>7, <1>8

LEMMA LaneStops ==
    ASSUME PipeTypeOK, LaneInOrder, NEW C, NEW r, Stops(C, r), UNCHANGED lane
    PROVE  LaneInOrder'
<1>1. ASSUME NEW t \in Transfers
      PROVE  /\ t \in C => stage'[t] = r /\ stage[t] # "idle"
             /\ t \notin C => stage'[t] = stage[t]
             /\ turn'[t] = turn[t]
    BY DEF Stops, Current, Operations, lane
<1>2. transferTail' = transferTail /\ turn' = turn /\ r \in {"ok", "failed"}
    BY DEF lane, Stops
<1>3. \A t \in Transfers : turn'[t] = 0 <=> stage'[t] = "idle"
    BY <1>1, <1>2 DEF LaneInOrder
<1>4. ASSUME ~disposed', NEW s \in Transfers, NEW t \in Transfers,
             turn[s] # 0, turn[s] < turn[t], Over(t)'
      PROVE  Settled(s)'
  <2>1. ~disposed
    BY <1>4 DEF Stops
  <2>2. Settled(s)
    <3>1. CASE t \notin C
        BY <1>1, <1>4, <2>1, <3>1 DEF LaneInOrder, Over, Current, Settled
    <3>2. CASE Current(t)
        BY <1>4, <2>1, <3>2 DEF LaneInOrder, Over
    <3>3. CASE stage[t] = "queued" /\ Released(t)
        BY <1>4, <2>1, <3>3, BeforeReleased
    <3>4. QED
        BY <1>4, <3>1, <3>2, <3>3 DEF Stops
  <2>3. QED
    BY <1>1, <1>2, <2>2 DEF Settled
<1>5. ASSUME NEW t \in Transfers, Current(t)' PROVE Current(t)
    BY <1>1, <1>2, <1>5 DEF Current
<1>6. disposed' => Pending' = {}
    BY DEF Stops, Pending, LaneInOrder
<1>7. QED
    BY <1>2, <1>3, <1>4, <1>5, <1>6 DEF LaneInOrder

LEMMA LaneStarts ==
    ASSUME PipeTypeOK, LaneInOrder, NEW o, Starts(o), UNCHANGED lane
    PROVE  LaneInOrder'
<1>1. ASSUME NEW t \in Transfers
      PROVE  stage'[t] = IF t = o THEN "active" ELSE stage[t]
    BY DEF Starts, PipeTypeOK, Operations
<1>2. transferTail' = transferTail /\ turn' = turn /\ ~disposed /\ ~disposed'
    BY DEF lane, Starts
<1>3. \A t \in Transfers : turn'[t] = 0 <=> stage'[t] = "idle"
    BY <1>1, <1>2 DEF LaneInOrder, Starts
<1>4. ASSUME NEW s \in Transfers, NEW t \in Transfers, turn[s] # 0, turn[s] < turn[t], Over(t)'
      PROVE  Settled(s)'
  <2>1. Settled(s)
    <3>1. CASE t = o
        BY <1>2, <1>4, <3>1, BeforeReleased DEF Starts
    <3>2. CASE t # o
        BY <1>1, <1>2, <1>4, <3>2 DEF LaneInOrder, Over, Current, Settled
    <3>3. QED
        BY <3>1, <3>2
  <2>2. s # o
    BY <2>1 DEF Starts, Settled
  <2>3. QED
    BY <1>1, <2>1, <2>2 DEF Settled
<1>5. ASSUME NEW s \in Transfers, NEW t \in Transfers, Current(s)', Current(t)' PROVE s = t
  <2>1. ASSUME NEW x \in Transfers, x # o, o \in Transfers, Current(x) PROVE FALSE
    <3>1. turn[x] # 0 /\ turn[o] # 0 /\ turn[x] # turn[o] /\ turn[x] \in Nat /\ turn[o] \in Nat
        BY <2>1 DEF Starts, LaneInOrder, Current, PipeTypeOK
    <3>2. CASE turn[x] < turn[o]
        BY <1>2, <2>1, <3>1, <3>2, BeforeReleased DEF Starts, Settled, Current
    <3>3. CASE turn[o] < turn[x]
        BY <1>2, <2>1, <3>1, <3>3 DEF LaneInOrder, Over, Settled, Starts
    <3>4. QED
        BY <3>1, <3>2, <3>3
  <2>2. CASE s # o /\ t # o
    BY <1>1, <1>5, <2>2 DEF LaneInOrder, Current
  <2>3. CASE s = o \/ t = o
    BY <1>1, <1>5, <2>1, <2>3 DEF Current
  <2>4. QED
    BY <2>2, <2>3
<1>6. QED
    BY <1>2, <1>3, <1>4, <1>5 DEF LaneInOrder

LEMMA LaneWaits ==
    ASSUME PipeTypeOK, LaneInOrder, NEW d, Waits(d), UNCHANGED lane
    PROVE  LaneInOrder'
<1>1. ASSUME NEW t \in Transfers
      PROVE  /\ stage'[t] = IF t = d THEN "tail" ELSE stage[t]
             /\ Current(t)' <=> Current(t)
             /\ Settled(t)' <=> Settled(t)
    BY DEF Waits, PipeTypeOK, Operations, Transfers, Current, Settled
<1>2. transferTail' = transferTail /\ turn' = turn /\ disposed' = disposed /\ stage[d] = "active"
    BY DEF lane, Waits
<1>3. \A t \in Transfers : turn'[t] = 0 <=> stage'[t] = "idle"
    BY <1>1, <1>2 DEF LaneInOrder
<1>4. disposed' => Pending' = {}
    BY DEF LaneInOrder, Waits, Pending, Operations, Transfers
<1>5. QED
    BY <1>1, <1>2, <1>3, <1>4 DEF LaneInOrder, Over

LEMMA LaneCalls ==
    ASSUME PipeTypeOK, LaneInOrder, NEW c \in Transfers, CallTransfer(c)
    PROVE  LaneInOrder'
<1>1. transferTail' = transferTail + 1 /\ transferTail \in Nat /\ disposed' = disposed
    BY DEF CallTransfer, PipeTypeOK
<1>2. ASSUME NEW t \in Transfers
      PROVE  /\ stage'[t] = IF t = c THEN "queued" ELSE stage[t]
             /\ turn'[t] = IF t = c THEN transferTail + 1 ELSE turn[t]
             /\ turn[t] \in 0..transferTail
             /\ turn[t] = 0 <=> stage[t] = "idle"
             /\ turn[t] \in Nat
    BY DEF CallTransfer, PipeTypeOK, Operations, LaneInOrder
<1>3. stage[c] = "idle"
    BY DEF CallTransfer
<1>4. \A t \in Transfers : turn'[t] \in 0..transferTail'
    BY <1>1, <1>2
<1>5. \A t \in Transfers : turn'[t] = 0 <=> stage'[t] = "idle"
    BY <1>1, <1>2
<1>6. ASSUME NEW n \in 1..transferTail' PROVE \E t \in Transfers : turn'[t] = n
  <2>1. CASE n = transferTail + 1
    BY <1>2, <2>1
  <2>2. CASE n # transferTail + 1
    <3>1. PICK t \in Transfers : turn[t] = n
        BY <1>1, <2>2 DEF LaneInOrder
    <3>2. t # c
        BY <1>1, <1>2, <1>3, <3>1
    <3>3. QED
        BY <1>2, <3>1, <3>2
  <2>3. QED
    BY <2>1, <2>2
<1>7. ASSUME NEW s \in Transfers, NEW t \in Transfers, turn'[s] = turn'[t], turn'[s] # 0 PROVE s = t
    BY <1>1, <1>2, <1>7 DEF LaneInOrder
<1>8. ASSUME ~disposed', NEW s \in Transfers, NEW t \in Transfers,
             turn'[s] # 0, turn'[s] < turn'[t], Over(t)'
      PROVE  Settled(s)'
  <2>1. t # c
    BY <1>2, <1>8 DEF Over, Current, Settled
  <2>2. s # c /\ Over(t)
    BY <1>1, <1>2, <1>8, <2>1 DEF Over, Current, Settled
  <2>3. Settled(s)
    BY <1>1, <1>2, <1>8, <2>1, <2>2 DEF LaneInOrder
  <2>4. QED
    BY <1>2, <2>2, <2>3 DEF Settled
<1>9. \A t \in Transfers : Current(t)' => Current(t)
    BY <1>2 DEF Current
<1>10. disposed' => Pending' = {}
    BY DEF LaneInOrder, CallTransfer, Pending, PipeTypeOK
<1>11. QED
    BY <1>4, <1>5, <1>6, <1>7, <1>8, <1>9, <1>10 DEF LaneInOrder

\* The actions of the client as changes of these kinds.
LEMMA CallCases ==
    ASSUME PipeTypeOK, NEW o \in Operations,
           (o \in Requests /\ CallRequest(o)) \/ (o \in Transfers /\ Begin(o))
    PROVE  /\ \/ Stops({o}, "failed") /\ control' = control
              \/ Starts(o) /\ control' = Append(control, o)
           /\ stage[o] \in {"idle", "queued"}
           /\ disposed' = disposed
           /\ UNCHANGED <<lane, received, expected, sent, answers, uploadPipe, downloadPipe, helperVars>>
<1>1. /\ Send(o) /\ stage[o] \in {"idle", "queued"} /\ disposed' = disposed
      /\ o \in Transfers => stage[o] = "queued" /\ Released(o)
      /\ UNCHANGED <<lane, received, expected, sent, answers, uploadPipe, downloadPipe, helperVars>>
    BY PipeAssumption DEF CallRequest, Begin
<1>2. CASE Settle({o}, "failed") /\ control' = control
    BY <1>1, <1>2 DEF Settle, Stops
<1>3. CASE ~disposed /\ stage' = [stage EXCEPT ![o] = "active"] /\ control' = Append(control, o)
    BY <1>1, <1>3 DEF Starts
<1>4. QED
    BY <1>1, <1>2, <1>3, SendCases

LEMMA ReceiveCases ==
    ASSUME NEW d \in Downloads, ReceiveByte(d)
    PROVE  /\ \/ /\ stage[d] = "tail" /\ Len(received'[d]) >= expected[d] /\ Stops({d}, "ok")
              \/ /\ ~(stage[d] = "tail" /\ Len(received'[d]) >= expected[d]) /\ stage' = stage
           /\ Current(d) /\ disposed' = disposed
BY DEF ReceiveByte, Settle, Stops, Current, Operations, Transfers

LEMMA LineCases ==
    ASSUME PipeTypeOK, HandleLine
    PROVE  /\ answers # <<>> /\ answers' = Tail(answers) /\ Head(answers) \in Answer
           /\ LET o == Head(answers).op  n == Head(answers).bytes IN
                 \/ stage[o] # "active" /\ stage' = stage /\ expected' = expected
                 \/ stage[o] = "active" /\ ~Head(answers).ok /\ Stops({o}, "failed") /\ expected' = expected
                 \/ /\ stage[o] = "active" /\ Head(answers).ok /\ o \notin Downloads
                    /\ Stops({o}, "ok") /\ expected' = expected
                 \/ /\ stage[o] = "active" /\ Head(answers).ok /\ o \in Downloads
                    /\ expected' = [expected EXCEPT ![o] = n]
                    /\ \/ Len(received[o]) < n /\ Waits(o)
                       \/ ~(Len(received[o]) < n) /\ Stops({o}, "ok")
           /\ disposed' = disposed
           /\ UNCHANGED <<lane, received, sent, control, uploadPipe, downloadPipe, helperVars>>
<1>1. /\ answers # <<>> /\ answers' = Tail(answers) /\ disposed' = disposed
      /\ UNCHANGED <<lane, received, sent, control, uploadPipe, downloadPipe, helperVars>>
    BY DEF HandleLine
<1>2. Head(answers) \in Answer
    BY <1>1, Taken DEF PipeTypeOK
<1> DEFINE o == Head(answers).op
           n == Head(answers).bytes
<1>3. o \in Operations /\ n \in Nat /\ Head(answers).ok \in BOOLEAN
    BY <1>2 DEF Answer
<1>4. o \in Pending <=> stage[o] = "active"
    BY <1>3 DEF Pending
<1>5. CASE o \notin Pending
    BY <1>1, <1>2, <1>4, <1>5 DEF HandleLine
<1>6. CASE o \in Pending /\ ~Head(answers).ok
  <2>1. Settle({o}, "failed") /\ expected' = expected
    BY <1>6 DEF HandleLine
  <2>2. Stops({o}, "failed")
    BY <1>1, <1>3, <1>4, <1>6, <2>1 DEF Stops, Settle, Current
  <2>3. QED
    BY <1>1, <1>2, <1>4, <1>6, <2>1, <2>2
<1>7. CASE o \in Pending /\ Head(answers).ok
  <2>1. Resolve(o, n)
    BY <1>7 DEF HandleLine
  <2>2. Settle({o}, "ok") => Stops({o}, "ok")
    BY <1>1, <1>3, <1>4, <1>7 DEF Stops, Settle, Current
  <2>3. o \in Downloads /\ stage' = [stage EXCEPT ![o] = "tail"] => Waits(o)
    BY <1>1, <1>4, <1>7 DEF Waits
  <2>4. QED
    BY <1>1, <1>2, <1>4, <1>7, <2>1, <2>2, <2>3, ResolveCases
<1>8. QED
    BY <1>3, <1>5, <1>6, <1>7

\* Calls that are given up.  A transfer is given up only with the helper, or when
\* it has ended.
LEMMA GiveUpCases ==
    ASSUME PipeTypeOK,
           (\E o \in Operations : Abort(o)) \/ Dispose \/ StreamError \/ ChildCloses
    PROVE  /\ \E C : /\ Stops(C, "failed")
                     /\ disposed' \/ process = "ended" \/ (\A t \in Transfers : t \notin C)
           /\ UNCHANGED <<lane, received, expected, sent, pipes, helperVars>>
<1>1. ASSUME NEW r \in Requests, AbortRequest(r)
      PROVE  Stops({r}, "failed") /\ (\A t \in Transfers : t \notin {r})
    BY <1>1, PipeAssumption DEF AbortRequest, Settle, Stops, Operations
<1>2. ASSUME NEW t \in Transfers, AbortTransfer(t)
      PROVE  Stops(Pending \union {t}, "failed") /\ disposed'
    BY <1>2 DEF AbortTransfer, Settle, Stops, Operations, Pending, Current
<1>3. ASSUME Dispose \/ StreamError \/ ChildCloses
      PROVE  Stops(Pending, "failed") /\ (disposed' \/ process = "ended")
    BY <1>3 DEF Dispose, StreamError, ChildCloses, Settle, Stops, Pending, Current
<1>4. UNCHANGED <<lane, received, expected, sent, pipes, helperVars>>
    BY DEF Abort, AbortRequest, AbortTransfer, Dispose, StreamError, ChildCloses
<1>5. QED
    BY <1>1, <1>2, <1>3, <1>4 DEF Abort

LEMMA LaneStep == PipeTypeOK /\ LaneInOrder /\ [Next]_vars => LaneInOrder'
<1> SUFFICES ASSUME PipeTypeOK, LaneInOrder, [Next]_vars PROVE LaneInOrder'
    OBVIOUS
<1>1. ASSUME UNCHANGED clientVars PROVE LaneInOrder'
    BY <1>1 DEF clientVars, lane, LaneInOrder, Over, Current, Settled, Pending
<1>2. ASSUME UNCHANGED <<stage, lane, disposed>> PROVE LaneInOrder'
    BY <1>2 DEF lane, LaneInOrder, Over, Current, Settled, Pending
<1>3. ASSUME NEW r \in Requests, CallRequest(r) PROVE LaneInOrder'
    BY <1>3, CallCases, LaneStops, LaneStarts DEF Operations
<1>4. ASSUME NEW t \in Transfers, Begin(t) PROVE LaneInOrder'
    BY <1>4, CallCases, LaneStops, LaneStarts DEF Operations
<1>5. ASSUME NEW u \in Uploads, SendByte(u) PROVE LaneInOrder'
    BY <1>2, <1>5 DEF SendByte
<1>6. ASSUME NEW d \in Downloads, ReceiveByte(d) PROVE LaneInOrder'
  <2>1. UNCHANGED <<lane, disposed>>
    BY <1>6 DEF ReceiveByte
  <2>2. QED
    BY <1>2, <1>6, <2>1, ReceiveCases, LaneStops
<1>7. CASE HandleLine
  <2>1. UNCHANGED <<lane, disposed>>
    BY <1>7 DEF HandleLine
  <2>2. QED
    BY <1>2, <1>7, <2>1, LineCases, LaneStops, LaneWaits
<1>8. ASSUME (\E o \in Operations : Abort(o)) \/ Dispose \/ StreamError \/ ChildCloses PROVE LaneInOrder'
    BY <1>8, GiveUpCases, LaneStops
<1>9. CASE Helper
  <2>1. UNCHANGED clientVars
    BY <1>9 DEF Helper, Take, CopyByte, CopyFails, Rename, DiscardByte, Discarded, WriteByte,
                ReadFails, ReadEnds, HelperEnds
  <2>2. QED
    BY <1>1, <2>1
<1>10. CASE UNCHANGED vars
    BY <1>1, <1>10 DEF vars
<1>11. QED
    BY <1>3, <1>4, <1>5, <1>6, <1>7, <1>8, <1>9, <1>10, LaneCalls DEF Next, Client

-----------------------------------------------------------------------------
(* The helper has at most the transfer that runs *)

LEMMA TailMembers ==
    ASSUME NEW S, NEW q \in Seq(S), q # <<>>,
           NEW i \in DOMAIN Tail(q)
    PROVE  i \in Nat \ {0} /\ i + 1 \in DOMAIN q /\ Tail(q)[i] = q[i + 1]
<1>1. Tail(q) \in Seq(S)
    BY Taken
<1>2. i \in Nat \ {0}
    BY <1>1, LenProperties
<1>3. QED
    BY <1>2, Taken

\* Settled calls, and an answered download, stay over.
LEMMA FollowsClient ==
    ASSUME PipeTypeOK, HelperFollows, LaneInOrder,
           UNCHANGED <<control, handling, process>>,
           \A o \in Operations : Answered(o)' => Answered(o),
           \/ \E C, r : /\ Stops(C, r)
                        /\ disposed' \/ ~Live \/ (\A t \in Transfers : t \in C => ~Busy(t))
           \/ \E d : Waits(d) /\ (Live => \A t \in Transfers : ~Busy(t))
           \/ \E c \in Transfers : CallTransfer(c)
           \/ UNCHANGED <<stage, disposed>>
    PROVE  HelperFollows'
<1>1. \A o \in Operations : (Busy(o)' <=> Busy(o)) /\ (InControl(o)' <=> InControl(o))
    BY DEF Busy, InControl
<1>2. Live' <=> Live
    BY DEF Live
<1>3. \A o \in Operations : Over(o) => Over(o)'
    BY DEF Over, Current, Settled, Stops, Waits, CallTransfer, PipeTypeOK
<1>4. disposed => disposed'
    BY DEF Stops, Waits, CallTransfer
<1>5. ASSUME Live, ~disposed', NEW t \in Transfers, Busy(t)
      PROVE  stage'[t] = "active"
  <2>1. stage[t] = "active"
    BY <1>4, <1>5 DEF HelperFollows
  <2>2. t \in Operations
    BY DEF Operations
  <2>3. QED
    BY <1>5, <2>1, <2>2 DEF Stops, Waits, CallTransfer, PipeTypeOK
<1>6. ASSUME Live, NEW d \in Downloads, stage'[d] = "tail", NEW t \in Transfers, Busy(t)
      PROVE  FALSE
  <2>1. d \in Operations
    BY DEF Operations, Transfers
  <2>2. CASE stage[d] = "tail"
    BY <1>6, <2>2 DEF HelperFollows
  <2>3. CASE stage[d] # "tail"
    BY <1>6, <2>1, <2>3 DEF Stops, Waits, CallTransfer, PipeTypeOK
  <2>4. QED
    BY <2>2, <2>3
<1>7. QED
    BY <1>1, <1>2, <1>3, <1>4, <1>5, <1>6 DEF HelperFollows, Operations

\* A call that is sent is the only transfer the helper knows of.
LEMMA FollowsSend ==
    ASSUME PipeTypeOK, HelperFollows, LaneInOrder, LaneInOrder',
           NEW o, Starts(o), control' = Append(control, o), stage[o] \in {"idle", "queued"},
           UNCHANGED <<handling, process, answers>>
    PROVE  /\ HelperFollows'
           /\ Live /\ o \in Transfers => \A t \in Transfers : ~Busy(t)
<1>1. o \in Operations /\ ~disposed /\ ~disposed' /\ stage' = [stage EXCEPT ![o] = "active"]
    BY DEF Starts
<1>2. /\ DOMAIN control' = 1..Len(control) + 1 /\ DOMAIN control = 1..Len(control)
      /\ Len(control) \in Nat
      /\ \A i \in DOMAIN control : control'[i] = control[i]
      /\ control'[Len(control) + 1] = o
    BY <1>1, Appended DEF PipeTypeOK
<1>3. \A x \in Operations : InControl(x)' <=> (InControl(x) \/ x = o)
    BY <1>1, <1>2 DEF InControl
<1>4. \A x \in Operations : Busy(x)' <=> (Busy(x) \/ x = o)
    BY <1>3 DEF Busy
<1>5. \A x \in Operations : stage'[x] = IF x = o THEN "active" ELSE stage[x]
    BY <1>1 DEF PipeTypeOK
<1>6. ~Over(o)
    BY <1>1 DEF Over, Current, Settled
<1>7. (Live' <=> Live) /\ \A x \in Operations : Answered(x)' <=> Answered(x)
    BY DEF Live, Answered
<1>8. ASSUME o \in Transfers, NEW x \in Transfers, Current(x) PROVE FALSE
  <2>1. x # o
    BY <1>6, <1>8 DEF Over
  <2>2. Current(x)' /\ Current(o)'
    BY <1>1, <1>5, <1>8, <2>1 DEF Current, Operations
  <2>3. QED
    BY <1>8, <2>1, <2>2 DEF LaneInOrder
<1>9. Live /\ o \in Transfers => \A t \in Transfers : ~Busy(t)
    BY <1>1, <1>8 DEF HelperFollows, Current
<1>10. \A x \in Operations : Busy(x)' \/ Answered(x)' => Over(x)'
    BY <1>1, <1>4, <1>5, <1>7 DEF HelperFollows, Over, Current, Settled
<1>11. ASSUME Live, NEW i \in DOMAIN control', NEW j \in DOMAIN control',
              control'[i] \in Transfers, control'[j] \in Transfers
       PROVE  i = j
  <2>1. ASSUME NEW k \in DOMAIN control, control[k] \in Transfers, o \in Transfers PROVE FALSE
    BY <1>9, <1>11, <2>1 DEF Busy, InControl
  <2>2. (i \in DOMAIN control \/ i = Len(control) + 1) /\ (j \in DOMAIN control \/ j = Len(control) + 1)
    BY <1>2, <1>11
  <2>3. CASE i \in DOMAIN control /\ j \in DOMAIN control
    BY <1>2, <1>11, <2>3 DEF HelperFollows
  <2>4. CASE i = Len(control) + 1 \/ j = Len(control) + 1
    BY <1>2, <1>11, <2>1, <2>2, <2>4
  <2>5. QED
    BY <2>2, <2>3, <2>4
<1>12. ASSUME Live, NEW t \in Transfers, handling.op \in Transfers PROVE ~InControl(t)'
  <2>1. Busy(handling.op)
    BY DEF Busy
  <2>2. QED
    BY <1>3, <1>9, <1>12, <2>1 DEF HelperFollows, Operations
<1>13. ASSUME Live, NEW t \in Transfers, Busy(t)' PROVE stage'[t] = "active"
    BY <1>1, <1>4, <1>5, <1>13 DEF HelperFollows, Operations
<1>14. ASSUME Live, NEW s \in Transfers, NEW t \in Transfers, Answered(s)', Busy(t)' PROVE s # t
    BY <1>1, <1>4, <1>6, <1>7, <1>14 DEF HelperFollows, Operations
<1>15. ASSUME Live, NEW d \in Downloads, stage'[d] = "tail", NEW t \in Transfers, Busy(t)' PROVE FALSE
  <2>1. d \in Transfers /\ d \in Operations /\ t \in Operations
    BY DEF Transfers, Operations
  <2>2. stage[d] = "tail"
    BY <1>5, <1>15, <2>1
  <2>3. ~Busy(t) /\ Current(d)
    BY <1>15, <2>2 DEF HelperFollows, Current
  <2>4. QED
    BY <1>4, <1>8, <1>15, <2>1, <2>3
<1>16. handling'.phase = "idle" => handling' = Idle
    BY DEF HelperFollows
<1>17. HelperFollows'
    BY <1>7, <1>10, <1>11, <1>12, <1>13, <1>14, <1>15, <1>16 DEF HelperFollows
<1>18. QED
    BY <1>9, <1>17

LEMMA AnswersMembers ==
    ASSUME PipeTypeOK, NEW o \in Operations, NEW ok \in BOOLEAN, NEW n \in Nat, Answers(o, ok, n)
    PROVE  /\ DOMAIN answers' = 1..Len(answers) + 1 /\ DOMAIN answers = 1..Len(answers)
           /\ Len(answers) \in Nat
           /\ \A i \in DOMAIN answers : answers'[i] = answers[i]
           /\ LET a == answers'[Len(answers) + 1] IN a.op = o /\ a.ok = ok /\ a.bytes = n
           /\ \A x : Answered(x)' <=> (Answered(x) \/ x = o)
<1>1. [op |-> o, ok |-> ok, bytes |-> n] \in Answer
    BY DEF Answer
<1>2. /\ DOMAIN answers' = 1..Len(answers) + 1 /\ DOMAIN answers = 1..Len(answers)
      /\ Len(answers) \in Nat
      /\ \A i \in DOMAIN answers : answers'[i] = answers[i]
      /\ answers'[Len(answers) + 1] = [op |-> o, ok |-> ok, bytes |-> n]
    BY <1>1, Appended DEF Answers, PipeTypeOK
<1>3. \A x : Answered(x)' <=> (Answered(x) \/ x = o)
    BY <1>2 DEF Answered
<1>4. QED
    BY <1>2, <1>3

\* The next request leaves the control pipe for the loop, or is answered.
LEMMA FollowsTake ==
    ASSUME PipeTypeOK, HelperFollows, Take
    PROVE  HelperFollows'
<1> DEFINE h == Head(control)
<1>1. /\ control # <<>> /\ control' = Tail(control) /\ Live /\ h \in Operations /\ 1 \in DOMAIN control
      /\ h = control[1]
    BY TakeCases, Taken DEF PipeTypeOK
<1>2. /\ stage' = stage /\ disposed' = disposed
      /\ handling = Idle /\ handling.op = NoOp /\ handling.op \notin Operations
    BY TakeCases, IdleHandled, PipeAssumption DEF clientVars, HelperFollows
<1>3. \A i \in DOMAIN control' : i + 1 \in DOMAIN control /\ control'[i] = control[i + 1] /\ i + 1 # 1
    BY <1>1, TailMembers DEF PipeTypeOK
<1>4. \/ /\ handling' = Idle /\ handling'.op = NoOp
         /\ \A x \in Operations : Answered(x)' <=> (Answered(x) \/ x = h)
      \/ /\ handling'.op = h /\ handling'.phase # "idle"
         /\ \A x \in Operations : Answered(x)' <=> Answered(x)
  <2>1. ASSUME NEW ok \in BOOLEAN, Answers(h, ok, 0)
        PROVE  /\ handling' = Idle /\ handling'.op = NoOp
               /\ \A x \in Operations : Answered(x)' <=> (Answered(x) \/ x = h)
    BY <1>1, <2>1, AnswersMembers, IdleHandled DEF Answers
  <2>2. ASSUME NEW ph \in Phases \ {"idle"}, Start(ph)
        PROVE  /\ handling'.op = h /\ handling'.phase # "idle"
               /\ \A x \in Operations : Answered(x)' <=> Answered(x)
    BY <1>1, <2>2, StartType DEF Start, Answered
  <2>3. {"copying", "discarding", "sending"} \subseteq Phases \ {"idle"}
    BY DEF Phases
  <2>4. QED
    BY <2>1, <2>2, <2>3, TakeCases
<1>5. \A x \in Operations : InControl(x)' => InControl(x)
    BY <1>3 DEF InControl
<1>6. InControl(h)
    BY <1>1 DEF InControl
<1>7. \A x \in Operations : (Busy(x)' \/ Answered(x)') => (Busy(x) \/ Answered(x))
    BY <1>2, <1>4, <1>5, <1>6, PipeAssumption DEF Busy
<1>8. \A x \in Operations : Busy(x)' => Busy(x)
    BY <1>2, <1>4, <1>5, <1>6, PipeAssumption DEF Busy
<1>9. \A t \in Transfers : h \in Transfers => ~InControl(t)'
    BY <1>1, <1>3 DEF InControl, HelperFollows
<1>10. \A i, j \in DOMAIN control' : control'[i] \in Transfers /\ control'[j] \in Transfers => i = j
  <2>1. SUFFICES ASSUME NEW i \in DOMAIN control', NEW j \in DOMAIN control',
                        control'[i] \in Transfers, control'[j] \in Transfers
                 PROVE  i = j
    OBVIOUS
  <2>2. i + 1 = j + 1
    BY <1>1, <1>3, <2>1 DEF HelperFollows
  <2>3. i \in Nat /\ j \in Nat
    BY <1>1, TailMembers DEF PipeTypeOK
  <2>4. QED
    BY <2>2, <2>3
<1>11. \A t \in Transfers : handling'.op \in Transfers => ~InControl(t)'
    BY <1>4, <1>9, PipeAssumption DEF Operations
<1>12. ASSUME ~disposed, NEW s \in Transfers, NEW t \in Transfers, Answered(s)', Busy(t)'
       PROVE  s # t
  <2>1. s \in Operations /\ t \in Operations /\ Busy(t)
    BY <1>8, <1>12 DEF Operations
  <2>2. CASE Answered(s)
    BY <1>1, <1>12, <2>1, <2>2 DEF HelperFollows
  <2>3. CASE ~Answered(s)
    BY <1>4, <1>9, <1>12, <2>1, <2>3, PipeAssumption DEF Busy
  <2>4. QED
    BY <2>2, <2>3
<1>13. \A o \in Operations : Over(o)' <=> Over(o)
    BY <1>2 DEF Over, Current, Settled
<1>14. \A t \in Transfers : t \in Operations
    BY DEF Operations
<1>15. handling'.phase = "idle" => handling' = Idle
    BY <1>4
<1>16. QED
    BY <1>1, <1>2, <1>7, <1>8, <1>10, <1>11, <1>12, <1>13, <1>14, <1>15 DEF HelperFollows

\* The request of the loop is answered.
LEMMA FollowsReply ==
    ASSUME PipeTypeOK, HelperFollows, Live, handling.op \in Operations,
           NEW ok \in BOOLEAN, NEW n \in Nat, Answers(handling.op, ok, n),
           UNCHANGED <<control, stage, disposed>>
    PROVE  HelperFollows'
<1>1. handling' = Idle /\ handling'.op = NoOp /\ NoOp \notin Operations
    BY IdleHandled, PipeAssumption DEF Answers
<1>2. \A x \in Operations : InControl(x)' <=> InControl(x)
    BY DEF InControl
<1>3. \A x \in Operations : Busy(x)' <=> InControl(x)
    BY <1>1, <1>2 DEF Busy
<1>4. \A x \in Operations : Answered(x)' <=> (Answered(x) \/ x = handling.op)
    BY AnswersMembers
<1>5. \A x \in Operations : Busy(x)' \/ Answered(x)' => Busy(x) \/ Answered(x)
    BY <1>3, <1>4 DEF Busy
<1>6. \A x \in Operations : Busy(x)' => Busy(x)
    BY <1>3 DEF Busy
<1>7. \A o \in Operations : Over(o)' <=> Over(o)
    BY DEF Over, Current, Settled
<1>8. \A t \in Transfers : t \in Operations /\ handling'.op # t
    BY <1>1 DEF Operations
<1>9. ASSUME ~disposed, NEW s \in Transfers, NEW t \in Transfers, Answered(s)', Busy(t)'
      PROVE  s # t
    BY <1>3, <1>4, <1>6, <1>8, <1>9 DEF HelperFollows
<1>10. QED
    BY <1>1, <1>2, <1>5, <1>6, <1>7, <1>8, <1>9 DEF HelperFollows, Live

LEMMA FollowsRest ==
    ASSUME PipeTypeOK, HelperFollows, UNCHANGED <<control, stage, disposed, answers>>,
           handling'.op = handling.op, process' \in {process, "ended"},
           handling' = handling \/ handling'.phase # "idle"
    PROVE  HelperFollows'
<1>1. \A o : (Busy(o)' <=> Busy(o)) /\ (InControl(o)' <=> InControl(o)) /\ (Answered(o)' <=> Answered(o))
    BY DEF Busy, InControl, Answered
<1>2. \A o : Over(o)' <=> Over(o)
    BY DEF Over, Current, Settled
<1>3. Live' => Live
    BY DEF Live
<1>4. handling'.phase = "idle" => handling' = Idle
    BY DEF HelperFollows
<1>5. QED
    BY <1>1, <1>2, <1>3, <1>4 DEF HelperFollows

LEMMA TailAnswered ==
    ASSUME PipeTypeOK, answers # <<>>, answers' = Tail(answers)
    PROVE  /\ \A i \in DOMAIN answers' : i + 1 \in DOMAIN answers /\ answers'[i] = answers[i + 1]
           /\ \A o : Answered(o)' => Answered(o)
           /\ Answered(Head(answers).op)
           /\ \E i \in DOMAIN answers : Head(answers) = answers[i]
<1>1. answers \in Seq(Answer)
    BY DEF PipeTypeOK
<1>2. \A i \in DOMAIN answers' : i + 1 \in DOMAIN answers /\ answers'[i] = answers[i + 1]
    BY <1>1, TailMembers
<1>3. 1 \in DOMAIN answers /\ Head(answers) = answers[1]
    BY <1>1, Taken
<1>4. QED
    BY <1>2, <1>3 DEF Answered

\* The answer to a call that is still pending leaves the helper without a transfer,
\* if that call was one.
LEMMA AnsweredNotBusy ==
    ASSUME PipeTypeOK, LaneInOrder, HelperFollows, Live,
           NEW o \in Transfers, Answered(o), stage[o] = "active", NEW t \in Transfers
    PROVE  ~Busy(t)
<1>1. ~disposed
    BY DEF LaneInOrder, Pending, Operations
<1>2. Busy(t) => stage[t] = "active"
    BY <1>1 DEF HelperFollows
<1>3. Busy(t) => t = o
    BY <1>2 DEF LaneInOrder, Current
<1>4. QED
    BY <1>1, <1>3 DEF HelperFollows

LEMMA FollowsStep ==
    ASSUME PipeTypeOK, LaneInOrder, HelperFollows, [Next]_vars
    PROVE  HelperFollows'
<1>1. LaneInOrder'
    BY LaneStep
<1>2. ASSUME UNCHANGED <<control, handling, process, answers>>,
             UNCHANGED <<stage, disposed>>
             \/ (\E C, r : /\ Stops(C, r)
                           /\ disposed' \/ ~Live \/ (\A t \in Transfers : t \in C => ~Busy(t)))
             \/ (\E c \in Transfers : CallTransfer(c))
      PROVE  HelperFollows'
    BY <1>2, FollowsClient DEF Answered
<1>3. ASSUME NEW o \in Operations,
             (o \in Requests /\ CallRequest(o)) \/ (o \in Transfers /\ Begin(o))
      PROVE  HelperFollows'
  <2>1. UNCHANGED <<answers, handling, process>> /\ stage[o] \in {"idle", "queued"} /\ disposed' = disposed
    BY <1>3, CallCases DEF helperVars
  <2>2. CASE Stops({o}, "failed") /\ control' = control
    <3>1. \A t \in Transfers : t \in {o} => ~Busy(t)
        BY <2>1 DEF HelperFollows, Over, Current, Settled
    <3>2. QED
        BY <1>2, <2>1, <2>2, <3>1
  <2>3. CASE Starts(o) /\ control' = Append(control, o)
    BY <1>1, <2>1, <2>3, FollowsSend
  <2>4. QED
    BY <1>3, <2>2, <2>3, CallCases
<1>4. ASSUME NEW c \in Transfers, CallTransfer(c) PROVE HelperFollows'
    BY <1>2, <1>4 DEF CallTransfer, pipes, helperVars
<1>5. ASSUME NEW u \in Uploads, SendByte(u) PROVE HelperFollows'
    BY <1>2, <1>5 DEF SendByte, helperVars
<1>6. ASSUME NEW d \in Downloads, ReceiveByte(d) PROVE HelperFollows'
  <2>1. UNCHANGED <<control, handling, process, answers, disposed>>
    BY <1>6 DEF ReceiveByte, helperVars
  <2>2. stage[d] = "tail" => ~Live \/ (\A t \in Transfers : t \in {d} => ~Busy(t))
    BY DEF HelperFollows
  <2>3. QED
    BY <1>2, <1>6, <2>1, <2>2, ReceiveCases
<1>7. CASE HandleLine
  <2>1. UNCHANGED <<control, handling, process, disposed>> /\ \A o \in Operations : Answered(o)' => Answered(o)
    BY <1>7, LineCases, TailAnswered DEF helperVars
  <2> DEFINE o == Head(answers).op
  <2>2. Answered(o)
    BY <1>7, LineCases, TailAnswered
  <2>3. ASSUME stage[o] = "active", Live, o \in Transfers
        PROVE  \A t \in Transfers : ~Busy(t)
    BY <2>2, <2>3, AnsweredNotBusy
  <2>4. stage[o] = "active" => ~Live \/ (\A t \in Transfers : t \in {o} => ~Busy(t))
    BY <2>3
  <2>5. Waits(o) => (Live => \A t \in Transfers : ~Busy(t))
    BY <2>3 DEF Waits, Transfers
  <2>6. \/ \E C, r : /\ Stops(C, r)
                     /\ disposed' \/ ~Live \/ (\A t \in Transfers : t \in C => ~Busy(t))
        \/ Waits(o) /\ (Live => \A t \in Transfers : ~Busy(t))
        \/ UNCHANGED <<stage, disposed>>
    BY <1>7, <2>1, <2>4, <2>5, LineCases
  <2>7. QED
    BY <2>1, <2>6, FollowsClient
<1>8. ASSUME (\E o \in Operations : Abort(o)) \/ Dispose \/ StreamError \/ ChildCloses
      PROVE  HelperFollows'
    BY <1>2, <1>8, GiveUpCases DEF pipes, helperVars, Live
<1>9. CASE Take
    BY <1>9, FollowsTake
<1>10. ASSUME Rename \/ Discarded \/ ReadFails \/ ReadEnds
       PROVE  HelperFollows'
  <2>1. /\ handling.op \in Operations /\ Live /\ UNCHANGED <<control, stage, disposed>>
        /\ \E ok \in BOOLEAN, n \in Nat : Answers(handling.op, ok, n)
    <3>1. handling.moved \in Nat /\ BodyBytes \in Nat
        BY PipeAssumption DEF PipeTypeOK, Handled
    <3>2. QED
        BY <1>10, <3>1, RenameCases, DiscardedCases, ReadCases
        DEF clientVars, PipeTypeOK, Operations, Transfers
  <2>2. QED
    BY <2>1, FollowsReply
<1>11. ASSUME CopyByte \/ CopyFails \/ DiscardByte \/ WriteByte
       PROVE  HelperFollows'
  <2>1. UNCHANGED <<control, stage, disposed, answers, process>>
    BY <1>11 DEF CopyByte, CopyFails, DiscardByte, WriteByte, clientVars
  <2>2. handling'.op = handling.op /\ handling'.phase # "idle"
    <3>1. handling \in Handled
        BY DEF PipeTypeOK
    <3>2. CASE CopyByte
        BY <3>2 DEF CopyByte
    <3>3. CASE CopyFails
        BY <3>1, <3>3 DEF CopyFails, Handled
    <3>4. CASE DiscardByte \/ WriteByte
        BY <3>1, <3>4 DEF DiscardByte, WriteByte, Handling, Handled
    <3>5. QED
        BY <1>11, <3>2, <3>3, <3>4
  <2>3. QED
    BY <2>1, <2>2, FollowsRest
<1>12. CASE HelperEnds
    BY <1>12, FollowsRest DEF HelperEnds, clientVars, pipes
<1>13. CASE UNCHANGED vars
    BY <1>13, FollowsRest DEF vars, clientVars, pipes, helperVars
<1>14. QED
    BY <1>3, <1>4, <1>5, <1>6, <1>7, <1>8, <1>9, <1>10, <1>11, <1>12, <1>13
    DEF Next, Client, Helper, Operations

-----------------------------------------------------------------------------
(* Success comes from the helper *)

LEMMA TruthfulClient ==
    ASSUME PipeTypeOK, Truthful, served' = served,
           \A i \in DOMAIN answers' : answers'[i].ok => answers'[i].op \in served,
           \/ \E C : Stops(C, "failed")
           \/ \E C : Stops(C, "ok") /\ C \subseteq served
           \/ \E d \in served : Waits(d)
           \/ \E o : Starts(o)
           \/ \E c \in Transfers : CallTransfer(c)
           \/ stage' = stage
    PROVE  Truthful'
<1>1. ASSUME NEW o \in Operations, stage'[o] \in {"ok", "tail"} PROVE o \in served
    BY <1>1 DEF Truthful, Stops, Starts, Waits, CallTransfer, PipeTypeOK
<1>2. QED
    BY <1>1 DEF Truthful

LEMMA TruthfulReply ==
    ASSUME PipeTypeOK, Truthful, NEW o \in Operations, NEW ok \in BOOLEAN, NEW n \in Nat,
           Answers(o, ok, n), stage' = stage
    PROVE  Truthful'
<1>1. served \subseteq served' /\ (ok => o \in served')
    BY DEF Answers
<1>2. \A i \in DOMAIN answers' : answers'[i].ok => answers'[i].op \in served'
    BY <1>1, AnswersMembers DEF Truthful
<1>3. QED
    BY <1>1, <1>2 DEF Truthful

LEMMA TruthfulStep ==
    ASSUME PipeTypeOK, Truthful, [Next]_vars
    PROVE  Truthful'
<1>1. ASSUME NEW o \in Operations,
             (o \in Requests /\ CallRequest(o)) \/ (o \in Transfers /\ Begin(o))
      PROVE  Truthful'
    BY <1>1, CallCases, TruthfulClient DEF Truthful, helperVars
<1>2. ASSUME (\E c \in Transfers : CallTransfer(c)) \/ (\E u \in Uploads : SendByte(u))
      PROVE  Truthful'
    BY <1>2, TruthfulClient DEF CallTransfer, SendByte, helperVars, pipes, Truthful
<1>3. ASSUME NEW d \in Downloads, ReceiveByte(d) PROVE Truthful'
  <2>1. served' = served /\ answers' = answers
    BY <1>3 DEF ReceiveByte, helperVars
  <2>2. stage[d] = "tail" => {d} \subseteq served
    BY DEF Truthful, Operations, Transfers
  <2>3. QED
    BY <1>3, <2>1, <2>2, ReceiveCases, TruthfulClient DEF Truthful
<1>4. CASE HandleLine
  <2>1. served' = served /\ answers # <<>> /\ answers' = Tail(answers)
    BY <1>4, LineCases DEF helperVars
  <2>2. \A i \in DOMAIN answers' : answers'[i].ok => answers'[i].op \in served
    BY <2>1, TailAnswered DEF Truthful
  <2>3. Head(answers).ok => Head(answers).op \in served
    BY <2>1, TailAnswered DEF Truthful
  <2>4. QED
    BY <1>4, <2>1, <2>2, <2>3, LineCases, TruthfulClient
<1>5. ASSUME (\E o \in Operations : Abort(o)) \/ Dispose \/ StreamError \/ ChildCloses
      PROVE  Truthful'
    BY <1>5, GiveUpCases, TruthfulClient DEF pipes, helperVars, Truthful
<1>6. CASE Take
  <2>1. Head(control) \in Operations /\ stage' = stage
    BY <1>6, TakeCases, Taken DEF PipeTypeOK, clientVars
  <2>2. ASSUME NEW ok \in BOOLEAN, Answers(Head(control), ok, 0) PROVE Truthful'
    BY <2>1, <2>2, TruthfulReply
  <2>3. ASSUME NEW ph, Start(ph) PROVE Truthful'
    BY <2>1, <2>3 DEF Start, Truthful
  <2>4. QED
    BY <1>6, <2>2, <2>3, TakeCases
<1>7. ASSUME Rename \/ Discarded \/ ReadFails \/ ReadEnds
      PROVE  Truthful'
  <2>1. /\ handling.op \in Operations /\ stage' = stage
        /\ \E ok \in BOOLEAN, n \in Nat : Answers(handling.op, ok, n)
    <3>1. handling.moved \in Nat /\ BodyBytes \in Nat
        BY PipeAssumption DEF PipeTypeOK, Handled
    <3>2. QED
        BY <1>7, <3>1, RenameCases, DiscardedCases, ReadCases
        DEF clientVars, PipeTypeOK, Operations, Transfers
  <2>2. QED
    BY <2>1, TruthfulReply
<1>8. ASSUME UNCHANGED <<answers, stage, served>> PROVE Truthful'
    BY <1>8 DEF Truthful
<1>9. ASSUME CopyByte \/ CopyFails \/ DiscardByte \/ WriteByte \/ HelperEnds \/ UNCHANGED vars
      PROVE  Truthful'
    BY <1>8, <1>9 DEF CopyByte, CopyFails, DiscardByte, WriteByte, HelperEnds, vars, clientVars, pipes, helperVars
<1>10. QED
    BY <1>1, <1>2, <1>3, <1>4, <1>5, <1>6, <1>7, <1>9 DEF Next, Client, Helper, Operations

-----------------------------------------------------------------------------
(* Uploads *)

\* While it handles a transfer, the helper has no other.
LEMMA OneBusy ==
    ASSUME HelperFollows, Live, handling.op \in Transfers, NEW t \in Transfers, Busy(t)
    PROVE  t = handling.op
BY DEF HelperFollows, Busy

LEMMA UploadClient ==
    ASSUME PipeTypeOK, UploadBytes,
           UNCHANGED <<sent, control, uploadPipe, process, handling, committed>>,
           \A i \in DOMAIN answers' : \E j \in DOMAIN answers : answers'[i] = answers[j],
           \/ \E C : Stops(C, "failed")
           \/ \E o : Stops({o}, "ok") /\ (o \in Uploads => committed[o] # <<>>)
           \/ \E d : Waits(d)
           \/ \E c \in Transfers : CallTransfer(c)
           \/ stage' = stage
    PROVE  UploadBytes'
<1>1. \A o : (Busy(o)' <=> Busy(o)) /\ (InControl(o)' <=> InControl(o))
    BY DEF Busy, InControl
<1>2. Live' <=> Live
    BY DEF Live
<1>3. ASSUME NEW u \in Uploads
      PROVE  /\ stage'[u] = "active" => stage[u] = "active"
             /\ stage'[u] = "ok" => stage[u] = "ok" \/ committed[u] # <<>>
    BY DEF Stops, Waits, CallTransfer, PipeTypeOK, Operations, Transfers
<1>4. \A i \in DOMAIN answers' :
         answers'[i].ok /\ answers'[i].op \in Uploads => committed[answers'[i].op] # <<>>
    BY DEF UploadBytes
<1>5. QED
    BY <1>1, <1>2, <1>3, <1>4 DEF UploadBytes

LEMMA UploadSent ==
    ASSUME PipeTypeOK, UploadBytes, NEW o, Starts(o), control' = Append(control, o),
           UNCHANGED <<sent, uploadPipe, process, handling, committed, answers>>,
           Live /\ o \in Transfers => \A t \in Transfers : ~Busy(t)
    PROVE  UploadBytes'
<1>1. o \in Operations
    BY DEF Starts
<1>2. \A x : InControl(x)' <=> (InControl(x) \/ x = o)
  <2>1. /\ DOMAIN control' = 1..Len(control) + 1 /\ DOMAIN control = 1..Len(control)
        /\ Len(control) \in Nat
        /\ \A i \in DOMAIN control : control'[i] = control[i]
        /\ control'[Len(control) + 1] = o
    BY <1>1, Appended DEF PipeTypeOK
  <2>2. QED
    BY <2>1 DEF InControl
<1>3. \A x : Busy(x)' <=> (Busy(x) \/ x = o)
    BY <1>2 DEF Busy
<1>4. (Live' <=> Live) /\ \A u \in Uploads : sent[u] \in Nat
    BY DEF Live, PipeTypeOK
<1>5. ASSUME Live, o \in Uploads PROVE Len(uploadPipe) = 0
  <2>1. \A i \in DOMAIN uploadPipe : uploadPipe[i] \in Transfers /\ Busy(uploadPipe[i])
    BY <1>5, ElementOfSeq, LenProperties DEF PipeTypeOK, UploadBytes, Transfers
  <2>2. DOMAIN uploadPipe = 1..Len(uploadPipe) /\ Len(uploadPipe) \in Nat
    BY LenProperties DEF PipeTypeOK
  <2>3. 1 \notin DOMAIN uploadPipe
    BY <1>5, <2>1 DEF Transfers
  <2>4. QED
    BY <2>2, <2>3
<1>6. Live => \A u \in Uploads : InControl(u)' => Len(uploadPipe) <= sent[u]
    BY <1>2, <1>4, <1>5 DEF UploadBytes
<1>7. \A u \in Uploads : stage'[u] = "active" => stage[u] = "active" \/ u = o
    BY DEF Starts, PipeTypeOK, Operations, Transfers
<1>8. \A u \in Uploads : stage'[u] = "ok" => stage[u] = "ok"
    BY DEF Starts, PipeTypeOK, Operations, Transfers
<1>9. Live => \A u \in Uploads : stage'[u] = "active" => Busy(u)' \/ sent[u] = BodyBytes
    BY <1>3, <1>7 DEF UploadBytes
<1>10. Live => \A i \in DOMAIN uploadPipe : Busy(uploadPipe[i])'
    BY <1>3 DEF UploadBytes
<1>11. QED
    BY <1>4, <1>6, <1>8, <1>9, <1>10 DEF UploadBytes

LEMMA UploadSource ==
    ASSUME PipeTypeOK, LaneInOrder, HelperFollows, UploadBytes, NEW u \in Uploads, SendByte(u)
    PROVE  UploadBytes'
<1>1. /\ stage[u] = "active" /\ sent[u] < BodyBytes /\ Live /\ Live' /\ BodyBytes \in Nat
      /\ \A x \in Uploads : sent[x] \in Nat /\ sent'[x] = IF x = u THEN sent[x] + 1 ELSE sent[x]
      /\ UNCHANGED <<stage, control, answers, handling, committed>>
    BY PipeAssumption DEF SendByte, Live, PipeTypeOK, helperVars
<1>2. /\ DOMAIN uploadPipe' = 1..Len(uploadPipe) + 1 /\ DOMAIN uploadPipe = 1..Len(uploadPipe)
      /\ Len(uploadPipe') = Len(uploadPipe) + 1 /\ Len(uploadPipe) \in Nat
      /\ \A i \in DOMAIN uploadPipe : uploadPipe'[i] = uploadPipe[i]
      /\ uploadPipe'[Len(uploadPipe) + 1] = u
      /\ \A i \in DOMAIN uploadPipe' : i \in DOMAIN uploadPipe \/ i = Len(uploadPipe) + 1
  <2>1. uploadPipe \in Seq(Uploads) /\ uploadPipe' = Append(uploadPipe, u)
    BY DEF SendByte, PipeTypeOK
  <2> QED
    BY <2>1, Appended
<1>3. \A o : (Busy(o)' <=> Busy(o)) /\ (InControl(o)' <=> InControl(o))
    BY <1>1 DEF Busy, InControl
<1>4. Busy(u)
    BY <1>1 DEF UploadBytes
<1>5. \A x \in Uploads : Busy(x) => x = u
    BY <1>1 DEF LaneInOrder, HelperFollows, Pending, Operations, Transfers, Current
<1>6. \A i \in DOMAIN uploadPipe' : Busy(uploadPipe'[i])
    BY <1>1, <1>2, <1>4 DEF UploadBytes
<1>7. \A x \in Uploads : InControl(x) => Len(uploadPipe') <= sent'[x]
    BY <1>1, <1>2, <1>5 DEF UploadBytes, Busy
<1>8. ASSUME handling.op \in Uploads PROVE handling.moved + Len(uploadPipe') <= sent'[handling.op]
  <2>1. handling.op = u /\ handling.moved \in Nat
    BY <1>5, <1>8 DEF Busy, PipeTypeOK, Handled
  <2>2. QED
    BY <1>1, <1>2, <2>1 DEF UploadBytes
<1>9. \A x \in Uploads : sent'[x] <= BodyBytes
    BY <1>1 DEF UploadBytes
<1>10. \A x \in Uploads : stage'[x] = "active" => Busy(x) \/ sent'[x] = BodyBytes
    BY <1>1, <1>4 DEF UploadBytes
<1>11. QED
    BY <1>1, <1>3, <1>6, <1>7, <1>8, <1>9, <1>10 DEF UploadBytes

LEMMA UploadTaken ==
    ASSUME PipeTypeOK, HelperFollows, UploadBytes, Take
    PROVE  UploadBytes'
<1> DEFINE h == Head(control)
<1>1. /\ control # <<>> /\ control' = Tail(control) /\ Live /\ h \in Operations
      /\ control \in Seq(Operations)
      /\ 1 \in DOMAIN control /\ h = control[1]
    BY TakeCases, Taken DEF PipeTypeOK
<1>2. UNCHANGED <<stage, sent, uploadPipe, committed>>
    BY TakeCases DEF clientVars
<1>3. handling.op = NoOp /\ NoOp \notin Operations
    BY TakeCases, IdleHandled, PipeAssumption DEF HelperFollows
<1>4. \A x : InControl(x)' => InControl(x)
    BY <1>1, TailMembers DEF InControl
<1>5. ASSUME NEW x, InControl(x), x # h PROVE InControl(x)'
  <2>1. PICK i \in DOMAIN control : control[i] = x
    BY <1>5 DEF InControl
  <2>2. i - 1 \in DOMAIN Tail(control) /\ Tail(control)[i - 1] = x
    BY <1>1, <1>5, <2>1, Taken
  <2>3. QED
    BY <1>1, <2>2 DEF InControl
<1>6. InControl(h)
    BY <1>1 DEF InControl
<1>7. ASSUME h \in Uploads
      PROVE  /\ \E ph \in {"copying", "discarding"} :
                   handling' = [op |-> h, phase |-> ph, copied |-> <<>>, moved |-> 0]
             /\ answers' = answers
  <2>1. Start("copying") \/ Start("discarding")
    BY <1>7, TakeCases, PipeAssumption DEF Transfers
  <2>2. QED
    BY <1>1, <2>1, StartType DEF Start, Phases
<1>8. ASSUME h \notin Uploads
      PROVE  /\ handling'.op \notin Uploads /\ handling'.phase # "copying"
             /\ \A i \in DOMAIN answers' :
                   (\E j \in DOMAIN answers : answers'[i] = answers[j]) \/ answers'[i].op \notin Uploads
  <2> DEFINE Elsewhere == /\ handling'.op \notin Uploads /\ handling'.phase # "copying"
                          /\ \A i \in DOMAIN answers' :
                                (\E j \in DOMAIN answers : answers'[i] = answers[j])
                                \/ answers'[i].op \notin Uploads
  <2>1. ASSUME NEW ok \in BOOLEAN, Answers(h, ok, 0) PROVE Elsewhere
    <3>1. handling'.op \notin Uploads /\ handling'.phase # "copying"
        BY <2>1, <1>3, IdleHandled DEF Answers, Operations, Transfers
    <3>2. QED
        BY <1>1, <1>8, <2>1, <3>1, AnswersMembers
  <2>2. ASSUME Start("sending") PROVE Elsewhere
    BY <1>1, <1>8, <2>2, StartType DEF Start, Phases
  <2>3. QED
    BY <1>8, <2>1, <2>2, TakeCases
<1>9. \A u \in Uploads : Busy(u) => Busy(u)'
    BY <1>3, <1>5, <1>7 DEF Busy, Operations, Transfers
<1>10. \A i \in DOMAIN uploadPipe : uploadPipe[i] \in Uploads
    BY ElementOfSeq, LenProperties DEF PipeTypeOK
<1>11. Live' => (\A i \in DOMAIN uploadPipe : Busy(uploadPipe[i]))'
    BY <1>1, <1>2, <1>9, <1>10 DEF UploadBytes
<1>12. ASSUME handling'.op \in Uploads
       PROVE  handling'.moved + Len(uploadPipe') <= sent'[handling'.op]
  <2>1. h \in Uploads /\ handling'.op = h /\ handling'.moved = 0
    BY <1>7, <1>8, <1>12
  <2>2. Len(uploadPipe) \in Nat /\ Len(uploadPipe) <= sent[h]
    BY <1>1, <1>6, <2>1, LenProperties DEF UploadBytes, PipeTypeOK
  <2>3. QED
    BY <1>2, <2>1, <2>2
<1>13. handling'.phase = "copying" =>
          /\ Len(handling'.copied) = handling'.moved
          /\ \A i \in DOMAIN handling'.copied : handling'.copied[i] = handling'.op
  <2>1. CASE h \in Uploads
    BY <1>7, <2>1
  <2>2. CASE h \notin Uploads
    BY <1>8, <2>2
  <2>3. QED
    BY <2>1, <2>2
<1>14. \A i \in DOMAIN answers' :
          answers'[i].ok /\ answers'[i].op \in Uploads => committed[answers'[i].op] # <<>>
    BY <1>7, <1>8 DEF UploadBytes
<1>15. \A u \in Uploads : stage[u] = "active" => Busy(u)' \/ sent[u] = BodyBytes
    BY <1>1, <1>9 DEF UploadBytes
<1>16. \A u \in Uploads : InControl(u)' => Len(uploadPipe) <= sent[u]
    BY <1>1, <1>4 DEF UploadBytes
<1>17. QED
    BY <1>2, <1>11, <1>12, <1>13, <1>14, <1>15, <1>16 DEF UploadBytes

\* A byte leaves the pipe, or two for one that is counted.
LEMMA UploadCopied ==
    ASSUME PipeTypeOK, HelperFollows, UploadBytes, CopyByte \/ CopyFails \/ DiscardByte
    PROVE  UploadBytes'
<1>1. /\ handling \in Handled /\ handling.op \in Uploads /\ handling.moved \in Nat
      /\ handling.copied \in Seq(Uploads)
      /\ uploadPipe \in Seq(Uploads) /\ Live /\ Live' /\ sent[handling.op] \in Nat
    BY DEF CopyByte, CopyFails, DiscardByte, Handling, Live, PipeTypeOK, Handled
<1>2. UNCHANGED <<stage, sent, control, answers, committed>>
    BY DEF CopyByte, CopyFails, DiscardByte, clientVars
<1>3. \/ uploadPipe' = uploadPipe
      \/ uploadPipe # <<>> /\ uploadPipe' = Tail(uploadPipe)
    BY DEF CopyByte, CopyFails, DiscardByte
<1>4. \A i \in DOMAIN uploadPipe' : \E j \in DOMAIN uploadPipe : uploadPipe'[i] = uploadPipe[j]
    BY <1>1, <1>3, TailMembers
<1>5. Len(uploadPipe) \in Nat /\ Len(uploadPipe') \in Nat /\ Len(uploadPipe') <= Len(uploadPipe)
    BY <1>1, <1>3, Taken, LenProperties
<1>6. /\ handling'.op = handling.op
      /\ \/ handling'.moved = handling.moved
         \/ handling'.moved = handling.moved + 1 /\ Len(uploadPipe') = Len(uploadPipe) - 1
  <2>1. CASE CopyByte
    BY <1>1, <2>1, Taken DEF CopyByte
  <2>2. CASE CopyFails
    BY <1>1, <2>2 DEF CopyFails, Handled
  <2>3. CASE DiscardByte
    <3>1. Len(uploadPipe') = Len(uploadPipe) - 1
        BY <1>1, <2>3, Taken DEF DiscardByte
    <3>2. handling'.op = handling.op /\ handling'.moved = handling.moved + 1
        BY <1>1, <2>3 DEF DiscardByte, Handled
    <3>3. QED
        BY <3>1, <3>2
  <2>4. QED
    BY <2>1, <2>2, <2>3
<1>7. handling'.moved + Len(uploadPipe') <= sent'[handling'.op]
  <2>1. handling.moved + Len(uploadPipe) <= sent[handling.op]
    BY <1>1 DEF UploadBytes
  <2>2. QED
    BY <1>1, <1>2, <1>5, <1>6, <2>1
<1>8. ASSUME handling'.phase = "copying"
      PROVE  /\ Len(handling'.copied) = handling'.moved
             /\ \A i \in DOMAIN handling'.copied : handling'.copied[i] = handling'.op
  <2>1. CopyByte
    BY <1>1, <1>8 DEF CopyFails, DiscardByte, Handling, Handled
  <2>2. /\ handling'.copied = Append(handling.copied, Head(uploadPipe))
        /\ handling'.moved = handling.moved + 1 /\ handling.phase = "copying"
    BY <2>1 DEF CopyByte, Handling
  <2>3. Head(uploadPipe) = uploadPipe[1] /\ 1 \in DOMAIN uploadPipe /\ Head(uploadPipe) \in Uploads
    BY <1>1, <2>1, Taken DEF CopyByte
  <2>4. Head(uploadPipe) = handling.op
    BY <1>1, <2>3, OneBusy DEF UploadBytes, Transfers
  <2>5. Len(handling.copied) = handling.moved /\ \A i \in DOMAIN handling.copied : handling.copied[i] = handling.op
    BY <2>2 DEF UploadBytes
  <2>6. QED
    BY <1>1, <1>6, <2>2, <2>3, <2>4, <2>5, Appended
<1>9. \A o : (Busy(o)' <=> Busy(o)) /\ (InControl(o)' <=> InControl(o))
    BY <1>2, <1>6 DEF Busy, InControl
<1>10. (\A i \in DOMAIN uploadPipe : Busy(uploadPipe[i]))'
    BY <1>1, <1>4, <1>9 DEF UploadBytes
<1>11. \A u \in Uploads : InControl(u)' => Len(uploadPipe') <= sent'[u]
  <2>1. \A u \in Uploads : sent[u] \in Nat
    BY DEF PipeTypeOK
  <2>2. QED
    BY <1>1, <1>2, <1>5, <1>9, <2>1 DEF UploadBytes
<1>12. QED
    BY <1>1, <1>2, <1>7, <1>8, <1>9, <1>10, <1>11 DEF UploadBytes

LEMMA FullBody ==
    ASSUME NEW u \in Uploads, NEW q \in Seq(Uploads), Len(q) = BodyBytes, \A i \in DOMAIN q : q[i] = u
    PROVE  q = Body(u, BodyBytes) /\ q # <<>>
<1>1. q \in [1..BodyBytes -> Uploads] /\ DOMAIN q = 1..BodyBytes
    BY LenProperties
<1>2. q = [i \in 1..BodyBytes |-> u]
    BY <1>1
<1>3. q # <<>>
    BY EmptySeq, PipeAssumption
<1>4. QED
    BY <1>2, <1>3 DEF Body

\* The answer to an upload leaves none of its bytes behind, or the helper ends.
LEMMA UploadAnswered ==
    ASSUME PipeTypeOK, HelperFollows, UploadBytes, Rename \/ Discarded
    PROVE  UploadBytes'
<1>1. /\ handling.op \in Uploads /\ handling.moved \in Nat /\ handling.copied \in Seq(Uploads)
      /\ uploadPipe \in Seq(Uploads) /\ Live /\ BodyBytes \in Nat
      /\ \A u \in Uploads : sent[u] \in Nat
    BY PipeAssumption, RenameCases, DiscardedCases DEF PipeTypeOK, Handled
<1>2. UNCHANGED <<stage, sent, control, uploadPipe>>
    BY RenameCases, DiscardedCases DEF clientVars
<1>3. /\ Live' => handling.moved >= BodyBytes
      /\ \E ok \in BOOLEAN, n \in Nat : Answers(handling.op, ok, n)
  <2>1. CASE Rename
    <3>1. handling.moved >= BodyBytes
        BY <1>1, <2>1, RenameCases
    <3>2. QED
        BY <1>1, <2>1, <3>1, RenameCases
  <2>2. CASE Discarded
    BY <2>2, DiscardedCases
  <2>3. QED
    BY <2>1, <2>2
<1>4. handling' = Idle /\ handling'.op = NoOp /\ handling'.phase = "idle" /\ NoOp \notin Uploads
    BY <1>3, IdleHandled, PipeAssumption DEF Answers, Operations, Transfers
<1>5. ASSUME Live' PROVE uploadPipe = <<>> /\ Len(uploadPipe) = 0 /\ sent[handling.op] = BodyBytes
  <2>1. handling.moved + Len(uploadPipe) <= sent[handling.op] /\ sent[handling.op] <= BodyBytes
    BY <1>1 DEF UploadBytes
  <2>2. Len(uploadPipe) \in Nat
    BY <1>1, LenProperties
  <2>3. Len(uploadPipe) = 0 /\ sent[handling.op] = BodyBytes
    BY <1>1, <1>3, <1>5, <2>1, <2>2
  <2>4. QED
    BY <1>1, <2>3, EmptySeq
<1>6. \A x : InControl(x)' <=> InControl(x)
    BY <1>2 DEF InControl
<1>7. Live' => (\A i \in DOMAIN uploadPipe : Busy(uploadPipe[i]))'
    BY <1>2, <1>5
<1>8. Live' => \A u \in Uploads : stage'[u] = "active" => Busy(u)' \/ sent'[u] = BodyBytes
    BY <1>1, <1>2, <1>5, <1>6 DEF UploadBytes, Busy
<1>9. Live' => \A u \in Uploads : InControl(u)' => Len(uploadPipe') <= sent'[u]
    BY <1>1, <1>2, <1>5
<1>10. /\ \A u \in Uploads : committed'[u] \in {<<>>, Body(u, BodyBytes)}
       /\ \A u \in Uploads : committed[u] # <<>> => committed'[u] # <<>>
       /\ \/ committed'[handling.op] # <<>>
          \/ Answers(handling.op, FALSE, 0)
  <2>1. committed \in [Uploads -> Seq(Uploads)]
    BY DEF PipeTypeOK
  <2>2. CASE committed' = committed /\ Answers(handling.op, FALSE, 0)
    BY <2>2 DEF UploadBytes
  <2>3. CASE Rename /\ committed' = [committed EXCEPT ![handling.op] = handling.copied]
    <3>1. handling.phase = "copying" /\ handling.moved = BodyBytes
        BY <2>3, RenameCases
    <3>2. handling.copied = Body(handling.op, BodyBytes) /\ handling.copied # <<>>
        BY <1>1, <3>1, FullBody DEF UploadBytes
    <3>3. \A u \in Uploads : committed'[u] = IF u = handling.op THEN handling.copied ELSE committed[u]
        BY <1>1, <2>1, <2>3
    <3>4. QED
        BY <1>1, <3>2, <3>3 DEF UploadBytes
  <2>4. QED
    BY <2>2, <2>3, RenameCases, DiscardedCases
<1>11. ASSUME NEW i \in DOMAIN answers', answers'[i].ok, answers'[i].op \in Uploads
       PROVE  committed'[answers'[i].op] # <<>>
  <2>1. CASE Answers(handling.op, FALSE, 0)
    <3>1. handling.op \in Operations
        BY <1>1 DEF Operations, Transfers
    <3>2. /\ DOMAIN answers' = 1..Len(answers) + 1 /\ DOMAIN answers = 1..Len(answers)
          /\ Len(answers) \in Nat
          /\ \A j \in DOMAIN answers : answers'[j] = answers[j]
          /\ answers'[Len(answers) + 1].ok = FALSE
        BY <2>1, <3>1, AnswersMembers
    <3>3. i # Len(answers) + 1
        BY <1>11, <3>2
    <3>4. i \in DOMAIN answers /\ answers'[i] = answers[i]
        BY <3>2, <3>3
    <3>5. QED
        BY <1>10, <1>11, <3>4 DEF UploadBytes
  <2>2. CASE committed'[handling.op] # <<>>
    <3>1. PICK ok \in BOOLEAN, n \in Nat : Answers(handling.op, ok, n)
        BY <1>3
    <3>2. (i \in DOMAIN answers /\ answers'[i] = answers[i]) \/ answers'[i].op = handling.op
        BY <1>1, <1>11, <3>1, AnswersMembers DEF Operations, Transfers
    <3>3. QED
        BY <1>10, <1>11, <2>2, <3>2 DEF UploadBytes
  <2>3. QED
    BY <1>10, <2>1, <2>2
<1>12. \A u \in Uploads : stage'[u] = "ok" => committed'[u] # <<>>
    BY <1>2, <1>10 DEF UploadBytes
<1>13. \A u \in Uploads : sent'[u] <= BodyBytes
    BY <1>2 DEF UploadBytes
<1>14. QED
    BY <1>4, <1>7, <1>8, <1>9, <1>10, <1>11, <1>12, <1>13 DEF UploadBytes

LEMMA UploadOther ==
    ASSUME PipeTypeOK, HelperFollows, UploadBytes, ReadFails \/ ReadEnds \/ WriteByte
    PROVE  UploadBytes'
<1>1. /\ handling.op \in Downloads /\ handling.op \notin Uploads /\ Live /\ NoOp \notin Uploads
      /\ handling \in Handled /\ handling.phase = "sending" /\ handling.moved \in Nat
    BY PipeAssumption, ReadCases DEF WriteByte, Handling, Live, PipeTypeOK, Operations, Transfers, Handled
<1>2. UNCHANGED <<stage, sent, control, uploadPipe, committed>>
    BY ReadCases DEF WriteByte, clientVars
<1>3. \A x : InControl(x)' <=> InControl(x)
    BY <1>2 DEF InControl
<1>4. \A u \in Uploads : Busy(u) => Busy(u)'
    BY <1>1, <1>3 DEF Busy
<1>5. /\ handling'.op \notin Uploads /\ handling'.phase # "copying"
      /\ \A i \in DOMAIN answers' :
            (\E j \in DOMAIN answers : answers'[i] = answers[j]) \/ answers'[i].op \notin Uploads
  <2>1. CASE WriteByte
    BY <1>1, <2>1 DEF WriteByte, Handled
  <2>2. CASE ReadFails \/ ReadEnds
    <3>1. PICK ok \in BOOLEAN, n \in Nat : Answers(handling.op, ok, n)
        BY <1>1, <2>2, ReadCases
    <3>2. handling'.op \notin Uploads /\ handling'.phase # "copying"
        BY <1>1, <3>1, IdleHandled DEF Answers
    <3>3. QED
        BY <1>1, <3>1, <3>2, AnswersMembers DEF Operations, Transfers
  <2>3. QED
    BY <2>1, <2>2
<1>6. \A i \in DOMAIN answers' :
         answers'[i].ok /\ answers'[i].op \in Uploads => committed[answers'[i].op] # <<>>
    BY <1>5 DEF UploadBytes
<1>7. \A i \in DOMAIN uploadPipe : uploadPipe[i] \in Uploads
    BY ElementOfSeq, LenProperties DEF PipeTypeOK
<1>8. (\A i \in DOMAIN uploadPipe : Busy(uploadPipe[i]))'
    BY <1>1, <1>2, <1>4, <1>7 DEF UploadBytes
<1>9. QED
    BY <1>1, <1>2, <1>3, <1>4, <1>5, <1>6, <1>8 DEF UploadBytes

LEMMA UploadStep ==
    ASSUME PipeTypeOK, LaneInOrder, HelperFollows, UploadBytes, [Next]_vars
    PROVE  UploadBytes'
<1>1. LaneInOrder'
    BY LaneStep
<1>2. ASSUME NEW o \in Operations,
             (o \in Requests /\ CallRequest(o)) \/ (o \in Transfers /\ Begin(o))
      PROVE  UploadBytes'
  <2>1. /\ UNCHANGED <<sent, uploadPipe, process, handling, committed, answers>>
        /\ stage[o] \in {"idle", "queued"}
    BY <1>2, CallCases DEF helperVars
  <2>2. CASE Stops({o}, "failed") /\ control' = control
    BY <2>1, <2>2, UploadClient
  <2>3. CASE Starts(o) /\ control' = Append(control, o)
    BY <1>1, <2>1, <2>3, FollowsSend, UploadSent
  <2>4. QED
    BY <1>2, <2>2, <2>3, CallCases
<1>3. ASSUME NEW c \in Transfers, CallTransfer(c) PROVE UploadBytes'
    BY <1>3, UploadClient DEF CallTransfer, helperVars, pipes
<1>4. ASSUME NEW d \in Downloads, ReceiveByte(d) PROVE UploadBytes'
  <2>1. UNCHANGED <<sent, control, uploadPipe, process, handling, committed, answers>> /\ d \notin Uploads
    BY <1>4, PipeAssumption DEF ReceiveByte, helperVars
  <2>2. QED
    BY <1>4, <2>1, ReceiveCases, UploadClient
<1>5. CASE HandleLine
  <2>1. /\ UNCHANGED <<sent, control, uploadPipe, process, handling, committed>>
        /\ \A i \in DOMAIN answers' : \E j \in DOMAIN answers : answers'[i] = answers[j]
    BY <1>5, LineCases, TailAnswered DEF helperVars
  <2>2. Head(answers).ok /\ Head(answers).op \in Uploads => committed[Head(answers).op] # <<>>
    BY <1>5, LineCases, TailAnswered DEF UploadBytes
  <2>3. QED
    BY <1>5, <2>1, <2>2, LineCases, UploadClient
<1>6. ASSUME (\E o \in Operations : Abort(o)) \/ Dispose \/ StreamError \/ ChildCloses
      PROVE  UploadBytes'
    BY <1>6, GiveUpCases, UploadClient DEF pipes, helperVars
<1>7. ASSUME HelperEnds \/ UNCHANGED vars PROVE UploadBytes'
  <2>1. UNCHANGED <<sent, stage, control, uploadPipe, answers, handling, committed>> /\ (Live' => Live)
    BY <1>7 DEF HelperEnds, vars, clientVars, pipes, helperVars, Live
  <2>2. \A o : (Busy(o)' <=> Busy(o)) /\ (InControl(o)' <=> InControl(o))
    BY <2>1 DEF Busy, InControl
  <2>3. QED
    BY <2>1, <2>2 DEF UploadBytes
<1>8. QED
    BY <1>2, <1>3, <1>4, <1>5, <1>6, <1>7, UploadSource, UploadTaken, UploadCopied, UploadAnswered, UploadOther
    DEF Next, Client, Helper, Operations

-----------------------------------------------------------------------------
(* Downloads *)

\* A step that leaves the bytes and the helper's side alone.
LEMMA DownloadClient ==
    ASSUME PipeTypeOK, DownloadBytes,
           UNCHANGED <<received, downloadPipe, control, handling, process>>,
           \A i \in DOMAIN answers' : \E j \in DOMAIN answers : answers'[i] = answers[j],
           Live /\ ~disposed' /\ downloadPipe # <<>> => \E d \in Downloads : Current(d)',
           \A d \in Downloads :
              /\ stage'[d] = "active" => stage[d] = "active"
              /\ stage'[d] \in {"idle", "queued"} => stage[d] \in {"idle", "queued"}
              /\ stage'[d] = "tail" =>
                    \/ stage[d] = "tail" /\ expected'[d] = expected[d]
                    \/ OnlyOwn(d) /\ Carried(d) = expected'[d]
              /\ stage'[d] = "ok" =>
                    \/ stage[d] = "ok" /\ expected'[d] = expected[d]
                    \/ received[d] = Body(d, expected'[d])
    PROVE  DownloadBytes'
<1>1. \A o : (InControl(o)' <=> InControl(o)) /\ (OnlyOwn(o)' <=> OnlyOwn(o)) /\ Carried(o)' = Carried(o)
    BY DEF InControl, OnlyOwn, Carried
<1>2. Live' <=> Live
    BY DEF Live
<1>3. ASSUME NEW d \in Downloads, stage'[d] = "active", Live
      PROVE  /\ OnlyOwn(d)
             /\ InControl(d) => Carried(d) = 0
             /\ handling.op = d => Carried(d) = handling.moved
             /\ \A i \in DOMAIN answers' :
                   answers'[i].op = d /\ ~answers'[i].ok => Carried(d) = 0
    BY <1>3 DEF DownloadBytes
<1>4. ASSUME NEW d \in Downloads, stage'[d] = "active",
             NEW i \in DOMAIN answers', answers'[i].op = d, answers'[i].ok
      PROVE  OnlyOwn(d) /\ Carried(d) = answers'[i].bytes
    BY <1>4 DEF DownloadBytes
<1>5. \A d \in Downloads : stage'[d] = "tail" => OnlyOwn(d) /\ Carried(d) = expected'[d]
    BY DEF DownloadBytes
<1>6. \A d \in Downloads : stage'[d] = "ok" => received'[d] = Body(d, expected'[d])
    BY DEF DownloadBytes, DownloadsIntact
<1>7. \A d \in Downloads : stage'[d] \in {"idle", "queued"} => received'[d] = <<>>
    BY DEF DownloadBytes
<1>8. QED
    BY <1>1, <1>2, <1>3, <1>4, <1>5, <1>6, <1>7 DEF DownloadBytes, DownloadsIntact

\* A target that got as much as was announced has the body.
LEMMA Complete ==
    ASSUME NEW d \in Downloads, NEW q \in Seq(Downloads), NEW p \in Seq(Downloads), NEW n \in Nat,
           \A i \in DOMAIN q : q[i] = d, Len(q) + Len(p) = n, Len(q) >= n
    PROVE  q = Body(d, n) /\ p = <<>>
<1>1. Len(q) \in Nat /\ Len(p) \in Nat
    BY LenProperties
<1>2. Len(q) = n /\ Len(p) = 0
    BY <1>1
<1>3. q \in [1..n -> Downloads] /\ DOMAIN q = 1..n
    BY <1>2, LenProperties
<1>4. q = [i \in 1..n |-> d]
    BY <1>3
<1>5. p = <<>>
    BY <1>2, EmptySeq
<1>6. QED
    BY <1>4, <1>5 DEF Body

LEMMA NothingCarried ==
    ASSUME PipeTypeOK, NEW d \in Downloads, Carried(d) = 0
    PROVE  downloadPipe = <<>>
<1>1. received[d] \in Seq(Downloads) /\ downloadPipe \in Seq(Downloads)
    BY DEF PipeTypeOK
<1>2. Len(received[d]) \in Nat /\ Len(downloadPipe) \in Nat
    BY <1>1, LenProperties
<1>3. Len(downloadPipe) = 0
    BY <1>2 DEF Carried
<1>4. QED
    BY <1>1, <1>3, EmptySeq

LEMMA DownloadSent ==
    ASSUME PipeTypeOK, LaneInOrder, LaneInOrder', HelperFollows, DownloadBytes,
           NEW o, Starts(o), control' = Append(control, o), stage[o] \in {"idle", "queued"},
           UNCHANGED <<received, expected, downloadPipe, handling, process, answers>>
    PROVE  DownloadBytes'
<1>1. o \in Operations /\ ~disposed /\ ~disposed' /\ stage' = [stage EXCEPT ![o] = "active"]
    BY DEF Starts
<1>2. \A x \in Operations : stage'[x] = IF x = o THEN "active" ELSE stage[x]
    BY <1>1 DEF PipeTypeOK
<1>3. \A d \in Downloads : d \in Operations /\ d \in Transfers
    BY DEF Operations, Transfers
<1>4. (Live' <=> Live) /\ \A x : (OnlyOwn(x)' <=> OnlyOwn(x)) /\ Carried(x)' = Carried(x)
    BY DEF Live, OnlyOwn, Carried
<1>5. \A x \in Operations : x # o => (InControl(x)' => InControl(x))
  <2>1. /\ DOMAIN control' = 1..Len(control) + 1 /\ DOMAIN control = 1..Len(control)
        /\ Len(control) \in Nat
        /\ \A i \in DOMAIN control : control'[i] = control[i]
        /\ control'[Len(control) + 1] = o
    BY <1>1, Appended DEF PipeTypeOK
  <2>2. QED
    BY <2>1 DEF InControl
<1>6. \A d \in Downloads : Current(d) => Current(d)'
    BY <1>2, <1>3 DEF Current
<1>7. ASSUME Live, o \in Downloads PROVE received[o] = <<>> /\ downloadPipe = <<>>
  <2>1. received[o] = <<>>
    BY <1>7 DEF DownloadBytes
  <2>2. ASSUME NEW d \in Downloads, Current(d) PROVE FALSE
    <3>1. Current(d)' /\ Current(o)' /\ d # o
        BY <1>2, <1>3, <1>6, <1>7, <2>2 DEF Current
    <3>2. QED
        BY <1>3, <1>7, <3>1 DEF LaneInOrder
  <2>3. QED
    BY <1>1, <1>7, <2>1, <2>2 DEF DownloadBytes
<1>8. ASSUME Live, o \in Downloads PROVE OnlyOwn(o) /\ Carried(o) = 0
    BY <1>7, <1>8, EmptySeq DEF OnlyOwn, Carried
<1>9. ~Answered(o) /\ handling.op # o
    BY <1>1 DEF HelperFollows, Busy, Over, Current, Settled
<1>10. ASSUME Live, NEW d \in Downloads, stage'[d] = "active"
       PROVE  /\ OnlyOwn(d)
              /\ InControl(d)' => Carried(d) = 0
              /\ handling.op = d => Carried(d) = handling.moved
              /\ \A i \in DOMAIN answers :
                    answers[i].op = d /\ ~answers[i].ok => Carried(d) = 0
  <2>1. CASE d = o
    BY <1>8, <1>9, <1>10, <2>1 DEF Answered
  <2>2. CASE d # o
    BY <1>2, <1>3, <1>5, <1>10, <2>2 DEF DownloadBytes
  <2>3. QED
    BY <2>1, <2>2
<1>11. ASSUME NEW d \in Downloads, stage'[d] = "active",
              NEW i \in DOMAIN answers, answers[i].op = d, answers[i].ok
       PROVE  OnlyOwn(d) /\ Carried(d) = answers[i].bytes
    BY <1>2, <1>3, <1>9, <1>11 DEF DownloadBytes, Answered
<1>12. \A d \in Downloads : stage'[d] \in {"tail", "ok", "idle", "queued"} => stage'[d] = stage[d]
    BY <1>2, <1>3
<1>13. Live /\ downloadPipe # <<>> => \E d \in Downloads : Current(d)'
    BY <1>1, <1>6 DEF DownloadBytes
<1>14. QED
    BY <1>4, <1>10, <1>11, <1>12, <1>13 DEF DownloadBytes, DownloadsIntact

\* A byte moves from the pipe into the target of the one download that runs.
LEMMA DownloadReceived ==
    ASSUME PipeTypeOK, LaneInOrder, DownloadBytes, NEW d \in Downloads, ReceiveByte(d)
    PROVE  DownloadBytes'
<1>1. /\ Current(d) /\ downloadPipe # <<>> /\ disposed' = disposed
      /\ downloadPipe' = Tail(downloadPipe)
      /\ received' = [received EXCEPT ![d] = Append(@, Head(downloadPipe))]
      /\ UNCHANGED <<expected, control, answers, handling, process>>
    BY ReceiveCases DEF ReceiveByte, helperVars
<1>2. \A e \in Downloads : e \in Transfers /\ e \in Operations
    BY DEF Operations, Transfers
<1>3. \A e \in Downloads : Current(e) => e = d
    BY <1>1, <1>2 DEF LaneInOrder
<1>4. \A e \in Downloads : e # d => received'[e] = received[e]
    BY <1>1 DEF PipeTypeOK
<1>5. /\ downloadPipe \in Seq(Downloads) /\ received[d] \in Seq(Downloads)
      /\ received'[d] = Append(received[d], Head(downloadPipe))
    BY <1>1 DEF PipeTypeOK
<1>6. /\ Head(downloadPipe) = downloadPipe[1] /\ 1 \in DOMAIN downloadPipe /\ Head(downloadPipe) \in Downloads
      /\ Len(downloadPipe') = Len(downloadPipe) - 1 /\ Len(downloadPipe) \in Nat
      /\ \A i \in DOMAIN downloadPipe' : i + 1 \in DOMAIN downloadPipe /\ downloadPipe'[i] = downloadPipe[i + 1]
    BY <1>1, <1>5, Taken, TailMembers
<1>7. /\ Len(received'[d]) = Len(received[d]) + 1 /\ Len(received[d]) \in Nat
      /\ \A i \in DOMAIN received'[d] :
            (i \in DOMAIN received[d] /\ received'[d][i] = received[d][i]) \/ received'[d][i] = Head(downloadPipe)
    BY <1>5, <1>6, Appended
<1>8. Carried(d)' = Carried(d)
    BY <1>6, <1>7 DEF Carried
<1>9. OnlyOwn(d) => OnlyOwn(d)'
    BY <1>6, <1>7 DEF OnlyOwn
<1>10. \A e \in Downloads : stage'[e] = stage[e] \/ (e = d /\ stage[d] = "tail" /\ stage'[e] = "ok")
    BY <1>2, ReceiveCases DEF Stops
<1>11. ASSUME stage'[d] = "ok"
       PROVE  received'[d] = Body(d, expected[d]) /\ downloadPipe' = <<>>
  <2>1. stage[d] = "tail" /\ Len(received'[d]) >= expected[d]
    BY <1>1, <1>11, ReceiveCases DEF Current
  <2>2. OnlyOwn(d)' /\ Carried(d)' = expected[d] /\ expected[d] \in Nat
    BY <1>8, <1>9, <2>1 DEF DownloadBytes, PipeTypeOK
  <2>3. received'[d] \in Seq(Downloads) /\ downloadPipe' \in Seq(Downloads)
    BY <1>1, <1>5, <1>6, Taken, Appended
  <2>4. QED
    BY <2>1, <2>2, <2>3, Complete DEF Carried, OnlyOwn
<1>12. (Live' <=> Live) /\ \A o : InControl(o)' <=> InControl(o)
    BY <1>1 DEF Live, InControl
<1>13. ASSUME NEW e \in Downloads, stage'[e] = "active"
       PROVE  e = d /\ stage[d] = "active"
    BY <1>3, <1>10, <1>13 DEF Current
<1>14. ASSUME Live, NEW e \in Downloads, stage'[e] = "active"
       PROVE  /\ OnlyOwn(e)'
              /\ InControl(e)' => Carried(e)' = 0
              /\ handling'.op = e => Carried(e)' = handling'.moved
              /\ \A i \in DOMAIN answers' :
                    answers'[i].op = e /\ ~answers'[i].ok => Carried(e)' = 0
    BY <1>1, <1>8, <1>9, <1>12, <1>13, <1>14 DEF DownloadBytes
<1>15. ASSUME NEW e \in Downloads, stage'[e] = "active",
              NEW i \in DOMAIN answers', answers'[i].op = e, answers'[i].ok
       PROVE  OnlyOwn(e)' /\ Carried(e)' = answers'[i].bytes
    BY <1>1, <1>8, <1>9, <1>13, <1>15 DEF DownloadBytes
<1>16. ASSUME NEW e \in Downloads, stage'[e] = "tail"
       PROVE  OnlyOwn(e)' /\ Carried(e)' = expected'[e]
  <2>1. e = d /\ stage[d] = "tail"
    BY <1>3, <1>10, <1>16 DEF Current
  <2>2. QED
    BY <1>1, <1>8, <1>9, <2>1 DEF DownloadBytes
<1>17. ASSUME NEW e \in Downloads, stage'[e] = "ok" PROVE received'[e] = Body(e, expected'[e])
  <2>1. CASE e = d
    BY <1>1, <1>11, <1>17, <2>1
  <2>2. CASE e # d
    BY <1>1, <1>4, <1>10, <1>17, <2>2 DEF DownloadBytes, DownloadsIntact
  <2>3. QED
    BY <2>1, <2>2
<1>18. ASSUME NEW e \in Downloads, stage'[e] \in {"idle", "queued"} PROVE received'[e] = <<>>
    BY <1>1, <1>4, <1>10, <1>18 DEF DownloadBytes, Current
<1>19. downloadPipe' # <<>> => \E e \in Downloads : Current(e)'
    BY <1>1, <1>10, <1>11 DEF Current
<1>20. QED
    BY <1>12, <1>14, <1>15, <1>16, <1>17, <1>18, <1>19 DEF DownloadBytes, DownloadsIntact

\* The answer to a download finds its bytes in the target and in the pipe.
LEMMA DownloadLine ==
    ASSUME PipeTypeOK, LaneInOrder, DownloadBytes, HandleLine
    PROVE  DownloadBytes'
<1> DEFINE o == Head(answers).op
           n == Head(answers).bytes
<1>1. /\ UNCHANGED <<received, downloadPipe, control, handling, process, disposed>>
      /\ \A i \in DOMAIN answers' : \E j \in DOMAIN answers : answers'[i] = answers[j]
      /\ n \in Nat /\ o \in Operations
    BY LineCases, TailAnswered DEF helperVars, Answer
<1>2. PICK i \in DOMAIN answers : Head(answers) = answers[i]
    BY LineCases, TailAnswered
<1>3. \A d \in Downloads : d \in Operations /\ d \in Transfers
    BY DEF Operations, Transfers
<1>4. stage[o] = "active" => ~disposed
    BY <1>1 DEF LaneInOrder, Pending
<1>5. ASSUME Live, o \in Downloads, stage[o] = "active", ~Head(answers).ok PROVE downloadPipe = <<>>
    BY <1>2, <1>5, NothingCarried DEF DownloadBytes
<1>6. ASSUME o \in Downloads, stage[o] = "active", Head(answers).ok
      PROVE  /\ OnlyOwn(o) /\ Carried(o) = n
             /\ ~(Len(received[o]) < n) => received[o] = Body(o, n) /\ downloadPipe = <<>>
  <2>1. OnlyOwn(o) /\ Carried(o) = n
    BY <1>2, <1>6 DEF DownloadBytes
  <2>2. Len(received[o]) \in Nat
    BY <1>6, LenProperties DEF PipeTypeOK
  <2>3. ~(Len(received[o]) < n) => Len(received[o]) >= n
    BY <1>1, <2>2
  <2>4. received[o] \in Seq(Downloads) /\ downloadPipe \in Seq(Downloads)
    BY <1>6 DEF PipeTypeOK
  <2>5. QED
    BY <1>1, <1>6, <2>1, <2>3, <2>4, Complete DEF Carried, OnlyOwn
<1>7. ASSUME Live, ~disposed', downloadPipe # <<>>
      PROVE  \E d \in Downloads : Current(d)'
  <2>1. PICK d \in Downloads : Current(d)
    BY <1>1, <1>7 DEF DownloadBytes
  <2>2. CASE d # o
    BY <1>3, <2>1, <2>2, LineCases DEF Stops, Waits, PipeTypeOK, Current
  <2>3. CASE d = o /\ stage[o] = "active"
    BY <1>3, <1>5, <1>6, <1>7, <2>3, LineCases DEF Waits, PipeTypeOK, Current
  <2>4. CASE d = o /\ stage[o] # "active"
    BY <2>1, <2>4, LineCases DEF Current
  <2>5. QED
    BY <2>2, <2>3, <2>4
<1>8. ASSUME NEW d \in Downloads
      PROVE  /\ stage'[d] = "active" => stage[d] = "active"
             /\ stage'[d] \in {"idle", "queued"} => stage[d] \in {"idle", "queued"}
             /\ stage'[d] = "tail" =>
                   \/ stage[d] = "tail" /\ expected'[d] = expected[d]
                   \/ OnlyOwn(d) /\ Carried(d) = expected'[d]
             /\ stage'[d] = "ok" =>
                   \/ stage[d] = "ok" /\ expected'[d] = expected[d]
                   \/ received[d] = Body(d, expected'[d])
  <2>1. CASE d # o
    <3>1. stage'[d] = stage[d]
        BY <1>3, <2>1, LineCases DEF Stops, Waits, PipeTypeOK
    <3>2. expected'[d] = expected[d]
        BY <2>1, LineCases DEF PipeTypeOK
    <3>3. QED
        BY <3>1, <3>2
  <2>2. CASE d = o /\ ~(stage[o] = "active" /\ Head(answers).ok)
    BY <1>3, <2>2, LineCases DEF Stops
  <2>3. CASE d = o /\ stage[o] = "active" /\ Head(answers).ok
    <3>1. expected'[d] = n
        BY <2>3, LineCases DEF PipeTypeOK
    <3>2. \/ stage'[d] = "tail"
          \/ stage'[d] = "ok" /\ ~(Len(received[o]) < n)
        BY <1>3, <2>3, LineCases DEF Stops, Waits, PipeTypeOK
    <3>3. QED
        BY <1>6, <2>3, <3>1, <3>2
  <2>4. QED
    BY <2>1, <2>2, <2>3
<1>9. QED
    BY <1>1, <1>7, <1>8, DownloadClient

\* What the client has, and its part of the invariant, is untouched.
LEMMA DownloadHelper ==
    ASSUME PipeTypeOK, DownloadBytes, UNCHANGED <<clientVars, downloadPipe>>, Live' => Live,
           \A x \in Downloads : InControl(x)' => InControl(x),
           \A d \in Downloads : Live' /\ handling'.op = d /\ stage[d] = "active" =>
              Carried(d) = handling'.moved,
           \A i \in DOMAIN answers' :
              \/ \E j \in DOMAIN answers : answers'[i] = answers[j]
              \/ answers'[i].op \notin Downloads
              \/ stage[answers'[i].op] = "active" =>
                    IF answers'[i].ok
                    THEN OnlyOwn(answers'[i].op) /\ Carried(answers'[i].op) = answers'[i].bytes
                    ELSE Live' => Carried(answers'[i].op) = 0
    PROVE  DownloadBytes'
<1>1. /\ UNCHANGED <<stage, disposed, received, expected>>
      /\ \A o : (OnlyOwn(o)' <=> OnlyOwn(o)) /\ Carried(o)' = Carried(o) /\ (Current(o)' <=> Current(o))
    BY DEF clientVars, OnlyOwn, Carried, Current
<1>2. ASSUME Live', NEW d \in Downloads, stage[d] = "active"
      PROVE  /\ OnlyOwn(d)
             /\ InControl(d)' => Carried(d) = 0
             /\ handling'.op = d => Carried(d) = handling'.moved
             /\ \A i \in DOMAIN answers' :
                   answers'[i].op = d /\ ~answers'[i].ok => Carried(d) = 0
    BY <1>2 DEF DownloadBytes
<1>3. ASSUME NEW d \in Downloads, stage[d] = "active",
             NEW i \in DOMAIN answers', answers'[i].op = d, answers'[i].ok
      PROVE  OnlyOwn(d) /\ Carried(d) = answers'[i].bytes
    BY <1>3 DEF DownloadBytes
<1>4. QED
    BY <1>1, <1>2, <1>3 DEF DownloadBytes, DownloadsIntact

LEMMA DownloadTaken ==
    ASSUME PipeTypeOK, HelperFollows, DownloadBytes, Take
    PROVE  DownloadBytes'
<1> DEFINE h == Head(control)
<1>1. /\ control # <<>> /\ control' = Tail(control) /\ Live /\ h \in Operations
      /\ control \in Seq(Operations) /\ UNCHANGED <<clientVars, downloadPipe>>
      /\ 1 \in DOMAIN control /\ h = control[1]
    BY TakeCases, Taken DEF PipeTypeOK
<1>2. \A x : InControl(x)' => InControl(x)
    BY <1>1, TailMembers DEF InControl
<1>3. InControl(h)
    BY <1>1 DEF InControl
<1>4. h \in Downloads /\ stage[h] = "active" => Carried(h) = 0
    BY <1>1, <1>3 DEF DownloadBytes
<1>5. NoOp \notin Downloads /\ h \in Downloads => h \notin Requests
    BY PipeAssumption DEF Operations, Transfers
<1>6. ASSUME NEW ok \in BOOLEAN, Answers(h, ok, 0), h \in Downloads => ~ok
      PROVE  DownloadBytes'
  <2>1. handling'.op \notin Downloads
    BY <1>6, IdleHandled, PipeAssumption DEF Answers, Operations, Transfers
  <2>2. Live' => Live
    BY <1>1
  <2>3. ASSUME NEW i \in DOMAIN answers'
        PROVE  \/ \E j \in DOMAIN answers : answers'[i] = answers[j]
               \/ answers'[i].op = h /\ answers'[i].ok = ok
    BY <1>1, <1>6, AnswersMembers
  <2>4. QED
    BY <1>1, <1>2, <1>4, <1>6, <2>1, <2>2, <2>3, DownloadHelper
<1>7. ASSUME NEW ph \in Phases, Start(ph) PROVE DownloadBytes'
  <2>1. handling'.op = h /\ handling'.moved = 0 /\ answers' = answers
    BY <1>1, <1>7, StartType DEF Start
  <2>2. QED
    BY <1>1, <1>2, <1>4, <2>1, DownloadHelper
<1>8. {"copying", "discarding", "sending"} \subseteq Phases
    BY DEF Phases
<1>9. Head(control) \in Requests => h \notin Downloads
    BY PipeAssumption DEF Transfers
<1>10. QED
    BY <1>6, <1>7, <1>8, <1>9, TakeCases

LEMMA DownloadAnswered ==
    ASSUME PipeTypeOK, DownloadBytes, ReadFails \/ ReadEnds
    PROVE  DownloadBytes'
<1> DEFINE h == handling.op
<1>1. /\ h \in Downloads /\ h \in Operations /\ handling.moved \in Nat /\ Live
      /\ UNCHANGED <<clientVars, downloadPipe, control>>
    BY ReadCases DEF PipeTypeOK, Handled, Operations, Transfers
<1>2. stage[h] = "active" => OnlyOwn(h) /\ Carried(h) = handling.moved
    BY <1>1 DEF DownloadBytes
<1>3. PICK ok \in BOOLEAN, n \in Nat :
         /\ Answers(h, ok, n)
         /\ IF ok THEN n = handling.moved ELSE Live' => handling.moved = 0
    BY <1>1, ReadCases
<1>4. handling'.op \notin Downloads
    BY <1>3, IdleHandled, PipeAssumption DEF Answers, Operations, Transfers
<1>5. ASSUME NEW i \in DOMAIN answers'
      PROVE  \/ \E j \in DOMAIN answers : answers'[i] = answers[j]
             \/ answers'[i].op = h /\ answers'[i].ok = ok /\ answers'[i].bytes = n
    BY <1>1, <1>3, AnswersMembers
<1>6. \A x \in Downloads : InControl(x)' => InControl(x)
    BY <1>1 DEF InControl
<1>7. QED
    BY <1>1, <1>2, <1>3, <1>4, <1>5, <1>6, DownloadHelper

\* Uploads, and the end of the helper.
LEMMA DownloadOther ==
    ASSUME PipeTypeOK, DownloadBytes,
           Rename \/ Discarded \/ CopyByte \/ CopyFails \/ DiscardByte \/ HelperEnds \/ UNCHANGED vars
    PROVE  DownloadBytes'
<1>1. UNCHANGED <<clientVars, downloadPipe, control>> /\ (Live' => Live)
    BY RenameCases, DiscardedCases
    DEF CopyByte, CopyFails, DiscardByte, HelperEnds, vars, helperVars, pipes, Live
<1>2. \A x \in Downloads : InControl(x)' => InControl(x)
    BY <1>1 DEF InControl
<1>3. ASSUME HelperEnds \/ UNCHANGED vars PROVE DownloadBytes'
  <2>1. answers' = answers /\ handling' = handling
    BY <1>3 DEF HelperEnds, vars, pipes, helperVars
  <2>2. \A d \in Downloads : Live' /\ handling'.op = d /\ stage[d] = "active" =>
           Carried(d) = handling'.moved
    BY <1>1, <2>1 DEF DownloadBytes
  <2>3. QED
    BY <1>1, <1>2, <2>1, <2>2, DownloadHelper
<1>4. ASSUME Rename \/ Discarded \/ CopyByte \/ CopyFails \/ DiscardByte PROVE DownloadBytes'
  <2>1. handling.op \in Uploads /\ handling.op \notin Downloads /\ handling \in Handled
    BY <1>4, RenameCases, DiscardedCases, PipeAssumption
    DEF CopyByte, CopyFails, DiscardByte, Handling, PipeTypeOK
  <2>2. /\ handling'.op \notin Downloads
        /\ \A i \in DOMAIN answers' :
              (\E j \in DOMAIN answers : answers'[i] = answers[j]) \/ answers'[i].op \notin Downloads
    <3>1. CASE Rename \/ Discarded
      <4>1. PICK ok \in BOOLEAN, n \in Nat : Answers(handling.op, ok, n)
        BY <3>1, RenameCases, DiscardedCases, PipeAssumption
      <4>2. handling'.op \notin Downloads
        BY <4>1, IdleHandled, PipeAssumption DEF Answers, Operations, Transfers
      <4>3. handling.op \in Operations
        BY <2>1 DEF Operations, Transfers
      <4>4. QED
        BY <2>1, <4>1, <4>2, <4>3, AnswersMembers
    <3>2. CASE CopyByte
        BY <2>1, <3>2 DEF CopyByte
    <3>3. CASE CopyFails \/ DiscardByte
        BY <2>1, <3>3 DEF CopyFails, DiscardByte, Handled
    <3>4. QED
        BY <1>4, <3>1, <3>2, <3>3
  <2>3. QED
    BY <1>1, <1>2, <2>2, DownloadHelper
<1>5. QED
    BY <1>3, <1>4

\* The helper writes a byte of the download it handles, which is the one that runs.
LEMMA DownloadWritten ==
    ASSUME PipeTypeOK, LaneInOrder, HelperFollows, DownloadBytes, WriteByte
    PROVE  DownloadBytes'
<1> DEFINE h == handling.op
<1>1. /\ h \in Downloads /\ h \in Transfers /\ handling \in Handled /\ handling.moved \in Nat
      /\ Live /\ Live' /\ Busy(h)
      /\ downloadPipe' = Append(downloadPipe, h)
      /\ UNCHANGED <<stage, disposed, received, expected, control, answers>>
    BY DEF WriteByte, Handling, Live, Busy, PipeTypeOK, Handled, Transfers, clientVars
<1>2. handling'.op = h /\ handling'.moved = handling.moved + 1
    BY <1>1 DEF WriteByte, Handled
<1>3. /\ DOMAIN downloadPipe' = 1..Len(downloadPipe) + 1 /\ DOMAIN downloadPipe = 1..Len(downloadPipe)
      /\ Len(downloadPipe') = Len(downloadPipe) + 1 /\ Len(downloadPipe) \in Nat
      /\ \A i \in DOMAIN downloadPipe : downloadPipe'[i] = downloadPipe[i]
      /\ downloadPipe'[Len(downloadPipe) + 1] = h
      /\ \A i \in DOMAIN downloadPipe' : i \in DOMAIN downloadPipe \/ i = Len(downloadPipe) + 1
  <2>1. downloadPipe \in Seq(Downloads)
    BY DEF PipeTypeOK
  <2>2. h \in Downloads /\ downloadPipe' = Append(downloadPipe, h)
    BY <1>1
  <2> HIDE DEF h
  <2> QED
    BY <2>1, <2>2, Appended
<1>4. \A d \in Downloads : stage[d] # "tail"
    BY <1>1 DEF HelperFollows
<1>5. ASSUME NEW d \in Downloads, stage[d] = "active" PROVE d = h /\ ~Answered(d) /\ ~InControl(d)
  <2>1. ~disposed /\ d \in Transfers
    BY <1>5 DEF LaneInOrder, Pending, Operations, Transfers
  <2>2. stage[h] = "active"
    BY <1>1, <2>1 DEF HelperFollows
  <2>3. d = h
    BY <1>1, <1>5, <2>1, <2>2 DEF LaneInOrder, Current
  <2>4. QED
    BY <1>1, <2>1, <2>3 DEF HelperFollows
<1>6. ASSUME NEW d \in Downloads, stage[d] = "active" PROVE OnlyOwn(d)' /\ Carried(d)' = handling'.moved
  <2>1. OnlyOwn(d) /\ Carried(d) = handling.moved
    BY <1>1, <1>5, <1>6 DEF DownloadBytes
  <2>2. Len(received[d]) \in Nat
    BY <1>6, LenProperties DEF PipeTypeOK
  <2>3. OnlyOwn(d)'
    BY <1>1, <1>3, <1>5, <1>6, <2>1 DEF OnlyOwn
  <2>4. Carried(d)' = handling'.moved
    <3>1. Len(received[d]) + Len(downloadPipe) = handling.moved
        BY <2>1 DEF Carried
    <3>2. received'[d] = received[d]
        BY <1>1
    <3>3. /\ Len(downloadPipe) \in Nat /\ Len(downloadPipe') = Len(downloadPipe) + 1
          /\ handling.moved \in Nat /\ handling'.moved = handling.moved + 1
        BY <1>1, <1>2, <1>3
    <3>4. Len(received[d]) + (Len(downloadPipe) + 1) = handling.moved + 1
      <4> DEFINE a == Len(received[d])
                 b == Len(downloadPipe)
                 c == handling.moved
      <4>1. a \in Nat /\ b \in Nat /\ a + b = c
        BY <2>2, <3>1, <3>3
      <4> HIDE DEF a, b, c
      <4>2. a + (b + 1) = c + 1
        BY <4>1
      <4> QED
        BY <4>2 DEF a, b, c
    <3>5. QED
        BY ONLY <3>2, <3>3, <3>4 DEF Carried
  <2>5. QED
    BY <2>3, <2>4
<1>7. \A d \in Downloads : stage[d] = "active" =>
         ~InControl(d)' /\ (\A i \in DOMAIN answers' : answers'[i].op # d)
    BY <1>1, <1>5 DEF InControl, Answered
<1>8. ~disposed' => \E d \in Downloads : Current(d)'
    BY <1>1 DEF HelperFollows, Current
<1>9. QED
    BY <1>1, <1>4, <1>6, <1>7, <1>8 DEF DownloadBytes, DownloadsIntact

LEMMA DownloadStep ==
    ASSUME PipeTypeOK, LaneInOrder, HelperFollows, DownloadBytes, [Next]_vars
    PROVE  DownloadBytes'
<1>1. LaneInOrder'
    BY LaneStep
<1>2. \A d \in Downloads : d \in Operations /\ d \in Transfers
    BY DEF Operations, Transfers
<1>3. ASSUME UNCHANGED <<received, expected, downloadPipe, control, handling, process, answers>>,
             \/ \E C : /\ Stops(C, "failed")
                       /\ disposed' \/ ~Live \/ (\A d \in Downloads : d \in C => ~Current(d))
             \/ \E c \in Transfers : CallTransfer(c)
             \/ stage' = stage /\ disposed' = disposed
      PROVE  DownloadBytes'
  <2>1. \A i \in DOMAIN answers' : \E j \in DOMAIN answers : answers'[i] = answers[j]
    BY <1>3
  <2>2. ASSUME NEW d \in Downloads
        PROVE  /\ stage'[d] = "active" => stage[d] = "active"
               /\ stage'[d] \in {"tail", "ok"} => stage'[d] = stage[d]
               /\ stage'[d] \in {"idle", "queued"} => stage[d] \in {"idle", "queued"}
    BY <1>2, <1>3 DEF Stops, CallTransfer, PipeTypeOK
  <2>3. ASSUME Live, ~disposed', downloadPipe # <<>> PROVE \E d \in Downloads : Current(d)'
    <3>1. ~disposed
        BY <1>3, <2>3 DEF Stops, CallTransfer
    <3>2. PICK d \in Downloads : Current(d)
        BY <2>3, <3>1 DEF DownloadBytes
    <3>3. Current(d)'
        BY <1>2, <1>3, <2>3, <3>2 DEF Stops, CallTransfer, PipeTypeOK, Current
    <3>4. QED
        BY <3>3
  <2>4. QED
    BY <1>3, <2>1, <2>2, <2>3, DownloadClient
<1>4. ASSUME NEW o \in Operations,
             (o \in Requests /\ CallRequest(o)) \/ (o \in Transfers /\ Begin(o))
      PROVE  DownloadBytes'
  <2>1. /\ UNCHANGED <<received, expected, downloadPipe, handling, process, answers>>
        /\ stage[o] \in {"idle", "queued"}
    BY <1>4, CallCases DEF helperVars
  <2>2. CASE Stops({o}, "failed") /\ control' = control
    <3>1. \A d \in Downloads : d \in {o} => ~Current(d)
        BY <2>1 DEF Current
    <3>2. QED
        BY <1>3, <2>1, <2>2, <3>1
  <2>3. CASE Starts(o) /\ control' = Append(control, o)
    BY <1>1, <2>1, <2>3, DownloadSent
  <2>4. QED
    BY <1>4, <2>2, <2>3, CallCases
<1>5. ASSUME (\E c \in Transfers : CallTransfer(c)) \/ (\E u \in Uploads : SendByte(u))
      PROVE  DownloadBytes'
    BY <1>3, <1>5 DEF CallTransfer, SendByte, helperVars, pipes
<1>6. ASSUME (\E o \in Operations : Abort(o)) \/ Dispose \/ StreamError \/ ChildCloses
      PROVE  DownloadBytes'
  <2>1. UNCHANGED <<received, expected, downloadPipe, control, handling, process, answers>>
    BY <1>6, GiveUpCases DEF pipes, helperVars
  <2>2. \E C : /\ Stops(C, "failed")
               /\ disposed' \/ ~Live \/ (\A d \in Downloads : d \in C => ~Current(d))
    BY <1>2, <1>6, GiveUpCases DEF Live
  <2>3. QED
    BY <1>3, <2>1, <2>2
<1>7. QED
    BY <1>4, <1>5, <1>6, DownloadReceived, DownloadLine, DownloadTaken, DownloadAnswered, DownloadOther,
       DownloadWritten
    DEF Next, Client, Helper, Operations

-----------------------------------------------------------------------------
(* Theorems *)

LEMMA PipeInit == Init => PipeInv
<1> SUFFICES ASSUME Init PROVE PipeInv
    OBVIOUS
<1> USE DEF Init
<1>1. PipeTypeOK
  <2>1. /\ <<>> \in Seq(Operations) /\ <<>> \in Seq(Answer) /\ <<>> \in Seq(Uploads) /\ <<>> \in Seq(Downloads)
    BY EmptySeq
  <2>2. handling \in Handled /\ handling.phase = "idle"
    BY IdleHandled
  <2>3. QED
    BY <2>1, <2>2 DEF PipeTypeOK, Stages
<1>2. \A o \in Operations : stage[o] = "idle"
    OBVIOUS
<1>3. \A t \in Transfers : t \in Operations
    BY DEF Operations
<1>4. LaneInOrder
    BY <1>2, <1>3 DEF LaneInOrder, Over, Current, Settled, Pending
<1>5. DOMAIN control = {} /\ DOMAIN answers = {} /\ DOMAIN uploadPipe = {} /\ Len(uploadPipe) = 0
    BY EmptySeq
<1>6. \A o \in Operations : ~Busy(o) /\ ~Answered(o) /\ ~InControl(o)
    BY <1>5, IdleHandled, PipeAssumption DEF Busy, Answered, InControl
<1>7. HelperFollows
    BY <1>2, <1>3, <1>5, <1>6 DEF HelperFollows, Transfers
<1>8. handling.op \notin Uploads /\ handling.phase # "copying"
    BY IdleHandled, PipeAssumption DEF Operations, Transfers
<1>9. UploadBytes
    BY <1>2, <1>3, <1>5, <1>6, <1>8, PipeAssumption DEF UploadBytes, Transfers
<1>10. DownloadBytes
    BY <1>2, <1>3, <1>5 DEF DownloadBytes, DownloadsIntact, Transfers
<1>11. Truthful
    BY <1>2, <1>5 DEF Truthful
<1>12. QED
    BY <1>1, <1>4, <1>7, <1>9, <1>10, <1>11 DEF PipeInv

LEMMA PipeStep == PipeInv /\ [Next]_vars => PipeInv'
BY TypeStep, LaneStep, FollowsStep, UploadStep, DownloadStep, TruthfulStep DEF PipeInv

\* The whole inductive invariant: the lane runs one transfer at a time, the helper
\* has no other, and the bytes on the pipes are its bytes.
THEOREM PipeInvariant == Spec => []PipeInv
BY PipeInit, PipeStep, PTL DEF Spec

\* A file that an upload puts in place holds the body of that upload, and an upload
\* succeeds only with its file in place, for any number of transfers and any size.
THEOREM UploadsAreIntact == Spec => []UploadsIntact
<1>1. PipeInv => UploadsIntact
    BY DEF PipeInv, UploadBytes, UploadsIntact
<1>2. QED
    BY <1>1, PipeInvariant, PTL

\* A download that succeeds got the bytes that the helper counted for it, all of
\* them and no others.
THEOREM DownloadsAreIntact == Spec => []DownloadsIntact
<1>1. PipeInv => DownloadsIntact
    BY DEF PipeInv, DownloadBytes
<1>2. QED
    BY <1>1, PipeInvariant, PTL

\* No call succeeds for which the helper has not answered so.
THEOREM AnswersAreMatched == Spec => []AnswersMatch
<1>1. PipeInv => AnswersMatch
    BY DEF PipeInv, Truthful, AnswersMatch
<1>2. QED
    BY <1>1, PipeInvariant, PTL
=============================================================================
