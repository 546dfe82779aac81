------------------------------- MODULE SftpPipe -------------------------------
(***************************************************************************)
(* The client of the SFTP helper (src/server/sftp-helper.ts) and the       *)
(* helper process (cmd/connexin-sftp/protocol.go) with the four pipes      *)
(* between them.  Requests and answers are lines that carry an id; the     *)
(* bodies of transfers are bare bytes on two pipes of their own, with no   *)
(* framing and no order between them and the lines.                        *)
(*                                                                         *)
(* A byte is written as the transfer it belongs to.  A body is BodyBytes   *)
(* long.  Requests to list, inspect and change files are all alike here.   *)
(***************************************************************************)
EXTENDS Naturals, FiniteSets, Sequences

CONSTANTS
    Uploads, Downloads,  \* calls of upload and download
    Requests,            \* calls of request for anything else
    MaxPending,          \* options.maxPending
    BodyBytes,           \* what an upload announces, a download allows
    NoOp

Transfers == Uploads \union Downloads
Operations == Transfers \union Requests

ASSUME PipeAssumption ==
    /\ MaxPending \in Nat /\ BodyBytes \in Nat \ {0}
    /\ Uploads \intersect Downloads = {} /\ Transfers \intersect Requests = {}
    /\ NoOp \notin Operations

VARIABLES
    disposed,
    stage,      \* of each call
    transferTail, \* how many times exclusiveTransfer was called
    turn,       \* of each transfer: the number of its call, 0 before it
    received,   \* the bytes that reached the target of a download
    expected,   \* the length a download was answered with
    control,    \* stdin: requests
    answers,    \* stdout: answers
    uploadPipe, \* descriptor 3
    downloadPipe, \* descriptor 4
    sent,       \* how much of an upload's body its source has given
    process,    \* "running", "ended"
    handling,   \* the request of the helper's loop, and how far it is
    desynced,
    committed,  \* the files that uploads have put in place
    served      \* history: what the helper has answered with success

lane == <<transferTail, turn>>
clientVars == <<disposed, stage, lane, received, expected, sent>>
helperVars == <<process, handling, desynced, committed, served>>
pipes == <<control, answers, uploadPipe, downloadPipe>>
vars == <<clientVars, pipes, helperVars>>

\* copied: what the temporary file of an upload holds; moved: how much of the
\* body the helper has taken from, or put into, a pipe.
Idle == [op |-> NoOp, phase |-> "idle", copied |-> <<>>, moved |-> 0]

Init ==
    /\ disposed = FALSE
    /\ stage = [o \in Operations |-> "idle"]
    /\ transferTail = 0
    /\ turn = [t \in Transfers |-> 0]
    /\ received = [d \in Downloads |-> <<>>]
    /\ expected = [d \in Downloads |-> 0]
    /\ sent = [u \in Uploads |-> 0]
    /\ control = <<>> /\ answers = <<>>
    /\ uploadPipe = <<>> /\ downloadPipe = <<>>
    /\ process = "running"
    /\ handling = Idle
    /\ desynced = FALSE
    /\ committed = [u \in Uploads |-> <<>>]
    /\ served = {}

-----------------------------------------------------------------------------
(* The client *)

\* The keys of the map pending: a request stays there until it is settled.
Pending == {o \in Operations : stage[o] = "active"}

\* Promises are settled.
Settle(calls, result) ==
    stage' = [o \in Operations |-> IF o \in calls THEN result ELSE stage[o]]

\* The call before it has left exclusiveTransfer: the promise previous, which
\* that call put in transferTail, is resolved.
Released(t) ==
    \A s \in Transfers : turn[s] + 1 = turn[t] => stage[s] \in {"idle", "ok", "failed"}

\* request: refused, or written as a line.
Send(o) ==
    IF disposed \/ Cardinality(Pending) >= MaxPending
    THEN Settle({o}, "failed") /\ UNCHANGED control
    ELSE /\ stage' = [stage EXCEPT ![o] = "active"]
         /\ control' = Append(control, o)

CallRequest(r) ==
    /\ stage[r] = "idle"
    /\ Send(r)
    /\ UNCHANGED <<disposed, lane, received, expected, sent, answers, uploadPipe, downloadPipe, helperVars>>

\* upload and download, up to the wait of exclusiveTransfer.
CallTransfer(t) ==
    /\ stage[t] = "idle"
    /\ stage' = [stage EXCEPT ![t] = "queued"]
    /\ transferTail' = transferTail + 1
    /\ turn' = [turn EXCEPT ![t] = transferTail']
    /\ UNCHANGED <<disposed, received, expected, sent, pipes, helperVars>>

\* The wait is over: the source or the target is piped, and the request is sent.
Begin(t) ==
    /\ stage[t] = "queued"
    /\ Released(t)
    /\ Send(t)
    /\ UNCHANGED <<disposed, lane, received, expected, sent, answers, uploadPipe, downloadPipe, helperVars>>

\* The source of an upload gives a byte; it is piped until the answer.
SendByte(u) ==
    /\ stage[u] = "active"
    /\ sent[u] < BodyBytes
    /\ process = "running"
    /\ sent' = [sent EXCEPT ![u] = @ + 1]
    /\ uploadPipe' = Append(uploadPipe, u)
    /\ UNCHANGED <<disposed, stage, lane, received, expected, control, answers, downloadPipe, helperVars>>

\* The pipe flows into the target of the download that runs.  The byte that
\* completes an answered download settles it.
ReceiveByte(d) ==
    /\ stage[d] \in {"active", "tail"}
    /\ downloadPipe # <<>>
    /\ received' = [received EXCEPT ![d] = Append(@, Head(downloadPipe))]
    /\ downloadPipe' = Tail(downloadPipe)
    /\ IF stage[d] = "tail" /\ Len(received'[d]) >= expected[d]
       THEN Settle({d}, "ok")
       ELSE UNCHANGED stage
    /\ UNCHANGED <<disposed, lane, expected, sent, control, answers, uploadPipe, helperVars>>

\* What an answer with success does to its call: a download may still wait for
\* bytes that are in the pipe.
Resolve(o, bytes) ==
    IF o \in Downloads /\ Len(received[o]) < bytes
    THEN /\ stage' = [stage EXCEPT ![o] = "tail"]
         /\ expected' = [expected EXCEPT ![o] = bytes]
    ELSE /\ Settle({o}, "ok")
         /\ expected' = IF o \in Downloads THEN [expected EXCEPT ![o] = bytes] ELSE expected

\* Mutant: an answer goes to the call that has waited longest.
HandleLineInOrder ==
    /\ answers # <<>>
    /\ answers' = Tail(answers)
    /\ \E o \in Pending \union {NoOp} :
          /\ o = NoOp => Pending = {}
          /\ IF o = NoOp THEN UNCHANGED <<stage, expected>>
             ELSE IF Head(answers).ok THEN Resolve(o, Head(answers).bytes)
             ELSE Settle({o}, "failed") /\ UNCHANGED expected
    /\ UNCHANGED <<disposed, lane, received, sent, control, uploadPipe, downloadPipe, helperVars>>

\* handleLine: the answer to a call that was settled before is dropped.
HandleLine ==
    /\ answers # <<>>
    /\ answers' = Tail(answers)
    /\ LET answer == Head(answers) IN
          IF answer.op \notin Pending THEN UNCHANGED <<stage, expected>>
          ELSE IF answer.ok THEN Resolve(answer.op, answer.bytes)
          ELSE Settle({answer.op}, "failed") /\ UNCHANGED expected
    /\ UNCHANGED <<disposed, lane, received, sent, control, uploadPipe, downloadPipe, helperVars>>

\* The signal of a request aborts, or the call is given up by its timer.
AbortRequest(r) ==
    /\ stage[r] = "active"
    /\ Settle({r}, "failed")
    /\ UNCHANGED <<disposed, lane, received, expected, sent, pipes, helperVars>>

\* Mutant: in the tail only the bytes are waited for.
AbortBeforeTail(t) ==
    /\ stage[t] \in {"queued", "active"}
    /\ disposed' = TRUE
    /\ Settle(Pending \union {t}, "failed")
    /\ UNCHANGED <<lane, received, expected, sent, pipes, helperVars>>

\* The signal of a transfer aborts: whatever else is pending is rejected, and
\* SIGTERM is sent.  For one that still waits the caller does it, in the same turn.
AbortTransfer(t) ==
    /\ stage[t] \in {"queued", "active", "tail"}
    /\ disposed' = TRUE
    /\ Settle(Pending \union {t}, "failed")
    /\ UNCHANGED <<lane, received, expected, sent, pipes, helperVars>>

\* dispose, by the file session.
Dispose ==
    /\ ~disposed
    /\ disposed' = TRUE
    /\ Settle(Pending, "failed")
    /\ UNCHANGED <<lane, received, expected, sent, pipes, helperVars>>

\* An error event of the child or of a pipe, when the other end is gone.
StreamError ==
    /\ process = "ended" /\ ~disposed
    /\ Pending # {}
    /\ Settle(Pending, "failed")
    /\ UNCHANGED <<disposed, lane, received, expected, sent, pipes, helperVars>>

\* The close event, after the pipes have been read to their ends.
ChildCloses ==
    /\ process = "ended" /\ ~disposed
    /\ answers = <<>>
    /\ \A d \in Downloads : stage[d] # "tail"
    /\ disposed' = TRUE
    /\ Settle(Pending, "failed")
    /\ UNCHANGED <<lane, received, expected, sent, pipes, helperVars>>

-----------------------------------------------------------------------------
(* The helper *)

Handling(phase) == process = "running" /\ handling.phase = phase

\* serveWithHandler answers, and ends when a pipe can no longer be trusted.
Reply(o, ok, bytes, lost) ==
    /\ answers' = Append(answers, [op |-> o, ok |-> ok, bytes |-> bytes])
    /\ served' = IF ok THEN served \union {o} ELSE served
    /\ handling' = Idle
    /\ desynced' = (desynced \/ lost)
    /\ process' = IF desynced' THEN "ended" ELSE process

Start(phase) ==
    /\ handling' = [Idle EXCEPT !.op = Head(control), !.phase = phase]
    /\ UNCHANGED <<answers, served, desynced, process>>

\* Mutant: a refused upload is answered at once.
TakeWithoutDrain ==
    /\ Handling("idle")
    /\ control # <<>>
    /\ control' = Tail(control)
    /\ LET o == Head(control) IN
          \/ Reply(o, FALSE, 0, FALSE)
          \/ o \in Requests /\ Reply(o, TRUE, 0, FALSE)
          \/ o \in Uploads /\ Start("copying")
          \/ o \in Downloads /\ Start("sending")
    /\ UNCHANGED <<clientVars, uploadPipe, downloadPipe, committed>>

\* The next request.  An upload is refused with its body on the way.
Take ==
    /\ Handling("idle")
    /\ control # <<>>
    /\ control' = Tail(control)
    /\ LET o == Head(control) IN
          \/ o \notin Uploads /\ Reply(o, FALSE, 0, FALSE)
          \/ o \in Requests /\ Reply(o, TRUE, 0, FALSE)
          \/ o \in Uploads /\ (Start("copying") \/ Start("discarding"))
          \/ o \in Downloads /\ Start("sending")
    /\ UNCHANGED <<clientVars, uploadPipe, downloadPipe, committed>>

CopyByte ==
    /\ Handling("copying")
    /\ handling.moved < BodyBytes
    /\ uploadPipe # <<>>
    /\ handling' = [op |-> handling.op, phase |-> "copying",
                    copied |-> Append(handling.copied, Head(uploadPipe)), moved |-> handling.moved + 1]
    /\ uploadPipe' = Tail(uploadPipe)
    /\ UNCHANGED <<clientVars, control, answers, downloadPipe, process, desynced, committed, served>>

\* The remote file cannot be written: the copy counts what was written, and may
\* have taken more from the pipe.
CopyFails ==
    /\ Handling("copying")
    /\ handling' = [handling EXCEPT !.phase = "discarding"]
    /\ uploadPipe' \in {uploadPipe} \union (IF uploadPipe = <<>> THEN {} ELSE {Tail(uploadPipe)})
    /\ UNCHANGED <<clientVars, control, answers, downloadPipe, process, desynced, committed, served>>

\* The temporary file is complete and gets its name, or does not.
Rename ==
    /\ Handling("copying")
    /\ handling.moved = BodyBytes
    /\ \/ /\ committed' = [committed EXCEPT ![handling.op] = handling.copied]
          /\ Reply(handling.op, TRUE, BodyBytes, FALSE)
       \/ /\ Reply(handling.op, FALSE, 0, FALSE)
          /\ UNCHANGED committed
    /\ UNCHANGED <<clientVars, control, uploadPipe, downloadPipe>>

\* discardUpload.
DiscardByte ==
    /\ Handling("discarding")
    /\ handling.moved < BodyBytes
    /\ uploadPipe # <<>>
    /\ handling' = [handling EXCEPT !.moved = @ + 1]
    /\ uploadPipe' = Tail(uploadPipe)
    /\ UNCHANGED <<clientVars, control, answers, downloadPipe, process, desynced, committed, served>>

\* It is over, or drainTimeout is.
Discarded ==
    /\ Handling("discarding")
    /\ Reply(handling.op, FALSE, 0, handling.moved < BodyBytes)
    /\ UNCHANGED <<clientVars, control, uploadPipe, downloadPipe, committed>>

\* The copy is limited to one byte more than the download allows.
WriteByte ==
    /\ Handling("sending")
    /\ handling.moved <= BodyBytes
    /\ downloadPipe' = Append(downloadPipe, handling.op)
    /\ handling' = [handling EXCEPT !.moved = @ + 1]
    /\ UNCHANGED <<clientVars, control, answers, uploadPipe, process, desynced, committed, served>>

\* Mutant: a read that fails half way is answered like any error.
ReadFailsInSync ==
    /\ Handling("sending")
    /\ Reply(handling.op, FALSE, 0, handling.moved > BodyBytes)
    /\ UNCHANGED <<clientVars, control, uploadPipe, downloadPipe, committed>>

\* The read fails, or the file has grown.
ReadFails ==
    /\ Handling("sending")
    /\ Reply(handling.op, FALSE, 0, handling.moved > 0)
    /\ UNCHANGED <<clientVars, control, uploadPipe, downloadPipe, committed>>

\* The end of the file, which may have become shorter.
ReadEnds ==
    /\ Handling("sending")
    /\ handling.moved <= BodyBytes
    /\ Reply(handling.op, TRUE, handling.moved, FALSE)
    /\ UNCHANGED <<clientVars, control, uploadPipe, downloadPipe, committed>>

\* A signal, a lost connection or a crash.
HelperEnds ==
    /\ process = "running"
    /\ process' = "ended"
    /\ UNCHANGED <<clientVars, pipes, handling, desynced, committed, served>>

-----------------------------------------------------------------------------

Abort(o) ==
    \/ o \in Requests /\ AbortRequest(o)
    \/ o \in Transfers /\ AbortTransfer(o)

Client ==
    \/ \E r \in Requests : CallRequest(r)
    \/ \E t \in Transfers : CallTransfer(t) \/ Begin(t)
    \/ \E o \in Operations : Abort(o)
    \/ \E u \in Uploads : SendByte(u)
    \/ \E d \in Downloads : ReceiveByte(d)
    \/ HandleLine
    \/ Dispose
    \/ StreamError
    \/ ChildCloses

Helper ==
    \/ Take
    \/ CopyByte \/ CopyFails \/ Rename
    \/ DiscardByte \/ Discarded
    \/ WriteByte \/ ReadFails \/ ReadEnds
    \/ HelperEnds

Next == Client \/ Helper

\* The lane goes on, and every call has a timer that aborts it.  Nothing is
\* assumed of the helper, of sources or of targets.
Fairness ==
    /\ WF_vars(\E t \in Transfers : Begin(t))
    /\ WF_vars(\E o \in Operations : Abort(o))

Spec == Init /\ [][Next]_vars

FairSpec == Spec /\ Fairness

-----------------------------------------------------------------------------
(* Properties *)

Body(t, n) == [i \in 1..n |-> t]

\* A file that an upload puts in place holds the body of that upload, whatever
\* became of the transfers before it on the same pipe; an upload succeeds only
\* with its file in place.
UploadsIntact ==
    /\ \A u \in Uploads : committed[u] \in {<<>>, Body(u, BodyBytes)}
    /\ \A u \in Uploads : stage[u] = "ok" => committed[u] # <<>>

\* A download that succeeds got its own bytes, all the bytes the helper counted
\* and no byte of a download that failed before.
DownloadsIntact ==
    \A d \in Downloads : stage[d] = "ok" => received[d] = Body(d, expected[d])

\* A call succeeds only if the helper did what it asked: the late answer to a
\* call that was given up is never taken for the answer to another.
AnswersMatch == \A o \in Operations : stage[o] = "ok" => o \in served

\* Every call that is made is settled, even if the helper hangs, dies, or the
\* target of a download takes no byte: the lane of transfers cannot wedge.
EveryCallSettles ==
    []<>(\A o \in Operations : stage[o] \in {"idle", "ok", "failed"})

=============================================================================
