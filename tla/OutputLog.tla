----------------------------- MODULE OutputLog -----------------------------
(***************************************************************************)
(* The output of a session: the scrollback buffer                          *)
(* (src/shared/bounded-text-buffer.ts), the ring of numbered chunks and    *)
(* pollSession (src/server/session-manager.ts), and the view that polls    *)
(* them through the app tools (src/app/mcp-app.ts).                        *)
(*                                                                         *)
(* Text is not spelled out.  A piece of output is the interval of byte     *)
(* offsets it occupies in everything the process ever wrote, and           *)
(* boundaries holds the offsets between two code points, where alone the   *)
(* helpers of src/shared/utf8.ts may cut.  node-pty never splits a code    *)
(* point between two chunks.                                               *)
(***************************************************************************)
EXTENDS Naturals, Sequences, SequencesExt, FiniteSetsExt

CONSTANTS
    MaxScrollbackBytes,  \* config.maxScrollbackBytes
    MaxOutputChunks,     \* MAX_OUTPUT_CHUNKS
    MaxCodePoint,        \* bytes of the widest code point
    MaxOutput,           \* bound on the bytes written in one behaviour
    MaxLosses,           \* bound on the poll calls that fail
    NoPoll               \* no answer, or no call

ASSUME LogAssumption ==
    /\ MaxScrollbackBytes \in Nat \ {0}
    /\ MaxOutputChunks \in Nat \ {0}
    /\ MaxCodePoint \in 1..4
    /\ MaxOutput \in Nat
    /\ MaxLosses \in Nat

VARIABLES
    boundaries,     \* history: code point boundaries of the whole output
    ends,           \* history: where each chunk ended, by seq
    exited,
    scrollback,     \* the chunks of the BoundedTextBuffer
    totalBytes,     \* its byte count
    outputChunks,
    outputChunkBytes,
    view,           \* the app: cursor, transcript and polling
    call,           \* the poll under way, if any, and its answer
    losses          \* how many calls have failed

logVars == <<boundaries, ends, exited, scrollback, totalBytes, outputChunks, outputChunkBytes>>
vars == <<logVars, view, call, losses>>

Size(piece) == piece.to - piece.from
Bytes(pieces) == FoldLeft(LAMBDA sum, piece : sum + Size(piece), 0, pieces)
Without(pieces, dropped) == SubSeq(pieces, dropped + 1, Len(pieces))

\* nextOutputSeq - 1, and the bytes written so far.
LastSeq == Len(ends)
Written == IF ends = <<>> THEN 0 ELSE Last(ends)
EndOf(seq) == IF seq = 0 THEN 0 ELSE ends[seq]

NewView == [stage |-> "detached", cursor |-> 0, from |-> 0, to |-> 0, gap |-> FALSE]

Init ==
    /\ boundaries = {0}
    /\ ends = <<>>
    /\ exited = FALSE
    /\ scrollback = <<>>
    /\ totalBytes = 0
    /\ outputChunks = <<>>
    /\ outputChunkBytes = 0
    /\ view = NewView
    /\ call = NoPoll
    /\ losses = 0

-----------------------------------------------------------------------------
(* The helpers on pieces of output *)

\* dropFirstUtf8Bytes: the shortest aligned prefix worth minBytes goes.
DropFirst(piece, minBytes, marks) ==
    [piece EXCEPT !.from = Min({m \in marks : m >= piece.from + minBytes})]

\* takeLastUtf8Bytes: the longest aligned suffix of at most maxBytes stays.
TakeLast(piece, maxBytes, marks) ==
    IF Size(piece) <= maxBytes THEN piece
    ELSE [piece EXCEPT !.from = Min({m \in marks : m >= piece.to - maxBytes})]

\* Mutant: the next chunk goes as a whole.
TrimWholeChunks(pieces, overflow, marks) ==
    Without(pieces, Min({n \in 0..Len(pieces) : Bytes(SubSeq(pieces, 1, n)) >= overflow}))

\* BoundedTextBuffer.trim: whole chunks while they fit into the overflow, then
\* the rest of it off the next chunk.
Trim(pieces, overflow, marks) ==
    LET whole == Max({n \in 0..Len(pieces) : Bytes(SubSeq(pieces, 1, n)) <= overflow})
        rest  == overflow - Bytes(SubSeq(pieces, 1, whole))
        kept  == Without(pieces, whole)
    IN  IF rest = 0 THEN kept
        ELSE <<DropFirst(Head(kept), rest, marks)>> \o Tail(kept)

\* How many chunks appendOutputChunk shifts out of a ring of so many bytes.
Evicted(pieces, bytes) ==
    Min({n \in 0..Len(pieces) :
            \/ /\ bytes - Bytes(SubSeq(pieces, 1, n)) <= MaxScrollbackBytes
               /\ Len(pieces) - n <= MaxOutputChunks
            \/ n = Len(pieces)})

-----------------------------------------------------------------------------
(* The session *)

\* BoundedTextBuffer.append.
AppendScrollback(piece, marks) ==
    LET pieces   == Append(scrollback, piece)
        bytes    == totalBytes + Size(piece)
        overflow == bytes - MaxScrollbackBytes
        trimmed  == IF bytes > MaxScrollbackBytes THEN Trim(pieces, overflow, marks) ELSE pieces
    IN  /\ scrollback' = trimmed
        /\ totalBytes' = bytes - (Bytes(pieces) - Bytes(trimmed))

\* appendOutputChunk.
AppendOutputChunk(piece, marks) ==
    LET kept    == TakeLast(piece, MaxScrollbackBytes, marks)
        chunk   == [seq |-> LastSeq + 1, from |-> kept.from, to |-> kept.to,
                    start |-> piece.from]
        ring    == Append(outputChunks, chunk)
        bytes   == outputChunkBytes + Size(kept)
        evicted == Evicted(ring, bytes)
    IN  /\ outputChunks' = Without(ring, evicted)
        /\ outputChunkBytes' = bytes - Bytes(SubSeq(ring, 1, evicted))

\* The onData listener of startSession; cuts are the ends of the code points
\* of one chunk.
PtyData(cuts) ==
    LET piece == [from |-> Written, to |-> Max(cuts)]
        marks == boundaries \union cuts
    IN  /\ ~exited
        /\ \A c \in cuts : \E b \in cuts \union {Written} : b < c /\ c <= b + MaxCodePoint
        /\ boundaries' = marks
        /\ ends' = Append(ends, piece.to)
        /\ AppendScrollback(piece, marks)
        /\ AppendOutputChunk(piece, marks)
        /\ UNCHANGED <<exited, view, call, losses>>

\* The onExit listener; node-pty emits it after the last data.
PtyExit ==
    /\ ~exited
    /\ exited' = TRUE
    /\ UNCHANGED <<boundaries, ends, scrollback, totalBytes, outputChunks,
                   outputChunkBytes, view, call, losses>>

\* What takeLastUtf8Bytes cut off a chunk: truncatedBytes is its size.
Truncated(chunk) == [from |-> chunk.start, to |-> chunk.from]

\* pollSession.
FirstSeq == outputChunks[1].seq
\* Mutant: a cursor one chunk behind the ring passes as current.
StaleCursorByTwo(afterSeq) == outputChunks # <<>> /\ afterSeq + 2 < FirstSeq

StaleCursor(afterSeq) == outputChunks # <<>> /\ afterSeq + 1 < FirstSeq
CursorAhead(afterSeq) == afterSeq > LastSeq

\* The filter keeps what follows them: chunks are in the order of their numbers.
Seen(afterSeq) ==
    Max({n \in 0..Len(outputChunks) : n = 0 \/ outputChunks[n].seq <= afterSeq})

SnapshotPoll ==
    [pieces |-> scrollback, nextSeq |-> LastSeq, reset |-> TRUE, snapshot |-> TRUE,
     truncatedBytes |-> 0, exited |-> exited]

PollSession(afterSeq) ==
    IF StaleCursor(afterSeq) \/ CursorAhead(afterSeq) THEN SnapshotPoll
    ELSE LET chunks    == Without(outputChunks, Seen(afterSeq))
             truncated == Bytes([n \in DOMAIN chunks |-> Truncated(chunks[n])])
         IN  [pieces |-> chunks, nextSeq |-> LastSeq, reset |-> truncated > 0,
              snapshot |-> FALSE, truncatedBytes |-> truncated, exited |-> exited]

-----------------------------------------------------------------------------
(* The view *)

\* appendTerminalOutput, on the stretch of output the terminal shows.  gap:
\* something in the middle is missing or shown twice.
Show(v, piece) ==
    IF Size(piece) = 0 THEN v
    ELSE IF v.from = v.to THEN [v EXCEPT !.from = piece.from, !.to = piece.to]
    ELSE [v EXCEPT !.to = piece.to, !.gap = v.gap \/ v.to # piece.from]

\* Mutant: a reset appends to what the terminal shows.
ClearedNever(v) == v

\* resetTerminalOutput.
Cleared(v) == [v EXCEPT !.from = 0, !.to = 0, !.gap = FALSE]

\* A view starts over: connectTerminal clears the terminal,
\* startAppToolTransport the cursor.  A poll of the old view is forgotten.
AttachView ==
    /\ view' = [NewView EXCEPT !.stage = "first"]
    /\ call' = NoPoll
    /\ UNCHANGED <<logVars, losses>>

\* pollAppToolTransport up to its await: one call at a time.
SendPoll ==
    /\ view.stage \in {"first", "polling"}
    /\ call = NoPoll
    /\ call' = [afterSeq |-> view.cursor, answer |-> NoPoll]
    /\ UNCHANGED <<logVars, view, losses>>

\* poll_connexin_session on the server.
AnswerPoll ==
    /\ call # NoPoll
    /\ call.answer = NoPoll
    /\ call' = [call EXCEPT !.answer = PollSession(call.afterSeq)]
    /\ UNCHANGED <<logVars, view, losses>>

\* Mutant: an answer that reports the exit is not shown any more.
ReceivePollUntilExit ==
    /\ call # NoPoll
    /\ call.answer # NoPoll
    /\ LET poll  == call.answer
           shown == FoldLeft(Show, IF poll.reset THEN Cleared(view) ELSE view, poll.pieces)
       IN  view' = IF poll.exited THEN [view EXCEPT !.stage = "stopped"]
                   ELSE [shown EXCEPT !.cursor = poll.nextSeq, !.stage = "polling"]
    /\ call' = NoPoll
    /\ UNCHANGED <<logVars, losses>>

\* The rest of pollAppToolTransport.  The interval starts after the first
\* poll even if that one found the process dead.
ReceivePoll ==
    /\ call # NoPoll
    /\ call.answer # NoPoll
    /\ LET poll  == call.answer
           shown == FoldLeft(Show, IF poll.reset THEN Cleared(view) ELSE view, poll.pieces)
       IN  view' = [shown EXCEPT !.cursor = poll.nextSeq,
                                 !.stage = IF poll.exited /\ view.stage = "polling"
                                           THEN "stopped" ELSE "polling"]
    /\ call' = NoPoll
    /\ UNCHANGED <<logVars, losses>>

\* The call fails before or after the server answered it.  Failing the first
\* one fails the connection; the interval just goes on.
LosePoll ==
    /\ call # NoPoll
    /\ losses < MaxLosses
    /\ losses' = losses + 1
    /\ call' = NoPoll
    /\ view' = [view EXCEPT !.stage = IF @ = "first" THEN "failed" ELSE @]
    /\ UNCHANGED logVars

ViewStep == AttachView \/ SendPoll \/ AnswerPoll \/ ReceivePoll \/ LosePoll

Next ==
    \/ \E cuts \in (SUBSET (Written + 1 .. MaxOutput)) \ {{}} : PtyData(cuts)
    \/ PtyExit
    \/ ViewStep

Spec == Init /\ [][Next]_vars

\* The 500 ms interval keeps polling and calls are answered or fail.
FairSpec == Spec /\ WF_vars(SendPoll) /\ WF_vars(AnswerPoll) /\ WF_vars(ReceivePoll)

-----------------------------------------------------------------------------
(* Properties *)

Joined(pieces) == \A i \in 1 .. Len(pieces) - 1 : pieces[i].to = pieces[i + 1].from

\* The scrollback is exactly the longest aligned suffix of the whole output
\* that fits, however it was cut into chunks and trimmed, and its byte count
\* is right although it is only ever adjusted.
ScrollbackIsLongestSuffix ==
    LET cut == Min({m \in boundaries : m + MaxScrollbackBytes >= Written})
    IN  /\ totalBytes = Bytes(scrollback)
        /\ totalBytes = Written - cut
        /\ Joined(scrollback)
        /\ scrollback # <<>> => Last(scrollback).to = Written

\* Whatever cursor a client sends, the poll answers with everything it has
\* not seen, or resets it and says so: without a reset the pieces continue
\* the output where the cursor stands, a snapshot is the whole scrollback,
\* and otherwise truncatedBytes counts exactly what is missing.
PollIsGapless ==
    \A afterSeq \in 0 .. LastSeq + 1 :
        LET poll == PollSession(afterSeq)
            sent == Bytes(poll.pieces)
        IN  /\ afterSeq > LastSeq => poll.snapshot
            /\ ~poll.reset =>
                  /\ sent = Written - EndOf(afterSeq)
                  /\ Joined(poll.pieces)
                  /\ poll.pieces # <<>> => poll.pieces[1].from = EndOf(afterSeq)
            /\ poll.reset /\ ~poll.snapshot =>
                  poll.truncatedBytes + sent = Written - EndOf(afterSeq)

\* A transcript gets a hole or a repetition only from an answer that resets
\* it and announces truncation; lost and repeated polls never cause one.
\* (MaxScrollbackBytes >= MaxCodePoint: else a chunk may be cut away as a
\* whole, which one answer announces and the next one shows.)
GapsAreAnnounced ==
    [][view'.gap /\ ~view.gap => call.answer.truncatedBytes > 0]_vars

\* A view that stays attached shows the end of the output: also when the
\* process exits, the view stops polling, and polls get lost.
ViewCatchesUp ==
    <>[](view.stage \in {"polling", "stopped"} /\ view.to = Written)
        \/ []<>(view.stage \in {"detached", "first", "failed"})
=============================================================================
