------------------------------ MODULE AiStream ------------------------------
(***************************************************************************)
(* The streamed answer of the AI binding (runtime/bindings/ai-sse.js).     *)
(* Provider bytes arrive in arbitrary chunks; complete server-sent-event   *)
(* frames are cut out of a reused buffer and handed to the tenant's        *)
(* stream one per pull.  A terminal event, the idle timer, the lease       *)
(* deadline, the caller's abort, the tenant's cancel and a broken provider *)
(* connection race to end the stream.                                      *)
(*                                                                         *)
(* A byte is "x" (event data), "T" (data that makes its event terminal),   *)
(* "B" (data JSON.parse rejects), "CR" or "LF".  The buffer keeps the      *)
(* bytes of earlier frames beyond its end, as the typed array does.        *)
(***************************************************************************)
EXTENDS Integers, Sequences, SequencesExt

CONSTANTS
    AsStreams,      \* what the provider may send: sequences of bytes
    AsCap,          \* first capacity of the buffer (4096 in the code)
    AsMaxFrame,     \* maxFrameBytes
    AsMaxBytes      \* maxBytes

ASSUME AsAssumption ==
    /\ AsStreams \subseteq Seq({"x", "T", "B", "CR", "LF"})
    /\ {AsCap, AsMaxFrame, AsMaxBytes} \subseteq Nat \ {0}

VARIABLES
    asSent,     \* all the provider will send
    asPos,      \* how much of it was read
    asBuf,      \* [bytes, start, end, scan, line]: createFrameBuffer's state
    asSt,       \* the lifecycle: see AsInit
    asOut       \* frames enqueued for the tenant

asVars == <<asSent, asPos, asBuf, asSt, asOut>>

Newlines == {"CR", "LF"}

ByteAt(b, i) == IF i < Len(b) THEN b[i + 1] ELSE "none"

-----------------------------------------------------------------------------
(* createFrameBuffer: positions count from 0, a buffer only ever grows *)

Fill(n) == [i \in 1 .. n |-> "none"]

RECURSIVE Capacity(_, _)
Capacity(c, required) == IF c < required THEN Capacity(2 * c, required) ELSE c

\* move the live bytes to the front, into a larger buffer when they do not fit
EnsureCapacity(b, more) ==
    LET live  == b.end - b.start
        held  == SubSeq(b.bytes, b.start + 1, b.end)
        size  == IF live + more <= Len(b.bytes) THEN Len(b.bytes)
                 ELSE Capacity(IF Len(b.bytes) > AsCap THEN Len(b.bytes) ELSE AsCap,
                               live + more)
        under == IF live + more <= Len(b.bytes) THEN b.bytes ELSE Fill(size)
    IN  IF more <= Len(b.bytes) - b.end THEN b
        ELSE [bytes |-> held \o SubSeq(under, live + 1, size), start |-> 0,
              end |-> live, scan |-> b.scan - b.start, line |-> b.line - b.start]

Append2(b0, chunk) ==
    LET b == EnsureCapacity(b0, Len(chunk))
    IN  [b EXCEPT !.bytes = SubSeq(b.bytes, 1, b.end) \o chunk
                              \o SubSeq(b.bytes, b.end + Len(chunk) + 1, Len(b.bytes)),
                  !.end = b.end + Len(chunk)]

\* a CR that is the last byte so far may be half of a CRLF
HoldsCR(b, i, flush) == ByteAt(b.bytes, i) = "CR" /\ i + 1 >= b.end /\ ~flush

RECURSIVE FindFrameEnd(_, _, _, _)
FindFrameEnd(b, i, line, flush) ==
    IF i >= b.end THEN [at |-> -1, scan |-> i, line |-> line]
    ELSE IF ByteAt(b.bytes, i) \notin Newlines THEN FindFrameEnd(b, i + 1, line, flush)
    ELSE IF HoldsCR(b, i, flush) THEN [at |-> -1, scan |-> i, line |-> line]
    ELSE LET lineEnd == IF ByteAt(b.bytes, i) = "CR" /\ ByteAt(b.bytes, i + 1) = "LF"
                        THEN i + 2 ELSE i + 1
         IN  IF i = line THEN [at |-> lineEnd, scan |-> lineEnd, line |-> line]
             ELSE FindFrameEnd(b, lineEnd, lineEnd, flush)

\* outcome: "none" (no complete frame), "frame" or "throw" (frame too long)
Take(b, flush) ==
    LET f    == FindFrameEnd(b, b.scan, b.line, flush)
        seen == [b EXCEPT !.scan = f.scan, !.line = f.line]
        rest == [b EXCEPT !.start = f.at, !.scan = f.at, !.line = f.at]
        last == IF f.at < Len(b.bytes) THEN f.at ELSE Len(b.bytes)
    IN  IF f.at < 0
        THEN [what |-> IF b.end - b.start > AsMaxFrame THEN "throw" ELSE "none",
              buf |-> seen, frame |-> <<>>]
        ELSE IF f.at - b.start > AsMaxFrame
        THEN [what |-> "throw", buf |-> seen, frame |-> <<>>]
        ELSE [what |-> "frame", frame |-> SubSeq(b.bytes, b.start + 1, last),
              buf |-> IF f.at = b.end
                      THEN [b EXCEPT !.start = 0, !.end = 0, !.scan = 0, !.line = 0]
                      ELSE rest]

\* "throw": JSON.parse failed; "terminal": the last event of a response
TerminalOutcome(frame) ==
    IF "B" \in ToSet(frame) THEN "throw"
    ELSE IF "T" \in ToSet(frame) THEN "terminal" ELSE "none"

-----------------------------------------------------------------------------
(* createAiStreamingResponse *)

\* cleanup, after stopUpstream where the caller runs it; a read that is
\* pending is rejected by releaseLock and its pull then does nothing
Cleanup(s, out, stop) ==
    [s EXCEPT !.closed = TRUE, !.idle = FALSE, !.lease = "released", !.out = out,
              !.upstream = IF stop THEN "stopped" ELSE s.upstream,
              !.pc = IF s.pc = "reading" THEN "idle" ELSE s.pc]

FailStream(s) == IF s.closed THEN s ELSE Cleanup(s, "errored", TRUE)

\* enqueueFrame: <<state, frames, did the stream end here>>
EnqueueFrame(s, out, frame) ==
    LET o == TerminalOutcome(frame)
    IN  IF o = "throw" THEN <<FailStream(s), out, TRUE>>
        ELSE IF o = "none" THEN <<s, Append(out, frame), FALSE>>
        ELSE <<Cleanup(s, "closed", TRUE), Append(out, frame), TRUE>>

\* Bug: the end of the provider's bytes is taken for the end of the answer.
EndOfInput_Completes(s) == Cleanup(s, "closed", TRUE)

EndOfInput(s) == FailStream(s)

\* the loop of pull up to its next await or its return
PullLoop(s, b) ==
    LET t == Take(b, s.done)
        e == EnqueueFrame(s, asOut, t.frame)
    IN  CASE t.what = "frame" ->
               /\ asSt' = [e[1] EXCEPT !.pc = "idle"]
               /\ asOut' = e[2]
               /\ asBuf' = t.buf
          [] t.what = "throw" ->
               /\ asSt' = [FailStream(s) EXCEPT !.pc = "idle"]
               /\ asBuf' = t.buf
               /\ UNCHANGED asOut
          [] OTHER ->
               /\ asSt' = IF s.done THEN [EndOfInput(s) EXCEPT !.pc = "idle"]
                          ELSE [s EXCEPT !.pc = "reading", !.idle = TRUE]
               /\ asBuf' = t.buf
               /\ UNCHANGED asOut

\* the stream asks for the next frame
Pull ==
    /\ asSt.pc = "idle" /\ asSt.out = "open"
    /\ PullLoop(asSt, asBuf)
    /\ UNCHANGED <<asSent, asPos>>

\* reader.read() settles and clears the idle timer: n bytes, or the end
ReadSettles ==
    /\ asSt.pc = "reading"
    /\ \E n \in 0 .. Len(asSent) - asPos :
         /\ n = 0 => asPos = Len(asSent)
         /\ asSt' = [asSt EXCEPT !.pc = "got", !.idle = FALSE, !.chunk = n]
    /\ UNCHANGED <<asSent, asPos, asBuf, asOut>>

\* the continuation of pull behind the read
AsContinue ==
    LET n == asSt.chunk
        s == [asSt EXCEPT !.total = @ + n, !.done = n = 0, !.chunk = 0]
    IN  /\ asSt.pc = "got"
        /\ asPos' = asPos + n
        /\ IF asSt.closed
           THEN asSt' = [asSt EXCEPT !.pc = "idle", !.chunk = 0] /\ UNCHANGED <<asBuf, asOut>>
           ELSE IF s.total > AsMaxBytes
           THEN asSt' = [FailStream(s) EXCEPT !.pc = "idle"] /\ UNCHANGED <<asBuf, asOut>>
           ELSE PullLoop(s, IF n = 0 THEN asBuf
                            ELSE Append2(asBuf, SubSeq(asSent, asPos + 1, asPos + n)))
        /\ UNCHANGED asSent

\* the provider's connection breaks during a read
ReadFails ==
    /\ asSt.pc = "reading"
    /\ asSt' = FailStream(asSt)
    /\ UNCHANGED <<asSent, asPos, asBuf, asOut>>

\* the idle timer: a frame whose CR was held back still goes out
IdleFires ==
    LET t == Take(asBuf, TRUE)
        e == EnqueueFrame(asSt, asOut, t.frame)
    IN  /\ asSt.pc = "reading" /\ asSt.idle
        /\ asBuf' = t.buf
        /\ IF t.what = "frame"
           THEN asSt' = FailStream(e[1]) /\ asOut' = e[2]
           ELSE asSt' = FailStream(asSt) /\ UNCHANGED asOut
        /\ UNCHANGED <<asSent, asPos>>

\* the lease's timer: streamDeadline, then release("deadline")
StreamDeadline ==
    /\ asSt.lease = "held" /\ asSt.pc # "got"
    /\ asSt' = FailStream(asSt)
    /\ UNCHANGED <<asSent, asPos, asBuf, asOut>>

\* the caller's request is aborted: streamCancel
CallerAborts ==
    /\ ~asSt.closed
    /\ asSt' = FailStream(asSt)
    /\ UNCHANGED <<asSent, asPos, asBuf, asOut>>

\* the tenant cancels the body it was given
TenantCancels ==
    /\ asSt.out = "open"
    /\ asSt' = Cleanup(asSt, "cancelled", TRUE)
    /\ UNCHANGED <<asSent, asPos, asBuf, asOut>>

AsInit ==
    /\ asSent \in AsStreams
    /\ asPos = 0
    /\ asBuf = [bytes |-> <<>>, start |-> 0, end |-> 0, scan |-> 0, line |-> 0]
    /\ asSt = [pc |-> "idle",       \* idle | reading | got
               chunk |-> 0,         \* size of the chunk a settled read carries
               total |-> 0, closed |-> FALSE, done |-> FALSE, idle |-> FALSE,
               lease |-> "held", upstream |-> "open",
               out |-> "open"]      \* the tenant's stream
    /\ asOut = <<>>

AsNext ==
    \/ Pull \/ ReadSettles \/ AsContinue \/ ReadFails
    \/ IdleFires \/ StreamDeadline \/ CallerAborts \/ TenantCancels

AsSpec == AsInit /\ [][AsNext]_asVars

-----------------------------------------------------------------------------
(* What the tenant sees *)

\* one line end per CRLF, CR or LF
RECURSIVE Normal(_)
Normal(s) ==
    IF s = <<>> THEN <<>>
    ELSE IF Head(s) = "CR" /\ Len(s) > 1 /\ s[2] = "LF" THEN <<"LF">> \o Normal(SubSeq(s, 3, Len(s)))
    ELSE IF Head(s) \in Newlines THEN <<"LF">> \o Normal(Tail(s))
    ELSE <<Head(s)>> \o Normal(Tail(s))

\* the frames of normalised bytes: each runs up to its first empty line
EmptyLineEnds(s) == {i \in 1 .. Len(s) : s[i] = "LF" /\ (i = 1 \/ s[i - 1] = "LF")}

RECURSIVE FramesOf(_)
FramesOf(s) ==
    LET ends == EmptyLineEnds(s)
        first == CHOOSE i \in ends : \A j \in ends : i <= j
    IN  IF ends = {} THEN <<>>
        ELSE <<SubSeq(s, 1, first)>> \o FramesOf(SubSeq(s, first + 1, Len(s)))

\* The frames handed to the tenant are the first frames of what the provider
\* sent, whatever the chunking: no event is split, merged, lost or repeated
\* because a CRLF or a frame boundary fell between two reads, or because the
\* buffer was reused (createFrameBuffer).
FramesAsSent ==
    LET want == FramesOf(Normal(asSent))
    IN  /\ Len(asOut) <= Len(want)
        /\ \A i \in 1 .. Len(asOut) : Normal(asOut[i]) = want[i]

\* The tenant's stream closes normally exactly when its last frame was the
\* terminal event: an answer cut short by the provider, a timer or an abort
\* never looks complete, and nothing follows a terminal event (pull, fail,
\* enqueueFrame).
NoFalseCompletion ==
    /\ asSt.out = "closed" <=> asOut # <<>> /\ TerminalOutcome(Last(asOut)) = "terminal"
    /\ \A i \in 1 .. Len(asOut) - 1 : TerminalOutcome(asOut[i]) = "none"

\* However the stream ended, by then the lease is given back, the idle timer
\* is off and the provider's connection is stopped; as long as it is open the
\* lease is held (cleanup, stopUpstream).
StreamSettled ==
    /\ asSt.closed <=> asSt.out # "open"
    /\ asSt.closed <=> asSt.lease = "released"
    /\ asSt.closed => asSt.upstream = "stopped" /\ ~asSt.idle /\ asSt.pc # "reading"

\* An AI stream hands on the provider's frames as they were sent, ends normally
\* only after the terminal one, and then holds nothing.
StreamFaithful ==
  /\ FramesAsSent
  /\ NoFalseCompletion
  /\ StreamSettled

=============================================================================
