----------------------------- MODULE FrameParser -----------------------------
(***************************************************************************)
(* How the stream of Codex Desktop is cut into messages (DesktopIPCFrame-  *)
(* Parser, desktop-ipc-protocol.ts).  The stream is a sequence of bytes    *)
(* that arrive in chunks of any size; a frame starts with its length in    *)
(* four bytes, lowest first, or is a line, or has a content-length header, *)
(* and which of the three it is shows in its first bytes.  The header      *)
(* "content-length: n" is the bytes <<CL, n>> here.                        *)
(***************************************************************************)
EXTENDS Naturals, SequencesExt

CONSTANTS MaxFrame,   \* DESKTOP_IPC_MAX_FRAME_BYTES
          Streams     \* the sequences of frames to check with: [as, body]

VARIABLES stream,     \* the frames Desktop sends
          coming,     \* the bytes that have not arrived
          parser      \* the messages received, and what is left in the buffer

framesVars == <<stream, coming, parser>>

LF == 10
Blank == {9, 10, 13, 32}
CL == 67
\* the first bytes a text may begin with
TextStarts == {9, 10, 13, 32, 34, 67, 91, 102, 110, 116, 123}
Byte == 0 .. 255
Frames == [as : {"length", "header", "line"}, body : Seq(Byte)]

\* what Desktop sends: a body is never empty, a first byte that is a length is no
\* blank, and a line is a JSON text, which has two bytes at least
WellFormed(f) ==
    \/ f.as = "length" /\ Len(f.body) \in 1 .. 255 /\ Len(f.body) <= MaxFrame /\ Len(f.body) \notin Blank
    \/ f.as = "header" /\ Len(f.body) \in 1 .. 255 /\ Len(f.body) <= MaxFrame
    \/ /\ f.as = "line" /\ Len(f.body) >= 2 /\ f.body[1] \in TextStarts \ (Blank \cup {CL})
       /\ \A i \in 1 .. Len(f.body) : f.body[i] \notin {0, LF}

ASSUME FramesAssumption ==
    /\ MaxFrame \in Nat
    /\ Streams \subseteq Seq(Frames)
    /\ \A s \in Streams : \A i \in DOMAIN s : WellFormed(s[i])

FrameLength(b) == b[1] + 256 * b[2] + 65536 * b[3] + 16777216 * b[4]

IsBinary(b) ==
    /\ Len(b) >= 4
    /\ FrameLength(b) \in 1 .. MaxFrame
    /\ b[2] = 0 \/ b[3] = 0 \/ b[4] = 0 \/ b[1] \notin TextStarts

From(b, n) == SubSeq(b, n, Len(b))
FirstText(b) == SelectInSeq(b, LAMBDA x : x \notin Blank)
Unblank(b) == IF FirstText(b) = 0 THEN <<>> ELSE From(b, FirstText(b))
EndOfLine(b) == SelectInSeq(b, LAMBDA x : x = LF)

\* a parser whose loop over the buffer runs, waits for more bytes, or has thrown
Parsed(frames, buffer, loop) == [frames |-> frames, buffer |-> buffer, loop |-> loop]
Waits(p, rest) == Parsed(p.frames, rest, "waits")
Receives(p, frame, rest) == Parsed(Append(p.frames, frame), rest, "runs")

\* a frame whose bytes are not all there is given up
TakeOrDrop(p, b, first, n) ==
    IF Len(b) < first + n - 1 THEN Waits(p, <<>>)
    ELSE Receives(p, SubSeq(b, first, first + n - 1), From(b, first + n))

\* a frame of n bytes that begins at byte first: taken when it is complete
Take(p, b, first, n) ==
    IF Len(b) < first + n - 1 THEN Waits(p, b)
    ELSE Receives(p, SubSeq(b, first, first + n - 1), From(b, first + n))

TakeLine(p, t) == IF EndOfLine(t) = 0 THEN Waits(p, t)
                  ELSE Receives(p, SubSeq(t, 1, EndOfLine(t) - 1), From(t, EndOfLine(t) + 1))

TakeHeader(p, t) ==
    IF Len(t) < 4 THEN Waits(p, t)
    ELSE IF t[2] > MaxFrame THEN Parsed(<<>>, <<>>, "failed")
    ELSE Take(p, t, 5, t[2])

\* a round of the loop
Cut(p) ==
    LET b == p.buffer
        t == Unblank(b)
    IN  IF b = <<>> \/ p.loop # "runs" THEN p
        ELSE IF IsBinary(b) THEN Take(p, b, 5, FrameLength(b))
        ELSE IF t = <<>> THEN Waits(p, t)
        ELSE IF Head(t) = CL THEN TakeHeader(p, t)
        ELSE TakeLine(p, t)

\* push: what was left of the last chunk, and the next one; a round takes a byte at least
PushChunk(p, chunk) ==
    LET buffer == p.buffer \o chunk
        round[i \in 0 .. Len(buffer)] == IF i = 0 THEN Parsed(<<>>, buffer, "runs") ELSE Cut(round[i - 1])
        next == round[Len(buffer)]
    IN  IF next.loop = "failed" THEN [p EXCEPT !.buffer = <<>>]
        ELSE Parsed(p.frames \o next.frames, next.buffer, "waits")

-----------------------------------------------------------------------------
Framed(f) ==
    CASE f.as = "length" -> <<Len(f.body), 0, 0, 0>> \o f.body
      [] f.as = "header" -> <<CL, Len(f.body), LF, LF>> \o f.body
      [] f.as = "line" -> Append(f.body, LF)

Bytes(frames) == FlattenSeq([i \in DOMAIN frames |-> Framed(frames[i])])

FramesInit ==
    /\ stream \in Streams
    /\ coming = Bytes(stream) /\ parser = Parsed(<<>>, <<>>, "waits")

\* handleData: the next bytes of the stream come as one chunk
ChunkArrives ==
    \E n \in DOMAIN coming :
        /\ parser' = PushChunk(parser, SubSeq(coming, 1, n))
        /\ coming' = From(coming, n + 1)
        /\ UNCHANGED stream

(* Properties *)

\* The messages of a stream are received once each, whole and in order, however
\* its bytes are cut into chunks: a length, or a body, in two chunks is no two
\* messages.  (Of well-formed streams: a length whose first byte is a blank and
\* comes without the other three loses that byte.)
ChunksDoNotMatter ==
    LET bodies == [i \in DOMAIN stream |-> stream[i].body]
    IN  IsPrefix(parser.frames, bodies) /\ (coming = <<>> => parser.frames = bodies)
=============================================================================
