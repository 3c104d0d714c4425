------------------------------ MODULE LogText ------------------------------
(***************************************************************************)
(* Text that the logger puts into buffers of a fixed size (raft_logger.cpp, *)
(* backtrace.h).  Only lengths are kept: a text is a sequence of pieces,    *)
(* each the length of what one _snprintf wants to write.                   *)
(***************************************************************************)
EXTENDS Integers, Sequences

CONSTANTS
    MsgSize,    \* MSG_SIZE
    Reserve,    \* what _flushStackTraceBuffer leaves for the rest of a line
    BufSize,    \* stackTraceBufferSize
    MaxPiece    \* bound on the length of a piece that is not a message

ASSUME TextAssumption ==
    /\ MsgSize \in Nat /\ Reserve \in 1 .. MsgSize - 1 /\ BufSize \in Nat
    /\ MaxPiece \in Nat /\ 3 * MaxPiece < Reserve

Smaller(x, y) == IF x < y THEN x ELSE y

\* avail_len and cur_len, and the end of the bytes written so far (`high').
Empty(size) == [avail |-> size, cur |-> 0, high |-> 0]

\* Slip: the room is not reduced by what the buffer already holds.
SnprintfFresh(b, len) ==
    LET avail == b.avail
    IN  [avail |-> avail, cur |-> b.cur + Smaller(avail, len),
         high |-> IF avail = 0 THEN b.high ELSE b.cur + Smaller(avail, len + 1)]

\* The macro.  avail_len is reduced by the whole of cur_len each time, not by
\* what the last call added.  snprintf writes at most avail_len bytes, the
\* terminating zero included; a cut text counts with its zero.
Snprintf(b, len) ==
    LET avail == IF b.avail > b.cur THEN b.avail - b.cur ELSE 0
    IN  [avail |-> avail, cur |-> b.cur + Smaller(avail, len),
         high |-> IF avail = 0 THEN b.high ELSE b.cur + Smaller(avail, len + 1)]

\* One after the other into the same buffer.
Snprintfs(b, pieces) ==
    LET into[i \in 0 .. Len(pieces)] ==
            IF i = 0 THEN b ELSE Snprintf(into[i - 1], pieces[i])
    IN  into[Len(pieces)]

\* put(): time, thread and level; the message; place and line break.
LogLine(head, message, tail) == Snprintfs(Empty(MsgSize), <<head, message, tail>>)

\* ... and its console part, with colours for the levels 0 and 1.
ConsoleLine(level, head, place, message, colour) ==
    Snprintfs(Empty(MsgSize),
              <<head, place>> \o (IF level \in {0, 1} THEN <<colour>> ELSE <<>>)
                  \o <<message, colour>>)

\* _stack_interpret_linux: a frame is its address, name and place, or nothing
\* when popen failed.  avail_len is taken anew for every frame; the first frame
\* is this function and is skipped.
Frame(b, pieces) == Snprintfs([b EXCEPT !.avail = BufSize], pieces)
StackInterpret(frames) ==
    LET into[i \in 0 .. Len(frames)] ==
            IF i <= 1 THEN Empty(BufSize) ELSE Frame(into[i - 1], frames[i])
    IN  into[Len(frames)]

\* _flushStackTraceBuffer: the text goes to the loggers in chunks.
PerLogSize == MsgSize - Reserve
Chunks(len) ==
    [i \in 1 .. (len + PerLogSize - 1) \div PerLogSize |->
        Smaller(PerLogSize, len - (i - 1) * PerLogSize)]

\* How much of the text the chunks hold together.
Total(chunks) ==
    LET upto[i \in 0 .. Len(chunks)] == IF i = 0 THEN 0 ELSE upto[i - 1] + chunks[i]
    IN  upto[Len(chunks)]

-----------------------------------------------------------------------------

Piece == 0 .. MaxPiece
Message == 0 .. MsgSize + 1
AFrame == {<<>>} \cup (Piece \X Piece \X Piece)

\* Nothing is written or counted past the end of a buffer, however long the
\* pieces are: a log line, its console form, the stack of a thread.
AllInside ==
    /\ \A h, t \in Piece, m \in Message :
        LET b == LogLine(h, m, t) IN b.high <= MsgSize /\ b.cur <= MsgSize
    /\ \A h, p, c \in Piece, m \in Message, level \in {0, 2} :
        LET b == ConsoleLine(level, h, p, m, c) IN b.high <= MsgSize
    /\ \A f, g \in AFrame :
        LET b == StackInterpret(<<<<>>, f, g, f>>)
        IN  b.high <= BufSize /\ b.cur <= BufSize

\* The chunks make up the text and put() cuts none of them.
AllWhole ==
    \A len \in 0 .. BufSize :
        LET cs == Chunks(len)
        IN  /\ Total(cs) = len
            /\ \A i \in DOMAIN cs : \A h, t \in Piece :
                LogLine(h, cs[i], t).cur = h + cs[i] + t
=============================================================================
