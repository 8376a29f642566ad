---------------------------- MODULE DeflateWindow -----------------------------
(***************************************************************************)
(* The contents of the blocks that GzipDecode only counts: how the bytes   *)
(* of a DEFLATE stream come out of the serial decoder (Emitter of          *)
(* src/gzip.rs), and of segments that are decoded without their history    *)
(* (MarkerOutput) and completed later (resolve_segment).                   *)
(*                                                                         *)
(* The stream is made up as it is decoded: literals, stored bytes and      *)
(* matches, the ends of blocks and the ends of segments.  A symbol of a    *)
(* segment is a byte, 0 to MaxByte, or Window + i for byte i of the        *)
(* history it lacks.                                                       *)
(***************************************************************************)
EXTENDS History

CONSTANTS
    Window,         \* WINDOW_SIZE, and the longest distance of the format
    MaxByte,        \* u8::MAX
    OutputChunk,    \* OUTPUT_CHUNK
    Compact,        \* HISTORY_COMPACT
    SegmentLimit,   \* PARALLEL_OUTPUT_LIMIT
    StoredSizes,    \* the lengths of stored blocks considered
    MatchLengths,   \* the lengths of matches considered
    MaxOutput       \* the longest output considered

\* A marker is no byte, and a match copies something.
ASSUME WindowAssumption ==
    /\ Window \in Nat \ {0} /\ MaxByte \in 0..(Window - 1)
    /\ {OutputChunk, Compact, SegmentLimit, MaxOutput} \subseteq Nat
    /\ StoredSizes \subseteq Nat /\ MatchLengths \subseteq Nat \ {0}

VARIABLES
    plain,        \* what the stream means
    emitter,      \* the serial decoder
    segment,      \* the segment being decoded
    predecessor,  \* the history in front of it
    committed,    \* what the parallel decoder has written
    answer        \* how the parallel decoder ended, "none" while it runs

deflateWindow == <<plain, emitter, segment, predecessor, committed, answer>>

Bytewise == 0..MaxByte
IsMarker(symbol) == symbol > MaxByte
Newest(s, count) == SubSeq(s, Len(s) - count + 1, Len(s))

------------------------------------------------------------------------------
(* Emitter *)

\* flush_pending, when enough is pending.
Flushed(e) ==
    LET pending == SubSeq(e.buffer, e.historyLen + 1, Len(e.buffer))
        keep == IF Len(e.buffer) >= Compact THEN AtMostOf(Len(e.buffer), Window)
                ELSE Len(e.buffer)
    IN  IF Len(e.buffer) - e.historyLen < OutputChunk THEN e
        ELSE [e EXCEPT !.buffer = Newest(e.buffer, keep), !.historyLen = keep,
                       !.written = e.written \o pending]

EmitBytes(e, bytes) ==
    Flushed([e EXCEPT !.buffer = @ \o bytes, !.decoded = @ + Len(bytes)])

EmitMatch(e, distance, length) ==
    IF distance > AtMostOf(e.decoded, Window) THEN [e EXCEPT !.refused = TRUE]
    ELSE Flushed([e EXCEPT !.buffer = ExtendMatch(@, distance, length),
                           !.decoded = @ + length])

------------------------------------------------------------------------------
(* MarkerOutput *)

Fresh(known) ==
    [marked |-> <<>>, clean |-> <<>>, cleanStart |-> 0, known |-> known,
     cleanMode |-> known, refused |-> "no"]

Decoded(g) == Len(g.marked) + Len(g.clean) - g.cleanStart

Grown(g, symbols) ==
    IF Len(symbols) > SegmentLimit - Decoded(g) THEN [g EXCEPT !.refused = "too big"]
    ELSE IF g.cleanMode THEN [g EXCEPT !.clean = @ \o symbols]
    ELSE [g EXCEPT !.marked = @ \o symbols]

\* copy: what lies before the segment becomes markers.
Match(g, distance, length) ==
    LET before == Len(g.marked)
        fromWindow == IF distance > before THEN AtMostOf(distance - before, length) ELSE 0
        markers == [i \in 1..fromWindow |-> Window + (Window + before - distance) + i - 1]
        begun == g.marked \o markers
    IN  IF length > SegmentLimit - Decoded(g) THEN [g EXCEPT !.refused = "too big"]
        ELSE IF g.cleanMode
        THEN IF distance > AtMostOf(Len(g.clean), Window)
             THEN [g EXCEPT !.refused = "too far"]
             ELSE [g EXCEPT !.clean = ExtendMatch(@, distance, length)]
        ELSE [g EXCEPT !.marked = IF fromWindow = length THEN begun
                                  ELSE ExtendMatch(begun, distance, length - fromWindow)]

\* try_clean, behind every block: a whole window without a marker is enough.
Cleaned(g) ==
    IF \/ g.cleanMode \/ Len(g.marked) < Window
       \/ \E i \in DOMAIN g.marked : i > Len(g.marked) - Window /\ IsMarker(g.marked[i])
    THEN g
    ELSE [g EXCEPT !.clean = Newest(g.marked, Window), !.cleanStart = Window,
                   !.cleanMode = TRUE]

CleanOutput(g) == SubSeq(g.clean, g.cleanStart + 1, Len(g.clean))

\* resolve_symbols: the history may be shorter than the window.
Missing(history) == IF Len(history) >= Window THEN 0 ELSE Window - Len(history)
Resolvable(symbols, history) ==
    \A i \in DOMAIN symbols :
        IsMarker(symbols[i]) => symbols[i] - Window >= Missing(history)
ResolveSymbols(symbols, history) ==
    [i \in DOMAIN symbols |->
        IF IsMarker(symbols[i])
        THEN history[symbols[i] - Window - Missing(history) + 1] ELSE symbols[i]]

\* Mutant of SuccessorWindow: the history before a short segment is dropped.
SuccessorWindowShort(g, history) ==
    LET clean == CleanOutput(g)
        count == AtMostOf(Window - Len(clean), Len(g.marked))
    IN  IF Len(clean) >= Window THEN Newest(clean, Window)
        ELSE ResolveSymbols(Newest(g.marked, count), history) \o clean

\* successor_window
SuccessorWindow(g, history) ==
    LET clean == CleanOutput(g)
        count == AtMostOf(Window - Len(clean), Len(g.marked))
        keep == AtMostOf(Window - count - Len(clean), Len(history))
    IN  IF Len(clean) >= Window THEN Newest(clean, Window)
        ELSE Newest(history, keep) \o ResolveSymbols(Newest(g.marked, count), history)
                \o clean

------------------------------------------------------------------------------
WindowInit ==
    /\ plain = <<>>
    /\ emitter = [buffer |-> <<>>, historyLen |-> 0, decoded |-> 0, written |-> <<>>,
                  refused |-> FALSE]
    /\ segment = Fresh(TRUE)
    /\ predecessor = <<>>
    /\ committed = <<>>
    /\ answer = "none"

Room(count) == Len(committed) + Decoded(segment) + count <= MaxOutput
StreamGoesOn == answer = "none" /\ segment.refused = "no"

\* A literal, or the bytes of a stored block, which ends with them.
DecodeBytes(bytes) ==
    /\ StreamGoesOn /\ Room(Len(bytes))
    /\ plain' = IF emitter.refused THEN plain ELSE plain \o bytes
    /\ emitter' = IF emitter.refused THEN emitter ELSE EmitBytes(emitter, bytes)
    /\ segment' = IF Len(bytes) = 1 THEN Grown(segment, bytes)
                  ELSE Cleaned(Grown(segment, bytes))
    /\ UNCHANGED <<predecessor, committed, answer>>

DecodeMatch(distance, length) ==
    /\ StreamGoesOn /\ Room(length)
    /\ plain' = IF emitter.refused \/ distance > Len(plain) THEN plain
                ELSE Repeated(plain, distance, length)
    /\ emitter' = IF emitter.refused THEN emitter ELSE EmitMatch(emitter, distance, length)
    /\ segment' = Match(segment, distance, length)
    /\ UNCHANGED <<predecessor, committed, answer>>

EndBlock ==
    /\ StreamGoesOn
    /\ segment' = Cleaned(segment)
    /\ UNCHANGED <<plain, emitter, predecessor, committed, answer>>

\* decode_segment ends behind a block; the segment is completed and committed.
EndSegment ==
    /\ StreamGoesOn
    /\ LET g == Cleaned(segment) IN
       IF Resolvable(g.marked, predecessor)
       THEN /\ committed' = committed \o ResolveSymbols(g.marked, predecessor)
                                \o CleanOutput(g)
            /\ predecessor' = SuccessorWindow(g, predecessor)
            /\ segment' = Fresh(FALSE)
            /\ UNCHANGED answer
       ELSE /\ answer' = "too far"
            /\ UNCHANGED <<segment, committed, predecessor>>
    /\ UNCHANGED <<plain, emitter>>

DecodeFails ==
    /\ answer = "none" /\ segment.refused # "no"
    /\ answer' = segment.refused
    /\ UNCHANGED <<plain, emitter, segment, predecessor, committed>>

WindowNext ==
    \/ \E byte \in Bytewise : DecodeBytes(<<byte>>)
    \/ \E size \in StoredSizes : \E bytes \in [1..size -> Bytewise] : DecodeBytes(bytes)
    \/ \E distance \in 1..Window, length \in MatchLengths : DecodeMatch(distance, length)
    \/ EndBlock
    \/ EndSegment
    \/ DecodeFails

WindowSpec == WindowInit /\ [][WindowNext]_deflateWindow

\* Segments decoded without their history and completed with the window that
\* the segments before them leave are the bytes the stream means; so are those
\* the serial decoder writes and holds; and where the one refuses a match that
\* reaches too far back, so does the other, at the latest where its segment
\* ends, and nothing of that segment is committed.
WindowResolves ==
    /\ emitter.written \o SubSeq(emitter.buffer, emitter.historyLen + 1,
                                 Len(emitter.buffer)) = plain
    /\ IsPrefix(committed, plain)
    /\ predecessor = Newest(committed, AtMostOf(Window, Len(committed)))
    /\ Decoded(segment) = 0 /\ StreamGoesOn => committed = plain /\ ~emitter.refused
    /\ answer = "too far" => emitter.refused
==============================================================================
