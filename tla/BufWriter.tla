----------------------------- MODULE BufWriter ------------------------------
(* BufWriter and LineWriter (io/buffered) over a writer that may take part   *)
(* of what it is given, fail or panic.  The owner writes a text from its     *)
(* first byte on, each call from where the last has got to, so that a byte   *)
(* is its position in the text.  A call is a sequence of tasks; a task does  *)
(* one thing to the buffer or to the inner writer, or stands for others.     *)
EXTENDS Integers, Sequences, SequencesExt

CONSTANTS MaxText,     \* bound: the bytes of the text
          MaxData,     \* bound: the bytes of one call
          Capacities

VARIABLES
    kind,              \* BufWriter or LineWriter
    nl,                \* the positions of the text that are newlines
    vectored,          \* inner.is_write_vectored()
    cap, buf, panicked,
    written,           \* BufGuard::written, while flush_buf runs
    sink,              \* what the inner writer has taken
    call, given, ret,  \* the call, its data, and the bytes it has taken
    work,              \* its tasks
    told,              \* how much of the text the owner knows to be written
    short,             \* the inner writer took less than it was given since the buffer was flushed
    fate               \* of the BufWriter: alive, unwound, flushed or lost

ioVars == <<kind, nl, vectored, cap, buf, panicked, written, sink, call, given, ret, work, told, short, fate>>
fixed == <<kind, nl, vectored>>

Init ==
    /\ kind \in {"BufWriter", "LineWriter"} /\ nl \in SUBSET (1 .. MaxText) /\ vectored \in BOOLEAN
    /\ cap \in Capacities /\ buf = <<>> /\ panicked = FALSE /\ written = 0
    /\ sink = <<>> /\ call = "none" /\ given = <<>> /\ ret = 0 /\ work = <<>>
    /\ told = 0 /\ short = FALSE /\ fate = "alive"
    /\ kind = "BufWriter" => nl = {}     \* which does not look for them

Rest(s, n) == SubSeq(s, n + 1, Len(s))
From(n, len) == [i \in 1 .. len |-> n + i]

(* memrchr                                                                   *)
Newlines(d) == {i \in 1 .. Len(d) : d[i] \in nl}
LastNewline(d) == Max(Newlines(d))

-----------------------------------------------------------------------------
Flush == <<"flush", <<>>>>

(* Deviation of NoRoom: what is in the buffer is not counted.                *)
NoRoomAlone(d) == Len(d) > cap

NoRoom(d) == Len(buf) + Len(d) > cap

(* Deviation of CompletedLine: a completed line can wait.                    *)
CompletedLineNot == FALSE

(* flush_if_completed_line                                                   *)
CompletedLine == buf # <<>> /\ Last(buf) \in nl

Room(d) == IF NoRoom(d) THEN <<Flush>> ELSE <<>>
Line == IF CompletedLine THEN <<Flush>> ELSE <<>>
NonEmpty(ds) == SelectSeq(ds, LAMBDA d : d # <<>>)
Concat(ds) == FlattenSeq(ds)

(* BufWriter::write, write_all and write_vectored: what is left to be done   *)
(* for data d, or for slices ds.                                             *)
Write(d) == Room(d) \o <<<<IF Len(d) >= cap THEN "direct" ELSE "append", d>>>>
WriteAll(d) == Room(d) \o <<<<IF Len(d) >= cap THEN "direct_all" ELSE "append", d>>>>

WriteVectored(ds) ==
    LET rest == NonEmpty(ds) IN
    IF vectored THEN <<<<"write", Concat(ds)>>>>
    ELSE IF rest = <<>> THEN <<>>
    ELSE <<<<"write", rest[1]>>>> \o (IF Len(rest[1]) >= cap THEN <<>> ELSE <<<<"slices", Tail(rest)>>>>)

(* As many of the further slices as fit.                                     *)
Slices(ds) == IF ds = <<>> \/ NoRoom(ds[1]) THEN <<>> ELSE <<<<"append", ds[1]>>, <<"slices", Tail(ds)>>>>

(* LineWriterShim::write, write_all and write_vectored.                      *)
LineWrite(d) == IF Newlines(d) = {} THEN Line \o <<<<"write", d>>>> ELSE <<Flush, <<"lines", d>>>>

LineWriteAll(d) ==
    IF Newlines(d) = {} THEN Line \o <<<<"write_all", d>>>>
    ELSE LET lines == SubSeq(d, 1, LastNewline(d)) IN
         (IF buf = <<>> THEN <<<<"inner_all", lines>>>> ELSE <<<<"write_all", lines>>, Flush>>)
         \o <<<<"write_all", Rest(d, Len(lines))>>>>

LineWriteVectored(ds) ==
    LET slices == NonEmpty(ds)
        lines == {i \in 1 .. Len(slices) : Newlines(slices[i]) # {}} IN
    IF slices = <<>> /\ ~vectored THEN <<>>
    ELSE IF ~vectored THEN <<<<"line_write", slices[1]>>>>
    ELSE IF lines = {} THEN Line \o <<<<"write_vectored", slices>>>>
    ELSE <<Flush, <<"line_slices", <<SubSeq(slices, 1, Max(lines)), Rest(slices, Max(lines))>>>>>>

-----------------------------------------------------------------------------
Idle == call = "none" /\ fate = "alive"
Doing(op) == work # <<>> /\ work[1][1] = op
Data == work[1][2]

(* The owner calls.                                                          *)
Begin(c, d, task) ==
    /\ Idle
    /\ call' = c /\ given' = d /\ ret' = 0 /\ work' = <<task>>
    /\ UNCHANGED <<fixed, cap, buf, panicked, written, sink, told, short, fate>>

Texts == {From(told, n) : n \in 0 .. Min({MaxData, MaxText - told})}

CallWrite == \E d \in Texts : Begin("write", d, <<IF kind = "LineWriter" THEN "line_write" ELSE "write", d>>)
CallWriteAll ==
    \E d \in Texts : Begin("write_all", d, <<IF kind = "LineWriter" THEN "line_write_all" ELSE "write_all", d>>)
CallWriteVectored ==
    \E d \in Texts : \E j \in 0 .. Len(d) : \E i \in 0 .. j :
        Begin("write", d, <<IF kind = "LineWriter" THEN "line_write_vectored" ELSE "write_vectored",
                           <<SubSeq(d, 1, i), SubSeq(d, i + 1, j), Rest(d, j)>>>>)
CallFlush == Begin("flush", <<>>, Flush)
IntoInner == Begin("into_inner", <<>>, Flush)

(* Deviation of Flushes: Drop flushes all the same.                          *)
FlushesAnyway == TRUE

(* Drop flushes unless the inner writer has panicked.                        *)
Flushes == ~panicked

Drop ==
    /\ call = "none" /\ fate \in {"alive", "unwound"}
    /\ IF Flushes THEN call' = "drop" /\ work' = <<Flush>> /\ UNCHANGED fate
       ELSE fate' = "lost" /\ UNCHANGED <<call, work>>
    /\ given' = <<>> /\ ret' = 0
    /\ UNCHANGED <<fixed, cap, buf, panicked, written, sink, told, short>>

(* At exit stdout's LineWriter is replaced by one without a buffer, and so   *)
(* dropped.                                                                  *)
Replace == kind = "LineWriter" /\ Begin("replace", <<>>, Flush)

-----------------------------------------------------------------------------
(* How a call ends.                                                          *)
Returns ==
    /\ call # "none" /\ work = <<>>
    /\ told' = told + (IF call = "write" THEN ret ELSE IF call = "write_all" THEN Len(given) ELSE 0)
    /\ fate' = IF call = "into_inner" \/ (call = "drop" /\ fate = "alive") THEN "flushed"
               ELSE IF call = "drop" THEN "lost" ELSE fate
    /\ cap' = IF call = "replace" THEN 0 ELSE cap
    /\ call' = "none" /\ given' = <<>> /\ ret' = 0
    /\ UNCHANGED <<fixed, buf, panicked, written, sink, work, short>>

(* Deviation of Drained: it is only emptied if all of it was written.        *)
DrainedAll == IF written = Len(buf) THEN <<>> ELSE buf

(* BufGuard::drop                                                            *)
Drained == Rest(buf, written)

(* The inner writer says no, or takes nothing.  After write_all the owner    *)
(* does not know how far it got; the text goes on from there.  Drop ignores  *)
(* the error, and what is in the buffer is lost.                             *)
Fails ==
    LET left == IF call = "replace" THEN <<>> ELSE Drained
        taken == Len(sink) + Len(left) IN
    /\ buf' = left /\ written' = 0 /\ call' = "none" /\ work' = <<>> /\ given' = <<>> /\ ret' = 0
    /\ told' = IF call = "replace" \/ (call = "write_all" /\ taken \in told .. told + Len(given)) THEN taken ELSE told
    /\ fate' = IF call = "drop" THEN "lost" ELSE fate
    /\ cap' = IF call = "replace" THEN 0 ELSE cap
    /\ short' = TRUE
    /\ UNCHANGED <<fixed, panicked, sink>>

(* It panics, having taken n bytes of d; flag is what panicked is then.      *)
Panics(d, n, flag) ==
    /\ sink' = sink \o SubSeq(d, 1, n) /\ panicked' = flag
    /\ buf' = Drained /\ written' = 0 /\ call' = "none" /\ work' = <<>> /\ given' = <<>> /\ ret' = 0
    /\ fate' = IF call \in {"drop", "replace"} THEN "lost" ELSE "unwound"
    /\ UNCHANGED <<fixed, cap, told, short>>

(* It takes n bytes of d.                                                    *)
Takes(d, n) == sink' = sink \o SubSeq(d, 1, n) /\ short' = (short \/ n < Len(d))

-----------------------------------------------------------------------------
(* flush_buf's loop; an Interrupted call is made again.                      *)
FlushWrite ==
    /\ Doing("flush") /\ written < Len(buf)
    /\ LET remaining == Rest(buf, written) IN
       \/ \E n \in 1 .. Len(remaining) :
             /\ Takes(remaining, n) /\ written' = written + n
             /\ UNCHANGED <<fixed, cap, buf, panicked, call, given, ret, work, told, fate>>
       \/ Fails
       \/ \E n \in 0 .. Len(remaining) : Panics(remaining, n, TRUE)

FlushDone ==
    /\ Doing("flush") /\ written = Len(buf)
    /\ buf' = Drained /\ written' = 0 /\ short' = FALSE /\ work' = Tail(work)
    /\ UNCHANGED <<fixed, cap, panicked, sink, call, given, ret, told, fate>>

AppendToBuf ==
    /\ Doing("append")
    /\ buf' = buf \o Data /\ ret' = ret + Len(Data) /\ work' = Tail(work)
    /\ UNCHANGED <<fixed, cap, panicked, written, sink, call, given, told, short, fate>>

(* One call of the inner writer's write, ...                                 *)
Direct ==
    /\ Doing("direct")
    /\ \/ \E n \in 0 .. Len(Data) :
             /\ Takes(Data, n) /\ ret' = ret + n /\ work' = Tail(work)
             /\ UNCHANGED <<fixed, cap, buf, panicked, written, call, given, told, fate>>
       \/ Fails
       \/ \E n \in 0 .. Len(Data) : Panics(Data, n, TRUE)

(* ... and its write_all.                                                    *)
DirectAll ==
    /\ Doing("direct_all") \/ Doing("inner_all")
    /\ \/ /\ Data = <<>> /\ work' = Tail(work)
          /\ UNCHANGED <<fixed, cap, buf, panicked, written, sink, call, given, ret, told, short, fate>>
       \/ \E n \in 1 .. Len(Data) :
             /\ Takes(Data, n) /\ work' = <<<<work[1][1], Rest(Data, n)>>>> \o Tail(work)
             /\ UNCHANGED <<fixed, cap, buf, panicked, written, call, given, ret, told, fate>>
       \/ Data # <<>> /\ Fails
       \/ Data # <<>> /\ \E n \in 0 .. Len(Data) : Panics(Data, n, Doing("direct_all"))

(* write_to_buf                                                              *)
ToBuf(d) == SubSeq(d, 1, Min({cap - Len(buf), Len(d)}))

(* What LineWriterShim::write buffers of d when n bytes of its lines were    *)
(* taken: the rest of a line, or whole lines as far as the buffer goes.      *)
LineTail(d, n) ==
    LET end == LastNewline(d)
        area == SubSeq(d, n + 1, n + cap) IN
    IF n >= end THEN Rest(d, n)
    ELSE IF end - n <= cap THEN SubSeq(d, n + 1, end)
    ELSE IF Newlines(area) # {} THEN SubSeq(area, 1, LastNewline(area)) ELSE area

Lines ==
    /\ Doing("lines")
    /\ LET lines == SubSeq(Data, 1, LastNewline(Data)) IN
       \/ \E n \in 0 .. Len(lines) :
             LET more == IF n = 0 THEN <<>> ELSE ToBuf(LineTail(Data, n)) IN
             /\ Takes(lines, n) /\ buf' = buf \o more /\ ret' = n + Len(more) /\ work' = Tail(work)
             /\ UNCHANGED <<fixed, cap, panicked, written, call, given, told, fate>>
       \/ Fails
       \/ \E n \in 0 .. Len(lines) : Panics(lines, n, panicked)

(* The slices with lines; the others are buffered if all of them were taken. *)
LineSlices ==
    /\ Doing("line_slices")
    /\ LET lines == Concat(Data[1]) IN
       \/ \E n \in 0 .. Len(lines) :
             LET more == IF n < Len(lines) THEN <<>> ELSE ToBuf(Concat(Data[2])) IN
             /\ Takes(lines, n) /\ buf' = buf \o more /\ ret' = n + Len(more) /\ work' = Tail(work)
             /\ UNCHANGED <<fixed, cap, panicked, written, call, given, told, fate>>
       \/ Fails
       \/ \E n \in 0 .. Len(lines) : Panics(lines, n, panicked)

(* A task that stands for others.                                            *)
Expand(op, tasks) ==
    /\ Doing(op) /\ work' = tasks \o Tail(work)
    /\ UNCHANGED <<fixed, cap, buf, panicked, written, sink, call, given, ret, told, short, fate>>

Step ==
    \/ Expand("write", Write(Data)) \/ Expand("write_all", WriteAll(Data))
    \/ Expand("write_vectored", WriteVectored(Data)) \/ Expand("slices", Slices(Data))
    \/ Expand("line_write", LineWrite(Data)) \/ Expand("line_write_all", LineWriteAll(Data))
    \/ Expand("line_write_vectored", LineWriteVectored(Data))
    \/ FlushWrite \/ FlushDone \/ AppendToBuf \/ Direct \/ DirectAll \/ Lines \/ LineSlices \/ Returns

Next ==
    \/ CallWrite \/ CallWriteAll \/ CallWriteVectored \/ CallFlush \/ IntoInner \/ Drop \/ Replace
    \/ Step

Spec == Init /\ [][Next]_ioVars

-----------------------------------------------------------------------------
(* The inner writer has been given the text in order and no byte twice, not  *)
(* even when it has panicked; between calls it and the buffer together have  *)
(* exactly what the owner was told was written, and a BufWriter dropped      *)
(* without an error leaves nothing out.  The buffer never grows.             *)
ToldIsKept ==
    /\ sink = From(0, Len(sink)) /\ Len(buf) <= cap
    /\ Idle => sink \o buf = From(0, told)
    /\ fate = "flushed" => sink = From(0, told)

(* A LineWriter keeps a completed line only because the inner writer would   *)
(* not take it, and then nothing comes after it: the next call tries again.  *)
LinesGoOut == Idle /\ Newlines(buf) # {} => short /\ Last(buf) \in nl
=============================================================================
