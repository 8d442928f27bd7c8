------------------------------- MODULE RingLog -------------------------------
(***************************************************************************)
(* The in-memory log: ContinuousRingBuffer, a circular byte array with an  *)
(* index of its lines, under the two wrappers that write to it (RingBuffer *)
(* and InMemoryChannelRotator), and the windows in which logs are read.    *)
(*                                                                         *)
(* A byte is a record [ep, at, nl]: the clear after which it was written,  *)
(* its offset in the stream, and whether it is a newline.  A cell of the   *)
(* array that was never written holds Zero.                                *)
(***************************************************************************)
EXTENDS Integers, FiniteSets, Sequences, SequencesExt

CONSTANTS
    Capacity,       \* bytes of the ring
    MaxLines,       \* max_line_index, or 0 for None
    Files,          \* the files a channel may be seeded from: their newlines and size
    MaxSeed,        \* max_seed_bytes, at most a segment
    MaxChunk,       \* bound: bytes of one write
    MaxBytes,       \* bound: offset reached
    MaxClears       \* bound: clears

VARIABLES
    ring,           \* the ContinuousRingBuffer
    epoch,          \* number of clears so far (bounded)
    first,          \* history: offset of the first byte ever put into the ring
    newlines        \* history: offsets of the newlines of the stream

vars == <<ring, epoch, first, newlines>>

Zero == [ep |-> -1, at |-> -1, nl |-> FALSE]

MaxOf(a, b) == IF a > b THEN a ELSE b
MinOf(a, b) == IF a < b THEN a ELSE b

Empty ==
    [buffer |-> [p \in 0 .. Capacity - 1 |-> Zero],
     cumulative_bytes |-> 0, log_start_offset |-> 0,
     line_indices |-> <<>>, current_line_start |-> 0]

-----------------------------------------------------------------------------
(* Writing.                                                                *)

\* The lines completed by `data`, as intervals of offsets.
NewLines(r, data) ==
    LET ends == SelectSeq([i \in 1 .. Len(data) |-> i], LAMBDA i : data[i].nl) IN
    [k \in 1 .. Len(ends) |->
        <<IF k = 1 THEN r.current_line_start ELSE r.cumulative_bytes + ends[k - 1],
          r.cumulative_bytes + ends[k]>>]

\* Fault: the whole of `data` is copied from the write position on, so that of
\* a write larger than the ring the oldest bytes are left in it.
CopyInKeepsOldest(r, data) ==
    [p \in 0 .. Capacity - 1 |->
        LET here == {i \in 1 .. MinOf(Len(data), Capacity) :
                        (r.cumulative_bytes + i - 1) % Capacity = p}
        IN IF here = {} THEN r.buffer[p] ELSE data[CHOOSE i \in here : TRUE]]

\* The array after the copy; of a write larger than the ring only the trailing
\* bytes are copied.
CopyIn(r, data) ==
    [p \in 0 .. Capacity - 1 |->
        LET here == {i \in MaxOf(1, Len(data) - Capacity + 1) .. Len(data) :
                        (r.cumulative_bytes + i - 1) % Capacity = p}
        IN IF here = {} THEN r.buffer[p] ELSE data[CHOOSE i \in here : TRUE]]

WriteBytes(r, data) ==
    LET total == r.cumulative_bytes + Len(data)
        start == MaxOf(0, total - Capacity)
        new   == NewLines(r, data)
        open  == IF new = <<>> THEN r.current_line_start ELSE Last(new)[2]
        kept  == SelectSeq(r.line_indices \o new, LAMBDA l : l[1] >= start)
        extra == IF MaxLines > 0 THEN MaxOf(0, Len(kept) - MaxLines) ELSE 0
    IN IF data = <<>> THEN r
       ELSE [buffer |-> CopyIn(r, data), cumulative_bytes |-> total,
             log_start_offset |-> start,
             line_indices |-> SubSeq(kept, extra + 1, Len(kept)),
             current_line_start |-> MaxOf(open, start)]

\* Bytes with the given newline flags that go to offset `at` and beyond.
Bytes(at, flags) ==
    [i \in 1 .. Len(flags) |-> [ep |-> epoch, at |-> at + i - 1, nl |-> flags[i]]]

\* write_line, push, push_bytes: data, and a newline unless it ends with one.
WriteLine(r, flags) ==
    LET at == r.cumulative_bytes
        r1 == WriteBytes(r, Bytes(at, flags))
    IN IF flags # <<>> /\ Last(flags) THEN r1
       ELSE WriteBytes(r1, Bytes(r1.cumulative_bytes, <<TRUE>>))

\* clear leaves the bytes in the array.
Cleared(r) == [Empty EXCEPT !.buffer = r.buffer]

\* seed_and_archive: the tail of the file, without a leading partial line.
SeedBytes(f) ==
    LET cut  == MaxOf(0, f.size - MaxOf(MaxSeed, 1))
        ends == {n \in f.newlines : n >= cut}
        from == IF cut > 0 /\ ends # {}
                THEN 1 + CHOOSE n \in ends : \A m \in ends : n <= m
                ELSE cut
    IN Bytes(from, [i \in 1 .. f.size - from |-> from + i - 1 \in f.newlines])

Seed(r, data, total) ==
    LET from == total - Len(data)
        r1   == [Cleared(r) EXCEPT !.cumulative_bytes = from,
                                   !.current_line_start = from]
    IN IF data # <<>> THEN WriteBytes(r1, data)
       ELSE [Cleared(r) EXCEPT !.cumulative_bytes = total,
                               !.log_start_offset = total,
                               !.current_line_start = total]

-----------------------------------------------------------------------------
(* Reading.                                                                *)

CopyRange(r, start, end) ==
    LET from == MaxOf(start, r.log_start_offset)
        to   == MinOf(end, r.cumulative_bytes)
    IN [i \in 1 .. MaxOf(0, to - from) |-> r.buffer[(from + i - 1) % Capacity]]

ByteSize(r) == r.cumulative_bytes - r.log_start_offset

\* read_bytes, as <<content, total size, overflow>>.
ReadBytes(r, offset, length) ==
    LET total  == r.cumulative_bytes
        oldest == r.log_start_offset
        len    == MaxOf(length, 0)
        target == IF offset < 0 THEN total + offset ELSE offset
        start  == MaxOf(target, oldest)
        rem    == total - start
        wanted == IF len = 0 /\ ~(offset >= 0 /\ offset < oldest)
                  THEN rem ELSE MinOf(len, rem)
    IN IF offset >= 0 /\ offset >= MaxOf(oldest, total) THEN <<<<>>, total, FALSE>>
       ELSE <<CopyRange(r, start, start + wanted), total, target < oldest>>

\* tail_bytes, as <<content, offset for the next call, overflow>>.
TailBytes(r, offset, length) ==
    LET total == r.cumulative_bytes
        len   == MaxOf(length, 0)
        last  == IF len = 0 THEN ByteSize(r) ELSE MinOf(len, ByteSize(r))
        off   == MaxOf(offset, r.log_start_offset)
        n     == IF len = 0 THEN total - off ELSE MinOf(len, total - off)
    IN IF offset = 0
       THEN <<CopyRange(r, total - last, total), total, total > last>>
       ELSE IF off >= total THEN <<<<>>, total, FALSE>>
       ELSE <<CopyRange(r, off, off + n), off + n, offset < r.log_start_offset>>

LineCount(r) ==
    Len(r.line_indices)
        + IF r.current_line_start < r.cumulative_bytes THEN 1 ELSE 0

\* read_line_slices: the last `max` lines, the unfinished one included, with
\* their newlines stripped.
ReadLineSlices(r, max) ==
    LET all  == IF r.current_line_start < r.cumulative_bytes
                THEN Append(r.line_indices, <<r.current_line_start, r.cumulative_bytes>>)
                ELSE r.line_indices
        take == MinOf(max, LineCount(r))
        pick == SubSeq(all, Len(all) - take + 1, Len(all))
        text(l) == LET b == CopyRange(r, l[1], l[2])
                   IN IF b # <<>> /\ Last(b).nl THEN Front(b) ELSE b
    IN [k \in 1 .. Len(pick) |-> text(pick[k])]

\* compute_tail_window of the file reader, as <<offset, length, overflow>>.
ComputeTailWindow(sz, offset, length) ==
    LET over == sz > MaxOf(offset, 0) + length
        off0 == IF over THEN sz - 1 ELSE MaxOf(offset, 0)
        len0 == IF off0 > sz - 1 THEN 0 ELSE length
        off1 == MaxOf(sz - len0, 0)
    IN IF off0 + length > sz THEN <<off1, sz - off1, over>>
                             ELSE <<off0, length, over>>

\* compute_read_window, as <<position, length>>, or <<>> for bad arguments.
ComputeReadWindow(sz, offset, length) ==
    LET back == MinOf(-offset, sz)
        pos  == MinOf(offset, sz)
    IN CASE offset < 0 /\ length # 0 -> <<>>
         [] offset < 0 /\ length = 0 -> <<sz - back, back>>
         [] offset >= 0 /\ length < 0 -> <<>>
         [] offset >= 0 /\ length >= 0 ->
               <<pos, IF length = 0 THEN sz - pos ELSE MinOf(length, sz - pos)>>

-----------------------------------------------------------------------------
(* The ring under its operations.                                          *)

Init ==
    /\ epoch = 0
    /\ \/ ring = Empty /\ first = 0 /\ newlines = {}
       \/ \E f \in Files :
             /\ ring = Seed(Empty, SeedBytes(f), f.size)
             /\ first = f.size - Len(SeedBytes(f))
             /\ newlines = {n \in f.newlines : n >= first}

NewlinesOf(flags) ==
    {ring.cumulative_bytes + i - 1 : i \in {j \in DOMAIN flags : flags[j]}}

\* append_bytes: any bytes.
Append_(flags) ==
    /\ ring.cumulative_bytes + Len(flags) <= MaxBytes
    /\ ring' = WriteBytes(ring, Bytes(ring.cumulative_bytes, flags))
    /\ newlines' = newlines \cup NewlinesOf(flags)
    /\ UNCHANGED <<epoch, first>>

\* push, push_bytes, append_line: a line.
Push(flags) ==
    /\ ring.cumulative_bytes + Len(flags) < MaxBytes
    /\ ring' = WriteLine(ring, flags)
    /\ newlines' = newlines \cup NewlinesOf(flags) \cup {ring'.cumulative_bytes - 1}
    /\ UNCHANGED <<epoch, first>>

Clear ==
    /\ epoch < MaxClears
    /\ epoch' = epoch + 1
    /\ ring' = Cleared(ring) /\ first' = 0 /\ newlines' = {}

Next ==
    \/ \E n \in 1 .. MaxChunk : \E flags \in [1 .. n -> BOOLEAN] : Append_(flags)
    \/ \E n \in 0 .. 1 : \E flags \in [1 .. n -> BOOLEAN] : Push(flags)
    \/ Clear

Spec == Init /\ [][Next]_vars

-----------------------------------------------------------------------------
(* Properties.                                                             *)

Offsets == -MaxBytes .. MaxBytes

\* What the ring still holds: of the last Capacity bytes those put into it.
Oldest == MaxOf(ring.log_start_offset, first)

\* The content `c` is the stream from offset `from` on.
IsStreamFrom(c, from) == \A i \in DOMAIN c : c[i].ep = epoch /\ c[i].at = from + i - 1

\* Reads by offset (continuous_ring.rs read_bytes): whatever the wrap-arounds
\* before it, a read returns the bytes of the stream at the requested offsets,
\* starting with the oldest one kept when the request is older (and only then
\* overflow is reported), as many as asked for or, for length 0, all.  (A
\* request for everything, length 0, from an offset that is gone returns
\* nothing: the README lists it.)
ReadsExact ==
    \A o \in Offsets, l \in 0 .. MaxBytes :
        LET res == ReadBytes(ring, o, l)
            at  == IF o < 0 THEN ring.cumulative_bytes + o ELSE o
            top == MinOf(ring.cumulative_bytes,
                         IF l = 0 THEN ring.cumulative_bytes ELSE MaxOf(at, Oldest) + l)
        IN (at >= Oldest \/ (l > 0 /\ first <= ring.log_start_offset)) =>
              /\ IsStreamFrom(res[1], MaxOf(at, Oldest))
              /\ Len(res[1]) = MaxOf(0, top - MaxOf(at, Oldest))
              /\ res[3] = (at < ring.log_start_offset)

\* Following a log (continuous_ring.rs tail_bytes): a client that asks again
\* with the offset of the last answer gets every byte written since exactly
\* once, and is told when some were overwritten before it came back.
TailFollows ==
    \A o \in 1 .. MaxBytes, l \in 0 .. MaxBytes :
        LET res == TailBytes(ring, o, l) IN
        o >= first =>
            /\ IsStreamFrom(res[1], MaxOf(o, Oldest))
            /\ res[1] # <<>> => res[2] = MaxOf(o, Oldest) + Len(res[1])
            /\ res[1] = <<>> => o >= ring.cumulative_bytes /\ res[2] = ring.cumulative_bytes
            /\ res[3] <=> (o < ring.log_start_offset /\ Oldest < ring.cumulative_bytes)

\* The lines of the stream that end with a newline, as intervals, and the
\* unfinished one.
WholeLines ==
    {l \in (first .. MaxBytes) \X newlines :
        /\ l[1] <= l[2] /\ (l[1] = first \/ l[1] - 1 \in newlines)
        /\ \A m \in newlines : m < l[1] \/ m >= l[2]}
OpenLine == {o \in Oldest .. ring.cumulative_bytes - 1 : \A m \in newlines : m < o}

\* The line index (line_indices, current_line_start): read_lines returns the
\* last lines of the stream, each whole and each once, without those the ring
\* has begun to overwrite, at most MaxLines of them; the unfinished line comes
\* last, and what is left of it when the ring has overwritten its beginning.
LinesExact ==
    LET kept  == SetToSortSeq({l \in WholeLines : l[1] >= ring.log_start_offset},
                              LAMBDA l, m : l[1] < m[1])
        some  == IF MaxLines = 0 THEN kept
                 ELSE SubSeq(kept, MaxOf(0, Len(kept) - MaxLines) + 1, Len(kept))
        whole == [k \in DOMAIN some |-> some[k][1] .. some[k][2] - 1]
        all   == IF OpenLine = {} THEN whole ELSE Append(whole, OpenLine)
    IN \A max \in 0 .. MaxBytes :
          LET res  == ReadLineSlices(ring, max)
              want == SubSeq(all, MaxOf(0, Len(all) - max) + 1, Len(all))
          IN /\ Len(res) = Len(want)
             /\ \A k \in DOMAIN res :
                    /\ {res[k][i].at : i \in DOMAIN res[k]} = want[k]
                    /\ \A i \in DOMAIN res[k] :
                          res[k][i].at = res[k][1].at + i - 1 /\ res[k][i].ep = epoch

\* The window of a file tail (reader.rs compute_tail_window): the last bytes of
\* the file, at most as many as asked for, nothing when the offset is at or past
\* the end; overflow is reported when the file has grown past the window.
TailWindowExact ==
    \A o \in 0 .. MaxBytes, l \in 0 .. MaxBytes :
        LET sz  == ring.cumulative_bytes
            w   == ComputeTailWindow(sz, o, l)
            len == IF l = 0 \/ o >= sz THEN 0 ELSE MinOf(l, sz)
        IN /\ w[2] = len /\ (len > 0 => w[1] = sz - len)
           /\ w[3] = (sz > o + l)

\* Memory or file (reader.rs read_bytes, continuous_ring.rs read_bytes): while a
\* ring has kept all of its stream, it answers every read that a file accepts with
\* the bytes that a file with this content would return.
ReadsLikeFile ==
    (first = 0 /\ ring.log_start_offset = 0) =>
        \A o \in Offsets, l \in 0 .. MaxBytes :
            LET w == ComputeReadWindow(ring.cumulative_bytes, o, l)
                c == ReadBytes(ring, o, l)[1]
            IN w # <<>> => IsStreamFrom(c, w[1]) /\ Len(c) = w[2]

\* Reading by offset, following and reading lines agree with the stream in every
\* state of the ring, before and after it wraps, is cleared or is seeded, and so
\* do the windows of a file of that length.
RingExact == ReadsExact /\ TailFollows /\ LinesExact /\ TailWindowExact /\ ReadsLikeFile

=============================================================================
