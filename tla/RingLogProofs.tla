--------------------------- MODULE RingLogProofs ----------------------------
(***************************************************************************)
(* Proofs about RingLog: for a ring of any capacity, seeded with any file  *)
(* and written to in pieces of any size, every read by offset and every    *)
(* request of a follower returns the bytes of the stream.                  *)
(***************************************************************************)
EXTENDS RingLog, SequenceTheorems, WellFoundedInduction, TLAPS

\* What the constants are: a ring has room for a byte, and a file's newlines
\* are offsets in it.
RingBounds ==
    /\ Capacity \in Nat \ {0} /\ MaxSeed \in Nat /\ MaxBytes \in Nat
    /\ \A f \in Files : f.size \in Nat /\ f.newlines \subseteq 0 .. f.size - 1

-----------------------------------------------------------------------------
(* Offsets and cells.                                                      *)

\* Division with remainder.
LEMMA DivMod ==
    ASSUME NEW C \in Nat \ {0}, NEW a \in Int
    PROVE  /\ a = C * (a \div C) + (a % C)
           /\ a \div C \in Int /\ a % C \in 0 .. C - 1
OBVIOUS

\* A multiple of C below C is none.
LEMMA NoMultiple ==
    ASSUME NEW C \in Nat \ {0}, NEW d \in Int, 0 <= C * d, C * d < C
    PROVE  d = 0
<1>1. CASE d >= 1
  BY <1>1
<1>2. CASE d <= -1
  BY <1>2
<1>3. QED
  BY <1>1, <1>2

\* Two offsets less than C apart that share a cell are the same.
LEMMA OneCell ==
    ASSUME NEW C \in Nat \ {0}, NEW a \in Int, NEW b \in Int,
           a <= b, b - a < C, a % C = b % C
    PROVE  a = b
<1>1. /\ a = C * (a \div C) + (a % C) /\ a \div C \in Int /\ a % C \in Int
      /\ b = C * (b \div C) + (b % C) /\ b \div C \in Int
  BY DivMod
<1>2. PICK x, y, z \in Int : x = a \div C /\ y = b \div C /\ z = a % C
  BY <1>1
<1>3. b - a = C * (y - x)
  <2>1. a = C * x + z /\ b = C * y + z
    BY <1>1, <1>2
  <2>2. C * (y - x) = C * y - C * x
    OBVIOUS
  <2>3. QED
    BY <1>2, <2>1, <2>2
<1>4. y - x = 0
  BY <1>3, NoMultiple
<1>5. QED
  BY <1>3, <1>4

-----------------------------------------------------------------------------
(* Writing.                                                                *)

\* Of the last Capacity bytes before `total' those from `fst' on are in their cells.
Holds(buffer, total, fst) ==
    \A o \in MaxOf(MaxOf(0, total - Capacity), fst) .. total - 1 :
        buffer[o % Capacity].ep = epoch /\ buffer[o % Capacity].at = o

\* Bytes of this epoch for the offsets from `at' on.
Stream(data, at) ==
    \A i \in 1 .. Len(data) : data[i].ep = epoch /\ data[i].at = at + i - 1

\* A copy into the array keeps what it does not overwrite.
LEMMA CopyHolds ==
    ASSUME RingBounds, NEW r, NEW data, NEW fst \in Nat,
           r.cumulative_bytes \in Nat, Len(data) \in Nat, fst <= r.cumulative_bytes,
           Holds(r.buffer, r.cumulative_bytes, fst), Stream(data, r.cumulative_bytes)
    PROVE  Holds(CopyIn(r, data), r.cumulative_bytes + Len(data), fst)
<1> DEFINE total == r.cumulative_bytes
           C == Capacity
           n == Len(data)
           here(p) == {i \in MaxOf(1, n - C + 1) .. n : (total + i - 1) % C = p}
<1>1. C \in Nat \ {0} /\ total \in Nat /\ n \in Nat
  BY DEF RingBounds
<1>2. SUFFICES ASSUME NEW o \in MaxOf(MaxOf(0, (total + n) - C), fst) .. (total + n) - 1
               PROVE  CopyIn(r, data)[o % C].ep = epoch /\ CopyIn(r, data)[o % C].at = o
  BY DEF Holds
<1>3. o \in Nat /\ o >= fst /\ o >= (total + n) - C /\ o < total + n
  BY <1>1, <1>2 DEF MaxOf
<1>4. o % C \in 0 .. C - 1
  BY <1>1, <1>3, DivMod
<1>5. CopyIn(r, data)[o % C] = IF here(o % C) = {} THEN r.buffer[o % C]
                               ELSE data[CHOOSE i \in here(o % C) : TRUE]
  BY <1>4 DEF CopyIn
<1>6. ASSUME NEW i \in here(o % C)
      PROVE  o = total + i - 1
  <2>1. i \in Int /\ i >= 1 /\ i >= n - C + 1 /\ i <= n /\ (total + i - 1) % C = o % C
    BY <1>1, <1>6 DEF MaxOf
  <2>2. PICK b \in Int : b = total + i - 1
    BY <1>1, <2>1
  <2>3. b - o < C /\ o - b < C
    <3>1. PICK c, t, m \in Nat : c = C /\ t = total /\ m = n
      BY <1>1
    <3>2. /\ b = t + i - 1 /\ i \in Int /\ i >= m - c + 1 /\ i <= m
          /\ o >= (t + m) - c /\ o < t + m /\ o \in Nat
      BY <1>3, <2>1, <2>2, <3>1
    <3>3. b - o < c /\ o - b < c
      BY <3>2
    <3>4. QED
      BY <3>1, <3>3
  <2>4. b % C = o % C
    BY <2>1, <2>2
  <2>5. CASE o <= b
    BY <1>1, <1>3, <2>2, <2>3, <2>4, <2>5, OneCell
  <2>6. CASE b <= o
    BY <1>1, <1>3, <2>2, <2>3, <2>4, <2>6, OneCell
  <2>7. o = b
    BY <1>3, <2>2, <2>5, <2>6
  <2>8. QED
    BY <2>2, <2>7
<1>7. CASE o >= total
  <2>1. PICK k \in Int : k = o - total + 1
    BY <1>1, <1>3
  <2>2. k \in 1 .. n /\ k \in MaxOf(1, n - C + 1) .. n /\ total + k - 1 = o
    <3>1. PICK c, t, m, x \in Nat : c = C /\ t = total /\ m = n /\ x = o
      BY <1>1, <1>3
    <3>2. x >= (t + m) - c /\ x < t + m /\ x >= t /\ k = x - t + 1
      BY <1>3, <1>7, <2>1, <3>1
    <3>3. k >= 1 /\ k <= m /\ k >= m - c + 1 /\ t + k - 1 = x
      BY <3>2
    <3>4. k \in 1 .. m /\ k \in MaxOf(1, m - c + 1) .. m
      BY <3>3 DEF MaxOf
    <3>5. QED
      BY <3>1, <3>3, <3>4
  <2>3. here(o % C) # {}
    BY <2>2
  <2>4. PICK i : i = CHOOSE j \in here(o % C) : TRUE
    OBVIOUS
  <2>5. i \in here(o % C)
    BY <2>3, <2>4
  <2>6. i = k
    <3>1. o = total + i - 1
      BY <1>6, <2>5
    <3>2. i \in Int
      BY <1>1, <2>5 DEF MaxOf
    <3>3. PICK t, x \in Nat, j \in Int : t = total /\ x = o /\ j = i
      BY <1>1, <1>3, <3>2
    <3>4. x = t + j - 1 /\ k = x - t + 1
      BY <2>1, <3>1, <3>3
    <3>5. j = k
      BY <3>4
    <3>6. QED
      BY <3>3, <3>5
  <2>7. CopyIn(r, data)[o % C] = data[k]
    BY <1>5, <2>3, <2>4, <2>6
  <2>8. data[k].ep = epoch /\ data[k].at = o
    BY <2>2 DEF Stream
  <2>9. QED
    BY <2>7, <2>8
<1>8. CASE o < total
  <2>1. here(o % C) = {}
    <3>1. SUFFICES ASSUME NEW i \in here(o % C) PROVE FALSE
      OBVIOUS
    <3>2. o = total + i - 1 /\ i >= 1 /\ i \in Int
      BY <1>1, <1>6, <3>1 DEF MaxOf
    <3>3. QED
      BY <1>1, <1>3, <1>8, <3>2
  <2>2. o \in MaxOf(MaxOf(0, total - C), fst) .. total - 1
    BY <1>1, <1>3, <1>8 DEF MaxOf
  <2>3. r.buffer[o % C].ep = epoch /\ r.buffer[o % C].at = o
    BY <2>2 DEF Holds
  <2>4. QED
    BY <1>5, <2>1, <2>3
<1>9. QED
  BY <1>1, <1>3, <1>7, <1>8

\* A ring in order: it starts no earlier than its capacity allows and holds what
\* was put into it from `fst' on.
RingOk(r, fst) ==
    /\ r.cumulative_bytes \in Nat /\ r.log_start_offset \in Nat
    /\ MaxOf(0, r.cumulative_bytes - Capacity) <= r.log_start_offset
    /\ r.log_start_offset <= r.cumulative_bytes /\ fst <= r.cumulative_bytes
    /\ r.log_start_offset = r.cumulative_bytes => fst = r.cumulative_bytes
    /\ Holds(r.buffer, r.cumulative_bytes, fst)

\* write_bytes keeps a ring in order.
LEMMA WriteOk ==
    ASSUME RingBounds, NEW r, NEW data, NEW fst \in Nat, data # <<>>,
           r.cumulative_bytes \in Nat, Len(data) \in Nat \ {0}, fst <= r.cumulative_bytes,
           Holds(r.buffer, r.cumulative_bytes, fst), Stream(data, r.cumulative_bytes)
    PROVE  /\ RingOk(WriteBytes(r, data), fst)
           /\ WriteBytes(r, data).cumulative_bytes = r.cumulative_bytes + Len(data)
<1>1. PICK w : w = WriteBytes(r, data)
  OBVIOUS
<1>2. /\ w.buffer = CopyIn(r, data)
      /\ w.cumulative_bytes = r.cumulative_bytes + Len(data)
      /\ w.log_start_offset = MaxOf(0, (r.cumulative_bytes + Len(data)) - Capacity)
  BY <1>1 DEF WriteBytes
<1>3. Holds(w.buffer, w.cumulative_bytes, fst)
  BY <1>2, CopyHolds
<1>4. RingOk(w, fst)
  <2>1. PICK c, n \in Nat \ {0}, t \in Nat :
            c = Capacity /\ n = Len(data) /\ t = r.cumulative_bytes
    BY DEF RingBounds
  <2>2. /\ w.cumulative_bytes = t + n /\ t + n \in Nat
        /\ w.log_start_offset = MaxOf(0, (t + n) - Capacity)
        /\ MaxOf(0, (t + n) - Capacity) \in Nat
        /\ MaxOf(0, (t + n) - Capacity) < t + n /\ fst <= t + n
    BY <1>2, <2>1 DEF MaxOf
  <2>3. QED
    BY <1>3, <2>2 DEF RingOk
<1>5. QED
  BY <1>1, <1>2, <1>4

\* Bytes are a stream from their first offset on.
LEMMA BytesStream ==
    ASSUME NEW n \in Nat, NEW flags, DOMAIN flags = 1 .. n, Len(flags) = n, NEW at
    PROVE  /\ Len(Bytes(at, flags)) = n /\ Stream(Bytes(at, flags), at)
           /\ n = 0 => Bytes(at, flags) = <<>>
BY DEF Bytes, Stream

\* Whatever goes to the end of a ring keeps it in order, nothing included.
LEMMA WriteKeeps ==
    ASSUME RingBounds, NEW fst \in Nat, NEW r, RingOk(r, fst),
           NEW n \in Nat, NEW flags, DOMAIN flags = 1 .. n, Len(flags) = n
    PROVE  RingOk(WriteBytes(r, Bytes(r.cumulative_bytes, flags)), fst)
<1>1. PICK data : data = Bytes(r.cumulative_bytes, flags)
  OBVIOUS
<1>2. Len(data) \in Nat /\ Stream(data, r.cumulative_bytes)
  BY <1>1, BytesStream
<1>3. CASE data = <<>>
  BY <1>1, <1>3 DEF WriteBytes
<1>4. CASE data # <<>>
  <2>1. Len(data) # 0
    BY <1>1, <1>4, BytesStream
  <2>2. QED
    BY <1>1, <1>2, <1>4, <2>1, WriteOk DEF RingOk
<1>5. QED
  BY <1>3, <1>4

\* write_line adds a newline where there is none.
LEMMA LineKeeps ==
    ASSUME RingBounds, NEW fst \in Nat, NEW r, RingOk(r, fst),
           NEW n \in Nat, NEW flags, DOMAIN flags = 1 .. n, Len(flags) = n
    PROVE  RingOk(WriteLine(r, flags), fst)
<1>1. PICK r1 : r1 = WriteBytes(r, Bytes(r.cumulative_bytes, flags))
  OBVIOUS
<1>2. RingOk(r1, fst)
  BY <1>1, WriteKeeps
<1>3. PICK r2 : r2 = WriteBytes(r1, Bytes(r1.cumulative_bytes, <<TRUE>>))
  OBVIOUS
<1>4. RingOk(r2, fst)
  <2>1. DOMAIN <<TRUE>> = 1 .. 1 /\ Len(<<TRUE>>) = 1
    OBVIOUS
  <2>2. QED
    BY <1>2, <1>3, <2>1, WriteKeeps
<1>5. WriteLine(r, flags) \in {r1, r2}
  BY <1>1, <1>3 DEF WriteLine
<1>6. QED
  BY <1>2, <1>4, <1>5

\* A set of naturals that is not empty has a least element.
LEMMA LeastNatural ==
    ASSUME NEW T, T \subseteq Nat, T # {}
    PROVE  \E x \in T : \A y \in T : x <= y
<1>1. PICK x \in T : \A y \in T : ~(<<y, x>> \in OpToRel(<, Nat))
  BY NatLessThanWellFounded, WFMin, Zenon
<1>2. ASSUME NEW y \in T
      PROVE  x <= y
  <2>1. ~(y < x)
    BY <1>1 DEF OpToRel
  <2>2. QED
    BY <2>1
<1>3. QED
  BY <1>2

\* What is read from a file to seed a ring reaches up to the file's end.
LEMMA SeedStream ==
    ASSUME RingBounds, NEW f \in Files
    PROVE  /\ Len(SeedBytes(f)) \in 0 .. f.size
           /\ Stream(SeedBytes(f), f.size - Len(SeedBytes(f)))
           /\ SeedBytes(f) # <<>> => Len(SeedBytes(f)) # 0
<1> DEFINE cut  == MaxOf(0, f.size - MaxOf(MaxSeed, 1))
           ends == {n \in f.newlines : n >= cut}
           from == IF cut > 0 /\ ends # {}
                   THEN 1 + CHOOSE n \in ends : \A m \in ends : n <= m
                   ELSE cut
<1>1. f.size \in Nat /\ f.newlines \subseteq 0 .. f.size - 1 /\ cut \in 0 .. f.size
  BY DEF RingBounds, MaxOf
<1>2. from \in 0 .. f.size
  <2>1. CASE cut > 0 /\ ends # {}
    <3>1. ends \subseteq Nat /\ \A n \in ends : n < f.size
      BY <1>1
    <3>2. \E n \in ends : \A m \in ends : n <= m
      BY <2>1, <3>1, LeastNatural
    <3>3. QED
      BY <1>1, <2>1, <3>1, <3>2
  <2>2. CASE ~(cut > 0 /\ ends # {})
    BY <1>1, <2>2
  <2>3. QED
    BY <2>1, <2>2
<1>3. PICK z \in 0 .. f.size : z = from
  <2> HIDE DEF from
  <2>1. QED
    BY <1>2
<1>4. PICK flags : flags = [i \in 1 .. f.size - z |-> z + i - 1 \in f.newlines]
  OBVIOUS
<1>5. f.size - z \in Nat /\ DOMAIN flags = 1 .. f.size - z /\ Len(flags) = f.size - z
  BY <1>1, <1>4
<1>6. SeedBytes(f) = Bytes(z, flags)
  BY <1>3, <1>4 DEF SeedBytes
<1>7. Len(SeedBytes(f)) = f.size - z /\ Stream(SeedBytes(f), z)
  BY <1>5, <1>6, BytesStream
<1>8. SeedBytes(f) # <<>> => f.size - z # 0
  BY <1>5, <1>6, BytesStream
<1>9. QED
  BY <1>1, <1>7, <1>8

\* The invariant of the ring.
RingInv == first \in Nat /\ RingOk(ring, first)

\* A ring starts empty or with the tail of a file.
LEMMA RingInit ==
    ASSUME RingBounds, Init
    PROVE  RingInv
<1>1. CASE ring = Empty /\ first = 0
  BY <1>1 DEF RingBounds, RingInv, RingOk, Empty, Holds, MaxOf
<1>2. ASSUME NEW f \in Files, ring = Seed(Empty, SeedBytes(f), f.size),
             first = f.size - Len(SeedBytes(f))
      PROVE  RingInv
  <2>1. f.size \in Nat
    BY DEF RingBounds
  <2>2. PICK data : data = SeedBytes(f)
    OBVIOUS
  <2>3. /\ Len(data) \in 0 .. f.size /\ Stream(data, f.size - Len(data))
        /\ data # <<>> => Len(data) # 0
    BY <2>2, SeedStream
  <2>4. first = f.size - Len(data) /\ first \in Nat
    BY <1>2, <2>1, <2>2, <2>3
  <2>5. CASE data = <<>>
    <3>1. ring = [Cleared(Empty) EXCEPT !.cumulative_bytes = f.size,
                                        !.log_start_offset = f.size,
                                        !.current_line_start = f.size]
      BY <1>2, <2>2, <2>5 DEF Seed
    <3>2. ring.cumulative_bytes = f.size /\ ring.log_start_offset = f.size
      BY <3>1 DEF Cleared, Empty
    <3>3. first = f.size
      BY <2>1, <2>4, <2>5
    <3>4. QED
      BY <2>1, <2>4, <3>2, <3>3 DEF RingInv, RingOk, RingBounds, Holds, MaxOf
  <2>6. CASE data # <<>>
    <3>1. PICK r1 : r1 = [Cleared(Empty) EXCEPT !.cumulative_bytes = f.size - Len(data),
                                                !.current_line_start = f.size - Len(data)]
      OBVIOUS
    <3>2. ring = WriteBytes(r1, data)
      BY <1>2, <2>2, <2>6, <3>1 DEF Seed
    <3>3. r1.cumulative_bytes = first
      BY <2>4, <3>1 DEF Cleared, Empty
    <3>4. Holds(r1.buffer, r1.cumulative_bytes, first)
      BY <2>4, <3>3 DEF Holds, MaxOf, RingBounds
    <3>5. Len(data) \in Nat \ {0} /\ Stream(data, r1.cumulative_bytes)
      BY <2>1, <2>2, <2>3, <2>4, <2>6, <3>3, SeedStream
    <3>6. QED
      BY <2>4, <2>6, <3>2, <3>3, <3>4, <3>5, WriteOk DEF RingInv
  <2>7. QED
    BY <2>5, <2>6
<1>3. QED
  BY <1>1, <1>2 DEF Init

\* Every operation keeps it.
LEMMA RingStep ==
    ASSUME RingBounds, RingInv, [Next]_vars
    PROVE  RingInv'
<1>1. ASSUME RingOk(ring', first), UNCHANGED <<epoch, first>>
      PROVE  RingInv'
  BY <1>1 DEF RingInv, RingOk, Holds
<1>2. ASSUME NEW n \in 1 .. MaxChunk, NEW flags \in [1 .. n -> BOOLEAN], Append_(flags)
      PROVE  RingInv'
  <2>1. n \in Nat /\ DOMAIN flags = 1 .. n /\ Len(flags) = n
    OBVIOUS
  <2>2. RingOk(ring', first)
    BY <1>2, <2>1, WriteKeeps DEF Append_, RingInv
  <2>3. QED
    BY <1>1, <1>2, <2>2 DEF Append_
<1>3. ASSUME NEW n \in 0 .. 1, NEW flags \in [1 .. n -> BOOLEAN], Push(flags)
      PROVE  RingInv'
  <2>1. n \in Nat /\ DOMAIN flags = 1 .. n /\ Len(flags) = n
    OBVIOUS
  <2>2. RingOk(ring', first)
    BY <1>3, <2>1, LineKeeps DEF Push, RingInv
  <2>3. QED
    BY <1>1, <1>3, <2>2 DEF Push
<1>4. CASE Clear
  <2>1. /\ ring'.cumulative_bytes = 0 /\ ring'.log_start_offset = 0 /\ first' = 0
    BY <1>4 DEF Clear, Cleared, Empty
  <2>2. QED
    BY <2>1 DEF RingInv, RingOk, RingBounds, Holds, MaxOf
<1>5. CASE UNCHANGED vars
  BY <1>1, <1>5 DEF vars, RingInv
<1>6. QED
  BY <1>2, <1>3, <1>4, <1>5 DEF Next
-----------------------------------------------------------------------------
(* Reading.                                                                *)

\* The greater and the smaller of two numbers are numbers.
LEMMA Extremes ==
    ASSUME NEW a \in Int, NEW b \in Int
    PROVE  /\ MaxOf(a, b) \in Int /\ MinOf(a, b) \in Int
           /\ (a \in Nat \/ b \in Nat) => MaxOf(a, b) \in Nat
BY DEF MaxOf, MinOf

\* The offsets of a range cut at the write position lie below it.
LEMMA CutRange ==
    ASSUME NEW from \in Int, NEW e \in Int, NEW t \in Int, NEW i \in Int, i >= 1,
           i <= MaxOf(0, MinOf(e, t) - from)
    PROVE  from + i - 1 >= from /\ from + i - 1 < t
BY DEF MaxOf, MinOf

\* copy_range returns the bytes of the stream between two offsets, as far as the
\* ring has them.
LEMMA CopyRead ==
    ASSUME RingBounds, RingInv, NEW s \in Int, NEW e \in Int, NEW c,
           c = CopyRange(ring, s, e), NEW from \in Int, NEW len \in Int,
           from = MaxOf(s, ring.log_start_offset),
           len = MaxOf(0, MinOf(e, ring.cumulative_bytes) - from)
    PROVE  Len(c) = len /\ (from >= first => IsStreamFrom(c, from))
<1>1. c = [i \in 1 .. len |-> ring.buffer[(from + i - 1) % Capacity]] /\ len \in Nat
  BY DEF CopyRange, MaxOf
<1>2. Len(c) = len /\ DOMAIN c = 1 .. len
  BY <1>1
<1>3. ASSUME from >= first, NEW i \in 1 .. len
      PROVE  c[i].ep = epoch /\ c[i].at = from + i - 1
  <2>1. PICK o \in Int : o = from + i - 1
    OBVIOUS
  <2>2. PICK cp \in Nat \ {0}, t, st, fs \in Nat :
            /\ cp = Capacity /\ t = ring.cumulative_bytes
            /\ st = ring.log_start_offset /\ fs = first
    BY DEF RingBounds, RingInv, RingOk
  <2>3. from >= st /\ st >= MaxOf(0, t - cp) /\ from >= fs
    BY <1>3, <2>2 DEF RingInv, RingOk, MaxOf
  <2>4. i \in Int /\ i >= 1 /\ i <= MaxOf(0, MinOf(e, t) - from)
    BY <1>1, <1>3, <2>2
  <2>5. o >= from /\ o < t
    BY <2>1, <2>2, <2>4, CutRange
  <2>6. o \in MaxOf(MaxOf(0, t - cp), fs) .. t - 1
    BY <2>2, <2>3, <2>5 DEF MaxOf
  <2>7. ring.buffer[o % Capacity].ep = epoch /\ ring.buffer[o % Capacity].at = o
    BY <2>2, <2>6 DEF RingInv, RingOk, Holds
  <2>8. c[i] = ring.buffer[o % Capacity]
    BY <1>1, <2>1
  <2>9. QED
    BY <2>1, <2>7, <2>8
<1>4. QED
  BY <1>2, <1>3 DEF IsStreamFrom

\* Reads by offset.
LEMMA ReadsSay ==
    ASSUME RingBounds, RingInv
    PROVE  ReadsExact
<1>1. PICK t, st, fs \in Nat :
          t = ring.cumulative_bytes /\ st = ring.log_start_offset /\ fs = first
  BY DEF RingInv, RingOk
<1>2. st <= t /\ fs <= t /\ Oldest = MaxOf(st, fs)
  BY <1>1 DEF RingInv, RingOk, Oldest
<1>3. SUFFICES ASSUME NEW o \in Offsets, NEW l \in 0 .. MaxBytes, NEW at, NEW top,
                      at = (IF o < 0 THEN ring.cumulative_bytes + o ELSE o),
                      top = MinOf(ring.cumulative_bytes,
                                  IF l = 0 THEN ring.cumulative_bytes
                                  ELSE MaxOf(at, Oldest) + l),
                      at >= Oldest \/ (l > 0 /\ first <= ring.log_start_offset)
               PROVE  /\ IsStreamFrom(ReadBytes(ring, o, l)[1], MaxOf(at, Oldest))
                      /\ Len(ReadBytes(ring, o, l)[1]) = MaxOf(0, top - MaxOf(at, Oldest))
                      /\ ReadBytes(ring, o, l)[3] = (at < ring.log_start_offset)
  BY DEF ReadsExact
<1>4. /\ o \in Int /\ l \in Nat /\ at \in Int
      /\ o < 0 => at = t + o
      /\ o >= 0 => at = o
  BY <1>1, <1>3 DEF RingBounds, Offsets
<1>5. PICK from, end \in Int : /\ from = MaxOf(at, MaxOf(st, fs))
                              /\ end = (IF l = 0 THEN t ELSE from + l)
  <2>1. MaxOf(st, fs) \in Int
    BY <1>1 DEF MaxOf
  <2>2. PICK from \in Int : from = MaxOf(at, MaxOf(st, fs))
    BY <1>4, <2>1, Extremes
  <2>3. PICK end \in Int : end = (IF l = 0 THEN t ELSE from + l)
    BY <1>4
  <2>4. QED
    BY <2>2, <2>3
<1>6. /\ o \in Int /\ l \in Nat /\ at \in Int /\ from \in Int /\ end \in Int
      /\ (o < 0 => at = t + o) /\ (o >= 0 => at = o)
      /\ from = MaxOf(at, MaxOf(st, fs))
      /\ (l = 0 => end = t) /\ (l # 0 => end = from + l)
      /\ at >= MaxOf(st, fs) \/ (l > 0 /\ fs <= st)
  BY <1>1, <1>2, <1>3, <1>4, <1>5
<1>7. top = MinOf(t, end) /\ from = MaxOf(at, Oldest)
  BY <1>1, <1>2, <1>3, <1>5
<1>8. /\ IsStreamFrom(ReadBytes(ring, o, l)[1], from)
      /\ Len(ReadBytes(ring, o, l)[1]) = MaxOf(0, MinOf(t, end) - from)
      /\ ReadBytes(ring, o, l)[3] = (at < st)
  <2>1. /\ from = MaxOf(at, st) /\ from >= fs
        /\ o >= t => MaxOf(0, MinOf(t, end) - from) = 0 /\ at >= st
        /\ o < t => /\ from <= t
                    /\ l = 0 => ~(o >= 0 /\ o < st)
                    /\ MaxOf(0, MinOf(t, end) - from) = MinOf(end - from, t - from)
    <3>1. from = MaxOf(at, st) /\ from >= fs
      BY <1>2, <1>6 DEF MaxOf
    <3>2. CASE l = 0
      BY <1>2, <1>6, <3>1, <3>2 DEF MaxOf, MinOf
    <3>3. CASE l # 0
      BY <1>2, <1>6, <3>1, <3>3 DEF MaxOf, MinOf
    <3>4. QED
      BY <3>2, <3>3
  <2>2. MaxOf(st, t) = t /\ MaxOf(l, 0) = l
    BY <1>2 DEF MaxOf
  <2>3. CASE o >= t
    <3>1. o >= 0 /\ o >= MaxOf(st, t)
      BY <1>6, <2>2, <2>3
    <3>2. ReadBytes(ring, o, l) = <<<<>>, t, FALSE>>
      BY <1>1, <3>1 DEF ReadBytes
    <3>3. ReadBytes(ring, o, l)[1] = <<>> /\ ReadBytes(ring, o, l)[3] = FALSE
      BY <3>2
    <3>4. IsStreamFrom(<<>>, from) /\ Len(<<>>) = 0
      BY DEF IsStreamFrom
    <3>5. MaxOf(0, MinOf(t, end) - from) = 0 /\ (at < st) = FALSE
      BY <1>6, <2>1, <2>3
    <3>6. QED
      BY <3>3, <3>4, <3>5
  <2>4. CASE o < t
    <3>1. PICK w \in Int : w = MinOf(end - from, t - from)
      BY Extremes
    <3>2. at = (IF o < 0 THEN t + o ELSE o)
      BY <1>6
    <3>3. w = (IF l = 0 /\ ~(o >= 0 /\ o < st) THEN t - from ELSE MinOf(l, t - from))
      <4>1. CASE l = 0
        BY <1>6, <2>1, <2>4, <3>1, <4>1 DEF MinOf
      <4>2. CASE l # 0
        <5>1. end - from = l
          BY <1>6, <4>2
        <5>2. QED
          BY <3>1, <4>2, <5>1
      <4>3. QED
        BY <4>1, <4>2
    <3>4. PICK c : c = CopyRange(ring, from, from + w)
      OBVIOUS
    <3>5. ~(o >= 0 /\ o >= t)
      BY <1>6, <2>4
    <3>6. ReadBytes(ring, o, l) = <<c, t, at < st>>
      BY <1>1, <2>1, <2>2, <3>2, <3>3, <3>4, <3>5 DEF ReadBytes
    <3>7. w = MaxOf(0, MinOf(t, end) - from)
      BY <2>1, <2>4, <3>1
    <3>8. w = MaxOf(0, MinOf(from + w, t) - from)
      BY <2>1, <2>4, <3>1, <3>7 DEF MaxOf, MinOf
    <3>9. from = MaxOf(from, st)
      BY <2>1, <1>6 DEF MaxOf
    <3>10. Len(c) = w /\ IsStreamFrom(c, from)
      <4>1. PICK e \in Int : e = from + w
        OBVIOUS
      <4>2. c = CopyRange(ring, from, e) /\ from = MaxOf(from, ring.log_start_offset)
        BY <1>1, <3>4, <3>9, <4>1
      <4>3. w = MaxOf(0, MinOf(e, ring.cumulative_bytes) - from) /\ from >= first
        BY <1>1, <2>1, <3>8, <4>1
      <4>4. QED
        BY <4>2, <4>3, CopyRead
    <3>11. QED
      BY <3>6, <3>7, <3>10
  <2>5. QED
    BY <1>6, <2>3, <2>4
<1>9. QED
  BY <1>1, <1>7, <1>8

\* Requests of a follower.
LEMMA FollowSays ==
    ASSUME RingBounds, RingInv
    PROVE  TailFollows
<1>1. PICK t, st, fs \in Nat :
          t = ring.cumulative_bytes /\ st = ring.log_start_offset /\ fs = first
  BY DEF RingInv, RingOk
<1>2. st <= t /\ fs <= t /\ Oldest = MaxOf(st, fs) /\ (st = t => fs = t)
  BY <1>1 DEF RingInv, RingOk, Oldest
<1>3. SUFFICES ASSUME NEW o \in 1 .. MaxBytes, NEW l \in 0 .. MaxBytes, NEW res,
                      res = TailBytes(ring, o, l), o >= fs
               PROVE  /\ IsStreamFrom(res[1], MaxOf(o, Oldest))
                      /\ res[1] # <<>> => res[2] = MaxOf(o, Oldest) + Len(res[1])
                      /\ res[1] = <<>> => o >= t /\ res[2] = t
                      /\ res[3] <=> (o < st /\ Oldest < t)
  BY <1>1 DEF TailFollows
<1>4. o \in Nat /\ o # 0 /\ l \in Nat /\ MaxOf(l, 0) = l
  BY DEF RingBounds, MaxOf
<1>5. PICK off \in Int : off = MaxOf(o, st)
  BY <1>4, Extremes
<1>6. PICK n \in Int : n = (IF l = 0 THEN t - off ELSE MinOf(l, t - off))
  <2>1. t - off \in Int /\ MinOf(l, t - off) \in Int
    BY <1>4, <1>5 DEF MinOf
  <2>2. QED
    BY <2>1
<1>7. /\ off = MaxOf(o, MaxOf(st, fs)) /\ off >= fs /\ off = MaxOf(off, st)
      /\ off >= t => o >= t /\ ~(o < st)
      /\ off < t => /\ n > 0 /\ n = MaxOf(0, MinOf(off + n, t) - off)
                    /\ MaxOf(st, fs) < t \/ ~(o < st)
  <2>1. off = MaxOf(o, MaxOf(st, fs)) /\ off >= fs /\ off = MaxOf(off, st)
    BY <1>2, <1>3, <1>4, <1>5 DEF MaxOf
  <2>2. off >= t => o >= t /\ ~(o < st)
    BY <1>2, <1>3, <1>4, <1>5 DEF MaxOf
  <2>3. ASSUME off < t
        PROVE  n > 0 /\ n <= t - off
    BY <1>4, <1>6, <2>3 DEF MinOf
  <2>4. ASSUME off < t
        PROVE  MaxOf(st, fs) < t \/ ~(o < st)
    BY <1>2, <1>3, <1>4, <1>5, <2>4 DEF MaxOf
  <2>5. ASSUME off < t
        PROVE  n = MaxOf(0, MinOf(off + n, t) - off)
    BY <2>3, <2>5 DEF MaxOf, MinOf
  <2>6. QED
    BY <2>1, <2>2, <2>3, <2>4, <2>5
<1>8. CASE off >= t
  <2>1. res = <<<<>>, t, FALSE>>
    BY <1>1, <1>3, <1>4, <1>5, <1>8 DEF TailBytes
  <2>2. IsStreamFrom(<<>>, off)
    BY DEF IsStreamFrom
  <2>3. QED
    BY <1>2, <1>7, <1>8, <2>1, <2>2
<1>9. CASE off < t
  <2>1. PICK c : c = CopyRange(ring, off, off + n)
    OBVIOUS
  <2>2. ~(off >= t)
    BY <1>9
  <2>3. res = <<c, off + n, o < st>>
    BY <1>1, <1>3, <1>4, <1>5, <1>6, <2>1, <2>2 DEF TailBytes
  <2>4. Len(c) = n /\ IsStreamFrom(c, off)
    BY <1>1, <1>7, <1>9, <2>1, CopyRead
  <2>5. c # <<>>
    BY <1>7, <1>9, <2>4
  <2>6. res[1] = c /\ res[2] = off + n /\ res[3] = (o < st)
    BY <2>3
  <2>7. MaxOf(o, Oldest) = off /\ (Oldest < t \/ ~(o < st))
    BY <1>2, <1>7, <1>9
  <2>8. QED
    BY <2>4, <2>5, <2>6, <2>7
<1>10. QED
  BY <1>5, <1>8, <1>9

\* The window of a file tail.
LEMMA WindowSays ==
    ASSUME RingBounds, RingInv
    PROVE  TailWindowExact
<1>1. PICK sz \in Nat : sz = ring.cumulative_bytes
  BY DEF RingInv, RingOk
<1>2. ASSUME NEW o \in Nat, NEW l \in Nat, NEW len \in Int,
             len = (IF l = 0 \/ o >= sz THEN 0 ELSE MinOf(l, sz))
      PROVE  /\ ComputeTailWindow(sz, o, l)[2] = len
             /\ len > 0 => ComputeTailWindow(sz, o, l)[1] = sz - len
             /\ ComputeTailWindow(sz, o, l)[3] = (sz > o + l)
  BY <1>2 DEF ComputeTailWindow, MaxOf, MinOf
<1>3. SUFFICES ASSUME NEW o \in 0 .. MaxBytes, NEW l \in 0 .. MaxBytes, NEW len,
                      len = (IF l = 0 \/ o >= sz THEN 0 ELSE MinOf(l, sz))
               PROVE  /\ ComputeTailWindow(sz, o, l)[2] = len
                      /\ len > 0 => ComputeTailWindow(sz, o, l)[1] = sz - len
                      /\ ComputeTailWindow(sz, o, l)[3] = (sz > o + l)
  BY <1>1 DEF TailWindowExact
<1>4. o \in Nat /\ l \in Nat
  BY DEF RingBounds
<1>5. len \in Int
  BY <1>3, <1>4, Extremes
<1>6. QED
  BY <1>2, <1>3, <1>4, <1>5

\* A ring that has kept its stream answers like a file.
LEMMA FileSays ==
    ASSUME RingBounds, RingInv
    PROVE  ReadsLikeFile
<1>1. SUFFICES ASSUME first = 0, ring.log_start_offset = 0,
                      NEW o \in Offsets, NEW l \in 0 .. MaxBytes, NEW w,
                      w = ComputeReadWindow(ring.cumulative_bytes, o, l), w # <<>>
               PROVE  /\ IsStreamFrom(ReadBytes(ring, o, l)[1], w[1])
                      /\ Len(ReadBytes(ring, o, l)[1]) = w[2]
  BY DEF ReadsLikeFile
<1>2. PICK t \in Nat : t = ring.cumulative_bytes
  BY DEF RingInv, RingOk
<1>3. o \in Int /\ l \in Nat
  BY DEF RingBounds, Offsets
<1>4. PICK pos \in Int, n \in Int :
          /\ pos = MinOf(MaxOf(IF o < 0 THEN t + o ELSE o, 0), t)
          /\ n = (IF l = 0 THEN t - pos ELSE MinOf(l, t - pos))
  <2>1. PICK pos \in Int : pos = MinOf(MaxOf(IF o < 0 THEN t + o ELSE o, 0), t)
    BY <1>3 DEF MaxOf, MinOf
  <2>2. PICK n \in Int : n = (IF l = 0 THEN t - pos ELSE MinOf(l, t - pos))
    <3>1. t - pos \in Int
      OBVIOUS
    <3>2. MinOf(l, t - pos) \in Int
      BY <1>3, <3>1, Extremes
    <3>3. QED
      BY <3>1, <3>2
  <2>3. QED
    BY <2>1, <2>2
<1>5. 0 <= pos /\ pos <= t /\ 0 <= n /\ n <= t - pos
  BY <1>3, <1>4 DEF MaxOf, MinOf
<1>6. w[1] = pos /\ w[2] = n
  <2>1. CASE o < 0
    <3>1. l = 0
      BY <1>1, <1>3, <2>1 DEF ComputeReadWindow
    <3>2. w = <<t - MinOf(-o, t), MinOf(-o, t)>>
      BY <1>1, <1>2, <1>3, <2>1, <3>1 DEF ComputeReadWindow
    <3>3. pos = t - MinOf(-o, t) /\ n = MinOf(-o, t)
      BY <1>3, <1>4, <2>1, <3>1 DEF MaxOf, MinOf
    <3>4. QED
      BY <3>2, <3>3
  <2>2. CASE o >= 0
    <3>1. pos = MinOf(o, t)
      BY <1>3, <1>4, <2>2 DEF MaxOf, MinOf
    <3>2. w = <<pos, n>>
      BY <1>1, <1>2, <1>3, <1>4, <2>2, <3>1 DEF ComputeReadWindow
    <3>3. QED
      BY <3>2
  <2>3. QED
    BY <1>3, <2>1, <2>2
<1>7. CASE o >= t
  <2>1. MaxOf(0, t) = t /\ pos = t /\ n = 0
    BY <1>3, <1>4, <1>7 DEF MaxOf, MinOf
  <2>2. o >= 0 /\ o >= MaxOf(0, t)
    BY <1>3, <1>7, <2>1
  <2>3. ReadBytes(ring, o, l) = <<<<>>, t, FALSE>>
    BY <1>1, <1>2, <2>2 DEF ReadBytes
  <2>4. ReadBytes(ring, o, l)[1] = <<>> /\ IsStreamFrom(<<>>, w[1]) /\ Len(<<>>) = 0
    BY <2>3 DEF IsStreamFrom
  <2>5. QED
    BY <1>6, <2>1, <2>4
<1>8. CASE o < t
  <2>1. PICK c : c = CopyRange(ring, pos, pos + n)
    OBVIOUS
  <2>2. /\ MaxOf(l, 0) = l /\ MaxOf(IF o < 0 THEN t + o ELSE o, 0) = pos
        /\ (IF l = 0 /\ ~(o >= 0 /\ o < 0) THEN t - pos ELSE MinOf(l, t - pos)) = n
        /\ ~(o >= 0 /\ o >= MaxOf(0, t))
    BY <1>3, <1>4, <1>8 DEF MaxOf, MinOf
  <2>3. ReadBytes(ring, o, l)[1] = c
    BY <1>1, <1>2, <2>1, <2>2 DEF ReadBytes
  <2>4. pos = MaxOf(pos, 0) /\ n = MaxOf(0, MinOf(pos + n, t) - pos)
    BY <1>5 DEF MaxOf, MinOf
  <2>5. Len(c) = n /\ IsStreamFrom(c, pos)
    <3>1. PICK e \in Int : e = pos + n
      OBVIOUS
    <3>2. c = CopyRange(ring, pos, e) /\ pos = MaxOf(pos, ring.log_start_offset)
      BY <1>1, <2>1, <2>4, <3>1
    <3>3. n = MaxOf(0, MinOf(e, ring.cumulative_bytes) - pos) /\ pos >= first
      BY <1>1, <1>2, <1>5, <2>4, <3>1
    <3>4. QED
      BY <3>2, <3>3, CopyRead
  <2>6. QED
    BY <1>6, <2>3, <2>5
<1>9. QED
  BY <1>3, <1>7, <1>8

-----------------------------------------------------------------------------
\* ContinuousRingBuffer, with any capacity, after any appends, lines, clears and
\* seeds: read_bytes and tail_bytes return the bytes of the stream at the offsets
\* asked for and report overflow exactly when some are gone; compute_tail_window
\* gives the last bytes of a file of that length, and a ring that has kept all of
\* its stream answers the reads a file accepts as that file would.
THEOREM RingReads ==
    ASSUME RingBounds
    PROVE  Spec => [](ReadsExact /\ TailFollows /\ TailWindowExact /\ ReadsLikeFile)
<1>1. Init => RingInv
  BY RingInit
<1>2. RingInv /\ [Next]_vars => RingInv'
  BY RingStep
<1>3. RingInv => ReadsExact /\ TailFollows /\ TailWindowExact /\ ReadsLikeFile
  BY ReadsSay, FollowSays, WindowSays, FileSays
<1>4. QED
  BY <1>1, <1>2, <1>3, PTL DEF Spec
=============================================================================
