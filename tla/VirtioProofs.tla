---------------------------- MODULE VirtioProofs ----------------------------
(***************************************************************************)
(* The receive side of the virtio network device for every size of the     *)
(* ring, every index width and any number of frames: no buffer is lost,    *)
(* handed out twice or overwritten while a sender streams, frames are seen *)
(* in order, and no wake-up is lost while the guest resets its device or   *)
(* is removed.                                                             *)
(*                                                                         *)
(* The rings are read through windows: the entries from one index to       *)
(* another.  The lemmas on windows say what moving an end of one does to   *)
(* its entries when indices wrap; the invariant says where each buffer is  *)
(* in terms of the windows.                                                *)
(***************************************************************************)
EXTENDS VirtioDevices, FiniteSetTheorems, TLAPS

\* The values of a ring index.
Index == 0 .. W - 1

-----------------------------------------------------------------------------
(* Ring indices, slots and windows.                                        *)

\* A ring index counts modulo W.
LEMMA IndexSteps ==
  \A i \in Index :
    /\ Stream!Inc(i) = IF i = W - 1 THEN 0 ELSE i + 1
    /\ Stream!Dec(i) = IF i = 0 THEN W - 1 ELSE i - 1
BY NetAssumption DEF NetConstants, Index, Stream!Inc, Stream!Dec

\* How far ahead one index is of another.
LEMMA DistanceIs ==
  \A a, b \in Index : Stream!Distance(a, b) = IF a <= b THEN b - a ELSE b - a + W
BY NetAssumption DEF NetConstants, Index, Stream!Distance

\* Division with remainder.
LEMMA DivMod ==
  ASSUME NEW n \in Nat \ {0}, NEW x \in Int
  PROVE  x = (n * (x \div n)) + (x % n) /\ x % n \in 0 .. n - 1 /\ x \div n \in Int
<1>1. x \div n \in Int  OBVIOUS
<1>2. x % n \in 0 .. n - 1  OBVIOUS
<1>3. x = (n * (x \div n)) + (x % n)  OBVIOUS
<1>4. QED BY <1>1, <1>2, <1>3

\* The only multiple of n smaller than n is 0.
LEMMA SmallMultiple ==
  ASSUME NEW n \in Nat \ {0}, NEW k \in Int, n * k < n, -n < n * k
  PROVE  k = 0
OBVIOUS

\* What is left of n * q + r.
LEMMA SameRest ==
  ASSUME NEW n \in Nat \ {0}, NEW q \in Int, NEW r \in 0 .. n - 1
  PROVE  (n * q + r) % n = r
OBVIOUS

\* Two numbers less than n apart with the same remainder are equal.
LEMMA SameSlot ==
  ASSUME NEW n \in Nat \ {0}, NEW x \in Int, NEW y \in Int, x % n = y % n, x - y < n, y - x < n
  PROVE  x = y
<1> DEFINE a == x \div n
           b == y \div n
<1>1. a \in Int /\ b \in Int /\ x - y = n * a - n * b
  <2>1. x = n * a + (x % n) /\ a \in Int /\ x % n \in Int  BY DivMod
  <2>2. y = n * b + (y % n) /\ b \in Int  BY DivMod
  <2>3. QED BY <2>1, <2>2
<1>2. n * (a - b) = n * a - n * b
  BY <1>1
<1> HIDE DEF a, b
<1>3. a - b = 0
  BY <1>1, <1>2, SmallMultiple
<1>4. QED BY <1>1, <1>2, <1>3

\* W is a multiple of N: wrapping an index does not change the slot it stands for.
LEMMA SlotShift ==
  ASSUME NEW n \in Nat \ {0}, NEW w \in Nat, w % n = 0, NEW x \in Int
  PROVE  (x + w) % n = x % n /\ (x - w) % n = x % n
<1> DEFINE c == w \div n
           q == x \div n
           r == x % n
<1>1. c \in Int /\ q \in Int /\ r \in 0 .. n - 1 /\ w = n * c /\ x = n * q + r
  <2>1. w = n * c + 0  BY DivMod
  <2>2. QED BY <2>1, DivMod
<1>2. n * (q + c) = n * q + n * c /\ n * (q - c) = n * q - n * c
  BY <1>1
<1>3. x + w = n * (q + c) + r /\ x - w = n * (q - c) + r
  BY <1>1, <1>2
<1> HIDE DEF c, q, r
<1>4. (n * (q + c) + r) % n = r /\ (n * (q - c) + r) % n = r
  BY <1>1, SameRest
<1>5. QED BY <1>3, <1>4 DEF r

\* How far apart indices are, and which slots they stand for, as they move on.
LEMMA RingSteps ==
  ASSUME NEW i \in Index, NEW j \in Index
  PROVE  /\ Stream!Inc(i) \in Index /\ Stream!Dec(i) \in Index /\ Stream!Inc(Stream!Dec(i)) = i /\ Stream!Dec(Stream!Inc(i)) = i
         /\ Stream!Distance(i, j) \in 0 .. W - 1 /\ Stream!Distance(i, i) = 0
         /\ Stream!Distance(i, j) = 0 <=> i = j
         /\ Stream!Distance(i, j) < W - 1 => Stream!Distance(i, Stream!Inc(j)) = Stream!Distance(i, j) + 1
         /\ Stream!Distance(i, j) = W - 1 => Stream!Distance(i, Stream!Inc(j)) = 0
         /\ i # j => Stream!Distance(Stream!Inc(i), j) = Stream!Distance(i, j) - 1
         /\ Stream!Distance(i, j) < W - 1 => Stream!Distance(Stream!Dec(i), j) = Stream!Distance(i, j) + 1
<1> USE NetAssumption
<1> USE DEF NetConstants, Index
<1>1. Stream!Inc(i) \in Index /\ Stream!Dec(i) \in Index  BY IndexSteps
<1>2. Stream!Inc(Stream!Dec(i)) = i /\ Stream!Dec(Stream!Inc(i)) = i  BY <1>1, IndexSteps
<1>3. Stream!Distance(i, j) \in 0 .. W - 1 /\ Stream!Distance(i, i) = 0 /\ (Stream!Distance(i, j) = 0 <=> i = j)
  BY DistanceIs
<1>4. Stream!Inc(j) \in Index  BY IndexSteps
<1>5. /\ Stream!Distance(i, j) < W - 1 => Stream!Distance(i, Stream!Inc(j)) = Stream!Distance(i, j) + 1
      /\ Stream!Distance(i, j) = W - 1 => Stream!Distance(i, Stream!Inc(j)) = 0
  <2>1. Stream!Distance(i, Stream!Inc(j)) = IF i <= Stream!Inc(j) THEN Stream!Inc(j) - i ELSE Stream!Inc(j) - i + W
    BY <1>4, DistanceIs
  <2>2. Stream!Distance(i, j) = IF i <= j THEN j - i ELSE j - i + W  BY DistanceIs
  <2>3. Stream!Inc(j) = IF j = W - 1 THEN 0 ELSE j + 1  BY IndexSteps
  <2>4. QED BY <2>1, <2>2, <2>3
<1>6. i # j => Stream!Distance(Stream!Inc(i), j) = Stream!Distance(i, j) - 1
  <2>1. Stream!Distance(Stream!Inc(i), j) = IF Stream!Inc(i) <= j THEN j - Stream!Inc(i) ELSE j - Stream!Inc(i) + W
    BY <1>1, DistanceIs
  <2>2. Stream!Distance(i, j) = IF i <= j THEN j - i ELSE j - i + W  BY DistanceIs
  <2>3. Stream!Inc(i) = IF i = W - 1 THEN 0 ELSE i + 1  BY IndexSteps
  <2>4. QED BY <2>1, <2>2, <2>3
<1>7. Stream!Distance(i, j) < W - 1 => Stream!Distance(Stream!Dec(i), j) = Stream!Distance(i, j) + 1
  <2>1. Stream!Distance(Stream!Dec(i), j) = IF Stream!Dec(i) <= j THEN j - Stream!Dec(i) ELSE j - Stream!Dec(i) + W
    BY <1>1, DistanceIs
  <2>2. Stream!Distance(i, j) = IF i <= j THEN j - i ELSE j - i + W  BY DistanceIs
  <2>3. Stream!Dec(i) = IF i = 0 THEN W - 1 ELSE i - 1  BY IndexSteps
  <2>4. QED BY <2>1, <2>2, <2>3
<1>8. QED BY <1>1, <1>2, <1>3, <1>5, <1>6, <1>7

\* The slots that indices d and e past i stand for, as i moves on.
LEMMA RingSlots ==
  ASSUME NEW i \in Index, NEW j \in Index
  PROVE  /\ \A d \in Nat : (Stream!Inc(i) + d) % N = (i + (d + 1)) % N
         /\ \A d \in Nat : (Stream!Dec(i) + (d + 1)) % N = (i + d) % N
         /\ j % N = (i + Stream!Distance(i, j)) % N
         /\ \A d \in Nat : (i + d) % N \in 0 .. N - 1
         /\ \A d, e \in Nat : d - e < N /\ e - d < N /\ (i + d) % N = (i + e) % N => d = e
<1> USE NetAssumption
<1> USE DEF NetConstants, Index
<1>1. ASSUME NEW d \in Nat PROVE (Stream!Inc(i) + d) % N = (i + (d + 1)) % N
  <2>1. CASE i = W - 1
    <3>1. (d + W) % N = d % N
      <4>1. d \in Int /\ N \in Nat \ {0} /\ W \in Nat /\ W % N = 0  OBVIOUS
      <4>2. QED BY <4>1, SlotShift
    <3>2. Stream!Inc(i) + d = d /\ i + (d + 1) = d + W  BY <2>1, IndexSteps
    <3>3. QED BY <3>1, <3>2
  <2>2. CASE i # W - 1
    <3>1. Stream!Inc(i) + d = i + (d + 1)  BY <2>2, IndexSteps
    <3>2. QED BY <3>1
  <2>3. QED BY <2>1, <2>2
<1>2. ASSUME NEW d \in Nat PROVE (Stream!Dec(i) + (d + 1)) % N = (i + d) % N
  <2>1. CASE i = 0
    <3>1. (d + W) % N = d % N
      <4>1. d \in Int /\ N \in Nat \ {0} /\ W \in Nat /\ W % N = 0  OBVIOUS
      <4>2. QED BY <4>1, SlotShift
    <3>2. Stream!Dec(i) + (d + 1) = d + W /\ i + d = d  BY <2>1, IndexSteps
    <3>3. QED BY <3>1, <3>2
  <2>2. CASE i # 0
    <3>1. Stream!Dec(i) + (d + 1) = i + d  BY <2>2, IndexSteps
    <3>2. QED BY <3>1
  <2>3. QED BY <2>1, <2>2
<1>3. j % N = (i + Stream!Distance(i, j)) % N
  <2>1. CASE i <= j
    <3>1. i + Stream!Distance(i, j) = j  BY <2>1, DistanceIs
    <3>2. QED BY <3>1
  <2>2. CASE ~(i <= j)
    <3>1. i + Stream!Distance(i, j) = j + W  BY <2>2, DistanceIs
    <3>2. (j + W) % N = j % N
      <4>1. j \in Int /\ N \in Nat \ {0} /\ W \in Nat /\ W % N = 0  OBVIOUS
      <4>2. QED BY <4>1, SlotShift
    <3>3. QED BY <3>1, <3>2
  <2>3. QED BY <2>1, <2>2
<1>4. \A d \in Nat : (i + d) % N \in 0 .. N - 1
  <2> SUFFICES ASSUME NEW d \in Nat PROVE (i + d) % N \in 0 .. N - 1
    OBVIOUS
  <2>1. i + d \in Int  OBVIOUS
  <2>2. QED BY <2>1, DivMod
<1>5. ASSUME NEW d \in Nat, NEW e \in Nat, d - e < N, e - d < N, (i + d) % N = (i + e) % N
      PROVE  d = e
  <2>1. i + d = i + e
    <3>1. i + d \in Int /\ i + e \in Int /\ (i + d) - (i + e) < N /\ (i + e) - (i + d) < N
      BY <1>5
    <3>2. QED BY <3>1, <1>5, SameSlot
  <2>2. QED BY <2>1
<1>6. QED BY <1>1, <1>2, <1>3, <1>4, <1>5

\* The slots of a ring; the entry d past index i, in ring r; the ring with x
\* written at index i.
Slots == 0 .. N - 1
Win(r, i, d) == r[(i + d) % N]
Put(r, i, x) == [r EXCEPT ![i % N] = x]

\* Ring q is r with x written at index j: seen from i, the window up to j has grown
\* by x and is the same otherwise.
Grown(S, r, i, j, x, q) ==
    /\ Stream!Inc(j) \in Index
    /\ Stream!Distance(i, Stream!Inc(j)) = Stream!Distance(i, j) + 1
    /\ q \in [Slots -> S]
    /\ Win(q, i, Stream!Distance(i, j)) = x
    /\ \A d \in 0 .. Stream!Distance(i, j) - 1 : Win(q, i, d) = Win(r, i, d)

\* Writing at the upper end of a window that is not yet the whole ring, and moving
\* that end on, adds one entry and keeps the others.
LEMMA WindowGrows ==
  ASSUME NEW S, NEW r \in [Slots -> S], NEW i \in Index, NEW j \in Index,
         Stream!Distance(i, j) < N, NEW x \in S
  PROVE  Grown(S, r, i, j, x, Put(r, j, x))
<1> USE NetAssumption
<1> DEFINE q == Put(r, j, x)
<1> DEFINE D == Stream!Distance(i, j)
<1>1. /\ Stream!Inc(j) \in Index /\ D \in 0 .. W - 1
      /\ D < W - 1 => Stream!Distance(i, Stream!Inc(j)) = D + 1
  BY RingSteps
<1>2. W \in Nat /\ N \in Nat \ {0} /\ N < W  BY DEF NetConstants
<1>3. j % N = (i + D) % N /\ (\A d \in Nat : (i + d) % N \in 0 .. N - 1)
      /\ \A d, e \in Nat : d - e < N /\ e - d < N /\ (i + d) % N = (i + e) % N => d = e
  BY RingSlots
<1> HIDE DEF D
<1>4. Stream!Distance(i, Stream!Inc(j)) = D + 1  BY <1>1, <1>2 DEF D
<1>5. j % N \in Slots  BY <1>1, <1>3 DEF Slots
<1>6. q \in [Slots -> S] /\ q[j % N] = x  BY <1>5 DEF Put
<1>7. ASSUME NEW d \in 0 .. D - 1 PROVE Win(q, i, d) = Win(r, i, d)
  <2>1. d \in Nat /\ D \in Nat /\ d - D < N /\ D - d < N /\ d # D  BY <1>1, <1>2 DEF D
  <2>2. (i + d) % N # j % N  BY <1>3, <2>1
  <2>3. (i + d) % N \in Slots  BY <1>3, <2>1 DEF Slots
  <2>4. QED BY <2>2, <2>3 DEF Win, Put
<1>8. Win(q, i, D) = x  BY <1>3, <1>6 DEF Win
<1>9. QED BY <1>1, <1>4, <1>6, <1>7, <1>8 DEF D, Grown

\* Moving the lower end of a window on drops its first entry.
LEMMA WindowShrinks ==
  ASSUME NEW r, NEW i \in Index, NEW j \in Index, i # j
  PROVE  /\ Stream!Inc(i) \in Index
         /\ Stream!Distance(i, j) \in Nat \ {0}
         /\ Stream!Distance(Stream!Inc(i), j) = Stream!Distance(i, j) - 1
         /\ \A d \in Nat : Win(r, Stream!Inc(i), d) = Win(r, i, d + 1)
         /\ Win(r, i, 0) = r[i % N]
         /\ Stream!Dec(Stream!Inc(i)) = i
<1> USE NetAssumption
<1>1. /\ Stream!Inc(i) \in Index
      /\ Stream!Distance(i, j) \in Nat \ {0}
      /\ Stream!Distance(Stream!Inc(i), j) = Stream!Distance(i, j) - 1
      /\ Stream!Dec(Stream!Inc(i)) = i
  BY RingSteps DEF NetConstants
<1>2. \A d \in Nat : Win(r, Stream!Inc(i), d) = Win(r, i, d + 1)  BY RingSlots DEF Win
<1>3. Win(r, i, 0) = r[i % N]  BY DEF Win, Index
<1>4. QED BY <1>1, <1>2, <1>3

\* Moving the lower end back puts the slot before it in front.
LEMMA WindowBack ==
  ASSUME NEW r, NEW i \in Index, NEW j \in Index, Stream!Distance(i, j) < N
  PROVE  /\ Stream!Dec(i) \in Index
         /\ Stream!Distance(Stream!Dec(i), j) = Stream!Distance(i, j) + 1
         /\ \A d \in Nat : Win(r, Stream!Dec(i), d + 1) = Win(r, i, d)
         /\ Win(r, Stream!Dec(i), 0) = r[Stream!Dec(i) % N]
<1> USE NetAssumption
<1>1. /\ Stream!Dec(i) \in Index /\ Stream!Distance(i, j) \in 0 .. W - 1
      /\ Stream!Distance(i, j) < W - 1 => Stream!Distance(Stream!Dec(i), j) = Stream!Distance(i, j) + 1
  BY RingSteps
<1>2. Stream!Distance(i, j) < W - 1  BY <1>1 DEF NetConstants
<1>3. \A d \in Nat : Win(r, Stream!Dec(i), d + 1) = Win(r, i, d)  BY RingSlots DEF Win
<1>4. Win(r, Stream!Dec(i), 0) = r[Stream!Dec(i) % N]  BY <1>1 DEF Win, Index
<1>5. QED BY <1>1, <1>2, <1>3, <1>4

\* Distinct buffers, one of which is left out, are fewer than N.
LEMMA Pigeons ==
  ASSUME NEW k \in Nat, NEW f \in [0 .. k - 1 -> Slots], NEW b \in Slots,
         \A d, e \in 0 .. k - 1 : f[d] = f[e] => d = e, \A d \in 0 .. k - 1 : f[d] # b
  PROVE  k < N
<1> USE NetAssumption
<1>1. N \in Nat \ {0} /\ N - 1 \in Int /\ 0 \in Int /\ k - 1 \in Int  BY DEF NetConstants
<1>2. IsFiniteSet(Slots) /\ Cardinality(Slots) = N
  BY <1>1, FS_Interval DEF Slots
<1>3. IsFiniteSet(Slots \ {b}) /\ Cardinality(Slots \ {b}) = N - 1
  BY <1>2, FS_RemoveElement
<1>4. f \in Injection(0 .. k - 1, Slots \ {b})
  BY DEF Injection, IsInjective
<1>5. Cardinality(0 .. k - 1) <= N - 1
  BY <1>3, <1>4, FS_Injection
<1>6. Cardinality(0 .. k - 1) = k
  BY <1>1, FS_Interval
<1>7. QED BY <1>1, <1>5, <1>6

-----------------------------------------------------------------------------
-----------------------------------------------------------------------------
(* A sender streams frames to a guest that stays up.                       *)

\* The windows of the two rings: what is published and not popped, what is used and
\* not taken; whether the sender has a frame at hand, and whether it holds a buffer.
Ahead == Stream!Distance(vq.last, avail.idx)
Behind == Stream!Distance(guest.seen, used.idx)
Offered(d) == Win(avail.ring, vq.last, d)
Filled(d) == Win(used.ring, guest.seen, d)
Sender == snd[Remote]
AtRest == Sender.pc \in {"idle", "notify", "flags"}
Holding == Sender.pc \in {"recheck", "desc", "putback", "write", "used"}

\* Shape of the state while the guest stays up.
StreamTypes ==
    /\ vq \in [up : {TRUE}, last : Index]
    /\ dev \in [activated : {TRUE}, irt : BOOLEAN, irq : BOOLEAN]
    /\ avail \in [ring : [Slots -> Slots], idx : Index, flags : {0, 1}]
    /\ used \in [ring : [Slots -> [id : Slots, frame : Stream!Frames]], idx : Index]
    /\ data \in [Slots -> Stream!Frames]
    /\ guest \in [phase : {"up"}, free : SUBSET Slots, seen : Index,
                  isr : {"none", "ack", "sched"}, napi : {"off", "poll", "recheck"}]
    /\ snd \in [{Remote} -> [pc : Stream!SenderPcs, k : 0 .. MaxFrames, todo : 0 .. 2,
                             av : Index, buf : Slots \cup {NoBuf}, owed : BOOLEAN]]
    /\ seen \in [{Remote} -> 0 .. MaxFrames]

\* The sender holds a buffer from the pop to the report; the avail index it has read
\* is not behind last_avail_idx; until it writes, the slot it popped is unchanged, so
\* that stepping the index back publishes the same buffer again.
SenderOK ==
    /\ Sender.buf \in Slots <=> Holding
    /\ ~AtRest => Sender.todo >= 1 /\ Sender.k + Sender.todo - 1 <= MaxFrames
    /\ Sender.pc = "pop" /\ Sender.av # vq.last => Ahead > 0
    /\ Sender.pc \in {"recheck", "desc", "putback"} =>
         avail.ring[Stream!Dec(vq.last) % N] = Sender.buf

\* Free, held, published or used: each buffer in one place and once.  It is the form
\* of BufferOnce a step preserves.
Partition ==
    /\ \A d, e \in 0 .. Ahead - 1 : Offered(d) = Offered(e) => d = e
    /\ \A d, e \in 0 .. Behind - 1 : Filled(d).id = Filled(e).id => d = e
    /\ \A d \in 0 .. Ahead - 1 : Offered(d) \notin guest.free /\ Offered(d) # Sender.buf
    /\ \A e \in 0 .. Behind - 1 : Filled(e).id \notin guest.free /\ Filled(e).id # Sender.buf
    /\ \A d \in 0 .. Ahead - 1, e \in 0 .. Behind - 1 : Offered(d) # Filled(e).id
    /\ Sender.buf \notin guest.free
    /\ \A b \in Slots : \/ b \in guest.free \/ b = Sender.buf
                        \/ \E d \in 0 .. Ahead - 1 : Offered(d) = b
                        \/ \E e \in 0 .. Behind - 1 : Filled(e).id = b

\* Used buffers hold the frames reported, whose numbers increase from what the guest
\* has seen to what the sender is sending.
FramesOK ==
    /\ Sender.pc = "used" => data[Sender.buf] = [from |-> Remote, k |-> Sender.k]
    /\ \A e \in 0 .. Behind - 1 :
         /\ data[Filled(e).id] = Filled(e).frame
         /\ seen[Remote] < Filled(e).frame.k
         /\ IF AtRest THEN Filled(e).frame.k <= Sender.k ELSE Filled(e).frame.k < Sender.k
    /\ \A d, e \in 0 .. Behind - 1 : d < e => Filled(d).frame.k < Filled(e).frame.k
    /\ IF AtRest THEN seen[Remote] <= Sender.k ELSE seen[Remote] < Sender.k

\* The invariant of the stream.
StreamInv == StreamTypes /\ SenderOK /\ Partition /\ FramesOK

\* What the windows are when neither ring nor index moves.
LEMMA SameWindows ==
  ASSUME vq'.last = vq.last, avail'.ring = avail.ring, avail'.idx = avail.idx,
         used' = used, guest'.seen = guest.seen
  PROVE  /\ Ahead' = Ahead /\ Behind' = Behind
         /\ \A d \in Nat : Offered(d)' = Offered(d) /\ Filled(d)' = Filled(d)
BY DEF Ahead, Behind, Offered, Filled

\* The windows of the rings hold buffers.
LEMMA WindowSizes ==
  ASSUME StreamTypes
  PROVE  /\ Ahead \in Nat /\ Behind \in Nat
         /\ \A d \in Nat : Offered(d) \in Slots /\ Filled(d) \in [id : Slots, frame : Stream!Frames]
<1> USE NetAssumption
<1>1. vq.last \in Index /\ avail.idx \in Index /\ guest.seen \in Index /\ used.idx \in Index
      /\ avail.ring \in [Slots -> Slots] /\ used.ring \in [Slots -> [id : Slots, frame : Stream!Frames]]
  BY DEF StreamTypes
<1>2. Ahead \in Nat /\ Behind \in Nat
  <2>1. Ahead \in 0 .. W - 1 /\ Behind \in 0 .. W - 1  BY <1>1, RingSteps DEF Ahead, Behind
  <2>2. QED BY <2>1
<1>3. \A d \in Nat : (vq.last + d) % N \in Slots /\ (guest.seen + d) % N \in Slots
  BY <1>1, RingSlots DEF Slots
<1>4. QED BY <1>1, <1>2, <1>3 DEF Offered, Filled, Win

\* A step that moves the sender on and leaves the rings alone.
LEMMA SenderMoves ==
  ASSUME StreamInv, StreamTypes',
         UNCHANGED <<vq, avail, used, guest, data, seen>>,
         Holding' <=> Holding, Sender'.buf = Sender.buf,
         Sender'.pc # "used",
         Sender'.k >= Sender.k, AtRest /\ ~AtRest' => Sender'.k > Sender.k,
         ~AtRest' => Sender'.todo >= 1 /\ Sender'.k + Sender'.todo - 1 <= MaxFrames,
         Sender'.pc = "pop" => Sender'.av = avail.idx,
         Sender'.pc \in {"recheck", "desc", "putback"} => Sender.pc \in {"recheck", "desc", "putback"}
  PROVE  StreamInv'
<1> USE NetAssumption
<1>1. /\ Ahead' = Ahead /\ Behind' = Behind
      /\ \A d \in Nat : Offered(d)' = Offered(d) /\ Filled(d)' = Filled(d)
  BY SameWindows
<1>2. Ahead \in Nat /\ Behind \in Nat  BY WindowSizes DEF StreamInv
<1>3. \A d \in 0 .. Ahead - 1 : d \in Nat  BY <1>2
<1>4. \A d \in 0 .. Behind - 1 : d \in Nat  BY <1>2
<1>5. Partition'
  BY <1>1, <1>3, <1>4 DEF StreamInv, Partition
<1>6. SenderOK'
  <2>1. vq.last # avail.idx => Ahead > 0
    <3>1. vq.last \in Index /\ avail.idx \in Index  BY DEF StreamInv, StreamTypes
    <3>2. Ahead = 0 <=> vq.last = avail.idx  BY <3>1, RingSteps DEF Ahead
    <3>3. QED BY <1>2, <3>2
  <2>2. QED BY <1>1, <2>1 DEF StreamInv, SenderOK, Sender
<1>7. FramesOK'
  <2>1. Sender.k \in Nat /\ Sender'.k \in Nat /\ seen[Remote] \in Nat
    BY DEF StreamInv, StreamTypes, Sender, NetConstants
  <2>2. \A e \in 0 .. Behind - 1 : Filled(e).frame.k \in Nat
    BY <1>4, WindowSizes DEF StreamInv, Stream!Frames, NetConstants
  <2>3. QED BY <1>1, <1>4, <2>1, <2>2 DEF StreamInv, FramesOK
<1>8. QED BY <1>5, <1>6, <1>7 DEF StreamInv

\* A step of the guest or of a message that leaves buffers and indices alone.
LEMMA GuestMoves ==
  ASSUME StreamInv, StreamTypes',
         UNCHANGED <<vq, used, data, snd, seen>>, avail'.ring = avail.ring,
         avail'.idx = avail.idx, guest'.free = guest.free, guest'.seen = guest.seen
  PROVE  StreamInv'
<1> USE NetAssumption
<1>1. /\ Ahead' = Ahead /\ Behind' = Behind
      /\ \A d \in Nat : Offered(d)' = Offered(d) /\ Filled(d)' = Filled(d)
  BY SameWindows
<1>2. Ahead \in Nat /\ Behind \in Nat  BY WindowSizes DEF StreamInv
<1>3. \A d \in 0 .. Ahead - 1 : d \in Nat  BY <1>2
<1>4. \A d \in 0 .. Behind - 1 : d \in Nat  BY <1>2
<1>5. Partition'
  BY <1>1, <1>3, <1>4 DEF StreamInv, Partition, Sender
<1>6. SenderOK'
  BY <1>1 DEF StreamInv, SenderOK, Sender, Holding, AtRest
<1>7. FramesOK'
  BY <1>1, <1>4 DEF StreamInv, FramesOK, Sender, AtRest
<1>8. QED BY <1>5, <1>6, <1>7 DEF StreamInv

\* The record of the sender.
SenderRecs == [pc : Stream!SenderPcs, k : 0 .. MaxFrames, todo : 0 .. 2,
               av : Index, buf : Slots \cup {NoBuf}, owed : BOOLEAN]

\* The steps of a sender that touch nothing but its own record.
LEMMA StepSend ==
  ASSUME StreamInv,
         Stream!Transmit(Remote) \/ Stream!CheckActivated(Remote) \/ Stream!AvailIdx(Remote)
           \/ Stream!Recheck(Remote) \/ Stream!ReadDesc(Remote) \/ Stream!NotifyTarget(Remote)
           \/ Stream!NotifyLocal(Remote)
  PROVE  StreamInv'
<1> USE NetAssumption
<1> USE DEF Stream!Goto
<1>0. /\ vq.up = TRUE /\ dev.activated = TRUE /\ guest.phase = "up"
      /\ snd \in [{Remote} -> SenderRecs] /\ avail.idx \in Index /\ MaxFrames \in Nat
      /\ dev \in [activated : {TRUE}, irt : BOOLEAN, irq : BOOLEAN]
  BY DEF StreamInv, StreamTypes, NetConstants, SenderRecs
<1>a. SUFFICES ASSUME snd' \in [{Remote} -> SenderRecs],
                      dev' \in [activated : {TRUE}, irt : BOOLEAN, irq : BOOLEAN],
                      UNCHANGED <<vq, avail, used, guest, data, seen>>
               PROVE  StreamInv'
  <2>1. CASE Stream!Transmit(Remote)
    <3>1. UNCHANGED <<vq, dev, avail, used, guest, data, seen>>  BY <2>1 DEF Stream!Transmit
    <3>2. snd' \in [{Remote} -> SenderRecs]
      BY <1>0, <2>1
         DEF Stream!Transmit, SenderRecs, Stream!SenderPcs
    <3>3. QED BY <1>0, <1>a, <3>1, <3>2
  <2>2. CASE Stream!CheckActivated(Remote)
    <3>1. UNCHANGED <<vq, dev, avail, used, guest, data, seen>> /\ snd' = [snd EXCEPT ![Remote].pc = "idx"]
      BY <1>0, <2>2 DEF Stream!CheckActivated
    <3>2. snd' \in [{Remote} -> SenderRecs]  BY <1>0, <3>1 DEF SenderRecs, Stream!SenderPcs
    <3>3. QED BY <1>0, <1>a, <3>1, <3>2
  <2>3. CASE Stream!AvailIdx(Remote)
    <3>1. UNCHANGED <<vq, dev, avail, used, guest, data, seen>> /\ snd' = [snd EXCEPT ![Remote].av = avail.idx, ![Remote].pc = "pop"]
      BY <1>0, <2>3 DEF Stream!AvailIdx
    <3>2. snd' \in [{Remote} -> SenderRecs]  BY <1>0, <3>1 DEF SenderRecs, Stream!SenderPcs
    <3>3. QED BY <1>0, <1>a, <3>1, <3>2
  <2>4. CASE Stream!Recheck(Remote)
    <3>1. UNCHANGED <<vq, dev, avail, used, guest, data, seen>> /\ snd' = [snd EXCEPT ![Remote].pc = "desc"]
      BY <1>0, <2>4 DEF Stream!Recheck
    <3>2. snd' \in [{Remote} -> SenderRecs]  BY <1>0, <3>1 DEF SenderRecs, Stream!SenderPcs
    <3>3. QED BY <1>0, <1>a, <3>1, <3>2
  <2>5. CASE Stream!ReadDesc(Remote)
    <3>1. /\ UNCHANGED <<vq, dev, avail, used, guest, data, seen>>
          /\ \E pc \in {"write", "putback"} : snd' = [snd EXCEPT ![Remote].pc = pc]
      BY <1>0, <2>5 DEF Stream!ReadDesc
    <3>2. snd' \in [{Remote} -> SenderRecs]  BY <1>0, <3>1 DEF SenderRecs, Stream!SenderPcs
    <3>3. QED BY <1>0, <1>a, <3>1, <3>2
  <2>6. CASE Stream!NotifyTarget(Remote)
    <3>1. /\ UNCHANGED <<vq, dev, avail, used, guest, data, seen>>
          /\ snd' = [snd EXCEPT ![Remote].pc = "idle", ![Remote].owed = FALSE]
      BY <1>0, <2>6 DEF Stream!NotifyTarget
    <3>2. snd' \in [{Remote} -> SenderRecs]  BY <1>0, <3>1 DEF SenderRecs, Stream!SenderPcs
    <3>3. QED BY <1>0, <1>a, <3>1, <3>2
  <2>7. CASE Stream!NotifyLocal(Remote)
    <3>1. /\ UNCHANGED <<vq, avail, used, guest, data, seen>>
          /\ snd' = [snd EXCEPT ![Remote].pc = "idle", ![Remote].owed = FALSE]
      BY <1>0, <2>7 DEF Stream!NotifyLocal
    <3>2. dev' \in {dev, [dev EXCEPT !.irt = TRUE, !.irq = TRUE]}
      BY <1>0, <2>7 DEF Stream!NotifyLocal, Stream!Notified
    <3>3. snd' \in [{Remote} -> SenderRecs]  BY <1>0, <3>1 DEF SenderRecs, Stream!SenderPcs
    <3>4. QED BY <1>0, <1>a, <3>1, <3>2, <3>3
  <2>8. QED BY <2>1, <2>2, <2>3, <2>4, <2>5, <2>6, <2>7
<1>b. StreamTypes'  BY <1>a DEF StreamInv, StreamTypes, SenderRecs
<1>1. CASE Stream!Transmit(Remote)
  <2>2. /\ Holding' <=> Holding
        /\ Sender'.buf = Sender.buf /\ Sender'.pc = "check" /\ Sender'.k = Sender.k + 1
        /\ Sender'.todo >= 1 /\ Sender'.k + Sender'.todo - 1 <= MaxFrames
    BY <1>0, <1>1 DEF Stream!Transmit, Sender, Holding, SenderRecs
  <2>3. Sender.k \in Nat  BY <1>0 DEF Sender, SenderRecs
  <2>5. QED BY <1>a, <1>b, <2>2, <2>3, SenderMoves
<1>2. CASE Stream!CheckActivated(Remote)
  <2>2. /\ Sender.pc = "check" /\ Sender'.pc = "idx" /\ Sender'.buf = Sender.buf
        /\ Sender'.k = Sender.k /\ Sender'.todo = Sender.todo
    BY <1>0, <1>2 DEF Stream!CheckActivated, Sender, SenderRecs
  <2>3. Sender.k \in Nat  BY <1>0 DEF Sender, SenderRecs
  <2>5. QED BY <1>a, <1>b, <2>2, <2>3, SenderMoves DEF Holding, AtRest, StreamInv, SenderOK
<1>3. CASE Stream!AvailIdx(Remote)
  <2>2. /\ Sender.pc = "idx" /\ Sender'.pc = "pop" /\ Sender'.buf = Sender.buf
        /\ Sender'.k = Sender.k /\ Sender'.todo = Sender.todo /\ Sender'.av = avail.idx
    BY <1>0, <1>3 DEF Stream!AvailIdx, Sender, SenderRecs
  <2>3. Sender.k \in Nat  BY <1>0 DEF Sender, SenderRecs
  <2>5. QED BY <1>a, <1>b, <2>2, <2>3, SenderMoves DEF Holding, AtRest, StreamInv, SenderOK
<1>4. CASE Stream!Recheck(Remote)
  <2>2. /\ Sender.pc = "recheck" /\ Sender'.pc = "desc" /\ Sender'.buf = Sender.buf
        /\ Sender'.k = Sender.k /\ Sender'.todo = Sender.todo
    BY <1>0, <1>4 DEF Stream!Recheck, Sender, SenderRecs
  <2>3. Sender.k \in Nat  BY <1>0 DEF Sender, SenderRecs
  <2>5. QED BY <1>a, <1>b, <2>2, <2>3, SenderMoves DEF Holding, AtRest, StreamInv, SenderOK
<1>5. CASE Stream!ReadDesc(Remote)
  <2>2. /\ Sender.pc = "desc" /\ Sender'.pc \in {"write", "putback"} /\ Sender'.buf = Sender.buf
        /\ Sender'.k = Sender.k /\ Sender'.todo = Sender.todo
    BY <1>0, <1>5 DEF Stream!ReadDesc, Sender, SenderRecs
  <2>3. Sender.k \in Nat  BY <1>0 DEF Sender, SenderRecs
  <2>5. QED BY <1>a, <1>b, <2>2, <2>3, SenderMoves DEF Holding, AtRest, StreamInv, SenderOK
<1>6. CASE Stream!NotifyTarget(Remote)
  <2>2. /\ Sender.pc = "notify" /\ Sender'.pc \in {"idle", "flags"} /\ Sender'.buf = Sender.buf
        /\ Sender'.k = Sender.k
    BY <1>0, <1>6 DEF Stream!NotifyTarget, Sender, SenderRecs
  <2>3. Sender.k \in Nat  BY <1>0 DEF Sender, SenderRecs
  <2>5. QED BY <1>a, <1>b, <2>2, <2>3, SenderMoves DEF Holding, AtRest
<1>7. CASE Stream!NotifyLocal(Remote)
  <2>2. /\ Sender.pc = "flags" /\ Sender'.pc = "idle" /\ Sender'.buf = Sender.buf
        /\ Sender'.k = Sender.k
    BY <1>0, <1>7 DEF Stream!NotifyLocal, Sender, SenderRecs
  <2>3. Sender.k \in Nat  BY <1>0 DEF Sender, SenderRecs
  <2>5. QED BY <1>a, <1>b, <2>2, <2>3, SenderMoves DEF Holding, AtRest
<1>8. QED BY <1>1, <1>2, <1>3, <1>4, <1>5, <1>6, <1>7

\* The steps of the guest and of messages that touch no buffer.
LEMMA StepGuest ==
  ASSUME StreamInv,
         Stream!MsgStep \/ Stream!IsrStep \/ Stream!PollEnd
           \/ (Stream!Poll /\ ~Stream!Unseen)
  PROVE  StreamInv'
<1> USE NetAssumption
<1>0. /\ vq.up = TRUE /\ guest.phase = "up"
      /\ dev \in [activated : {TRUE}, irt : BOOLEAN, irq : BOOLEAN]
      /\ avail \in [ring : [Slots -> Slots], idx : Index, flags : {0, 1}]
      /\ guest \in [phase : {"up"}, free : SUBSET Slots, seen : Index,
                     isr : {"none", "ack", "sched"}, napi : {"off", "poll", "recheck"}]
  BY DEF StreamInv, StreamTypes
<1> DEFINE Guests == [phase : {"up"}, free : SUBSET Slots, seen : Index,
                      isr : {"none", "ack", "sched"}, napi : {"off", "poll", "recheck"}]
           Avails == [ring : [Slots -> Slots], idx : Index, flags : {0, 1}]
           OK == /\ dev' \in [activated : {TRUE}, irt : BOOLEAN, irq : BOOLEAN]
                 /\ avail' \in Avails /\ avail'.ring = avail.ring /\ avail'.idx = avail.idx
                 /\ guest' \in Guests /\ guest'.free = guest.free /\ guest'.seen = guest.seen
                 /\ UNCHANGED <<vq, used, data, snd, seen>>
<1>1. ASSUME Stream!MsgStep PROVE OK
  <2>1. dev' \in {dev, [dev EXCEPT !.irt = TRUE, !.irq = TRUE]} /\ UNCHANGED <<vq, avail, used, data, guest, snd, seen>>
    BY <1>0, <1>1 DEF Stream!MsgStep, Stream!TakeMsg, Stream!HandleMsg, Stream!Notified
  <2>3. QED BY <1>0, <2>1
<1>2. ASSUME Stream!Isr PROVE OK
  <2>1. /\ dev' = [dev EXCEPT !.irq = FALSE] /\ UNCHANGED <<vq, avail, used, data, snd, seen>>
        /\ \E i \in {"none", "ack"} : guest' = [guest EXCEPT !.isr = i]
    BY <1>2 DEF Stream!Isr
  <2>4. QED BY <1>0, <2>1
<1>3. ASSUME Stream!Ack PROVE OK
  <2>1. /\ dev' = [dev EXCEPT !.irt = FALSE] /\ UNCHANGED <<vq, avail, used, data, snd, seen>>
        /\ guest' = [guest EXCEPT !.isr = "sched"]
    BY <1>3 DEF Stream!Ack
  <2>4. QED BY <1>0, <2>1
<1>4. ASSUME Stream!Schedule PROVE OK
  BY <1>0, <1>4 DEF Stream!Schedule
<1>5. ASSUME Stream!PollEnd PROVE OK
  <2>1. /\ UNCHANGED <<dev, vq, used, data, snd, seen>>
        /\ \E n \in {"poll", "off"} : guest' = [guest EXCEPT !.napi = n]
        /\ \E f \in {0, 1} : avail' = [avail EXCEPT !.flags = f]
    BY <1>5 DEF Stream!PollEnd
  <2>4. QED BY <1>0, <2>1
<1>6. ASSUME Stream!Poll /\ ~Stream!Unseen PROVE OK
  <2>1. /\ UNCHANGED <<dev, vq, used, data, snd, seen>>
        /\ guest' = [guest EXCEPT !.napi = "recheck"]
        /\ avail' = [avail EXCEPT !.flags = 0]
    BY <1>6 DEF Stream!Poll
  <2>4. QED BY <1>0, <2>1
<1>7. OK  BY <1>1, <1>2, <1>3, <1>4, <1>5, <1>6 DEF Stream!IsrStep
<1>10. StreamTypes'  BY <1>7 DEF StreamInv, StreamTypes
<1>11. QED BY <1>7, <1>10, GuestMoves

\* What becomes of the sender's record when a frame is done.
LEMMA FrameDone ==
  ASSUME StreamInv, ~AtRest, NEW o \in BOOLEAN,
         snd' = [snd EXCEPT ![Remote] = Stream!AfterFrame(Remote, o)]
  PROVE  /\ snd' \in [{Remote} -> SenderRecs]
         /\ Sender'.buf = NoBuf /\ ~Holding'
         /\ Sender'.pc \in {"check", "notify", "idle"}
         /\ AtRest' => Sender'.k = Sender.k
         /\ ~AtRest' => /\ Sender'.k = Sender.k + 1 /\ Sender'.todo >= 1
                        /\ Sender'.k + Sender'.todo - 1 <= MaxFrames
<1> USE NetAssumption
<1>1. /\ snd \in [{Remote} -> SenderRecs] /\ MaxFrames \in Nat /\ 0 \in Index
      /\ Sender.todo >= 1 /\ Sender.k + Sender.todo - 1 <= MaxFrames
  BY DEF StreamInv, StreamTypes, SenderRecs, NetConstants, SenderOK, Index
<1>2. Sender \in SenderRecs /\ Sender.todo \in 1 .. 2 /\ Sender.k \in 0 .. MaxFrames
  BY <1>1 DEF Sender, SenderRecs
<1> DEFINE r == Stream!AfterFrame(Remote, o)
<1>3. /\ r.buf = NoBuf /\ r.av = 0 /\ r.owed = o /\ r.todo = Sender.todo - 1
      /\ r.pc = IF Sender.todo - 1 > 0 THEN "check" ELSE IF o THEN "notify" ELSE "idle"
      /\ r.k = IF Sender.todo - 1 > 0 THEN Sender.k + 1 ELSE Sender.k
  BY <1>1, <1>2 DEF Stream!AfterFrame, Sender, SenderRecs
<1>3a. r \in SenderRecs
  <2> DEFINE p == IF Sender.todo - 1 > 0 THEN "check" ELSE IF o THEN "notify" ELSE "idle"
             m == IF Sender.todo - 1 > 0 THEN Sender.k + 1 ELSE Sender.k
             t == Sender.todo - 1
  <2>1. p \in Stream!SenderPcs /\ m \in 0 .. MaxFrames /\ t \in 0 .. 2
    BY <1>1, <1>2 DEF Stream!SenderPcs
  <2>2. r = [Sender EXCEPT !.todo = t, !.owed = o, !.buf = NoBuf, !.av = 0, !.pc = p, !.k = m]
    BY <1>1, <1>2 DEF Stream!AfterFrame, Sender, SenderRecs
  <2> HIDE DEF p, m, t
  <2> DEFINE s1 == [Sender EXCEPT !.todo = t]
             s2 == [s1 EXCEPT !.owed = o]
             s3 == [s2 EXCEPT !.buf = NoBuf]
             s4 == [s3 EXCEPT !.av = 0]
             s5 == [s4 EXCEPT !.pc = p]
             s6 == [s5 EXCEPT !.k = m]
  <2>3. s1 \in SenderRecs  BY <1>2, <2>1 DEF SenderRecs
  <2> HIDE DEF s1
  <2>4. s2 \in SenderRecs  BY <2>3 DEF SenderRecs
  <2> HIDE DEF s2
  <2>5. s3 \in SenderRecs  BY <2>4 DEF SenderRecs
  <2> HIDE DEF s3
  <2>6. s4 \in SenderRecs  BY <1>1, <2>5 DEF SenderRecs
  <2> HIDE DEF s4
  <2>7. s5 \in SenderRecs  BY <2>1, <2>6 DEF SenderRecs
  <2> HIDE DEF s5
  <2>8. s6 \in SenderRecs  BY <2>1, <2>7 DEF SenderRecs
  <2>9. QED BY <2>2, <2>8 DEF s1, s2, s3, s4, s5
<1> HIDE DEF r
<1>4. snd' \in [{Remote} -> SenderRecs] /\ Sender' = r  BY <1>1, <1>3a DEF Sender, r
<1>5. ~AtRest' <=> Sender.todo - 1 > 0  BY <1>2, <1>3, <1>4 DEF AtRest
<1>6. ~Holding'  BY <1>3, <1>4 DEF Holding
<1>7. QED BY <1>1, <1>2, <1>3, <1>4, <1>5, <1>6

\* Facts about the rings that every step below starts from.
LEMMA Rings ==
  ASSUME StreamInv
  PROVE  /\ vq.last \in Index /\ avail.idx \in Index /\ guest.seen \in Index /\ used.idx \in Index
         /\ avail.ring \in [Slots -> Slots] /\ used.ring \in [Slots -> [id : Slots, frame : Stream!Frames]]
         /\ Ahead \in Nat /\ Behind \in Nat
         /\ \A d \in 0 .. Ahead - 1 : d \in Nat /\ Offered(d) \in Slots
         /\ \A d \in 0 .. Behind - 1 : d \in Nat /\ Filled(d) \in [id : Slots, frame : Stream!Frames]
         /\ snd \in [{Remote} -> SenderRecs] /\ Sender \in SenderRecs
         /\ Sender.k \in Nat /\ seen[Remote] \in Nat
<1> USE NetAssumption
<1>1. /\ Ahead \in Nat /\ Behind \in Nat
      /\ \A d \in Nat : Offered(d) \in Slots /\ Filled(d) \in [id : Slots, frame : Stream!Frames]
  BY WindowSizes DEF StreamInv
<1>2. /\ \A d \in 0 .. Ahead - 1 : d \in Nat /\ Offered(d) \in Slots
      /\ \A d \in 0 .. Behind - 1 : d \in Nat /\ Filled(d) \in [id : Slots, frame : Stream!Frames]
  BY <1>1
<1>3. /\ vq.last \in Index /\ avail.idx \in Index /\ guest.seen \in Index /\ used.idx \in Index
      /\ avail.ring \in [Slots -> Slots] /\ used.ring \in [Slots -> [id : Slots, frame : Stream!Frames]]
  BY DEF StreamInv, StreamTypes
<1>4. snd \in [{Remote} -> SenderRecs] /\ Sender \in SenderRecs
  BY DEF StreamInv, StreamTypes, Sender, SenderRecs
<1>5. Sender.k \in Nat /\ seen[Remote] \in Nat
  BY <1>4 DEF SenderRecs, StreamInv, StreamTypes, NetConstants
<1>6. QED BY <1>1, <1>2, <1>3, <1>4, <1>5

\* pop_avail_desc_idx: the first buffer published becomes the one the sender holds.
LEMMA StepPop ==
  ASSUME StreamInv, Stream!Pop(Remote)
  PROVE  StreamInv'
<1> USE NetAssumption
<1>0. /\ Sender.pc = "pop" /\ vq.up = TRUE /\ ~AtRest /\ ~Holding /\ Sender.owed \in BOOLEAN
      /\ UNCHANGED <<dev, avail, used, data, guest, seen>>
  BY DEF Stream!Pop, Sender, StreamInv, StreamTypes, AtRest, Holding
<1>1. CASE Sender.av = vq.last
  <2>1. snd' = [snd EXCEPT ![Remote] = Stream!AfterFrame(Remote, Sender.owed)] /\ vq' = vq
    BY <1>1 DEF Stream!Pop, Stream!MayPop, Stream!Drop, Sender
  <2>2. /\ snd' \in [{Remote} -> SenderRecs]
        /\ Sender'.buf = NoBuf /\ ~Holding'
        /\ Sender'.pc \in {"check", "notify", "idle"}
        /\ AtRest' => Sender'.k = Sender.k
        /\ ~AtRest' => /\ Sender'.k = Sender.k + 1 /\ Sender'.todo >= 1
                       /\ Sender'.k + Sender'.todo - 1 <= MaxFrames
    BY <1>0, <2>1, FrameDone
  <2>3. StreamTypes'  BY <1>0, <2>1, <2>2 DEF StreamInv, StreamTypes, SenderRecs
  <2>4. Sender.buf = NoBuf
    BY <1>0 DEF StreamInv, SenderOK, StreamTypes, Sender
  <2>5. Sender.k \in Nat  BY Rings
  <2>6. QED BY <1>0, <2>1, <2>2, <2>3, <2>4, <2>5, SenderMoves
<1>2. CASE Sender.av # vq.last
  <2> DEFINE R == Sender.pc
  <2>1. /\ snd' = [snd EXCEPT ![Remote].buf = avail.ring[vq.last % N], ![Remote].pc = "recheck"]
        /\ vq' = [vq EXCEPT !.last = Stream!Inc(vq.last)]
    BY <1>0, <1>2 DEF Stream!Pop, Stream!MayPop, Sender
  <2>2. Ahead > 0 /\ vq.last # avail.idx
    <3>1. Ahead > 0  BY <1>0, <1>2 DEF StreamInv, SenderOK
    <3>2. vq.last \in Index /\ avail.idx \in Index  BY Rings
    <3>3. QED BY <3>1, <3>2, RingSteps DEF Ahead
  <2>3. vq.last \in Index /\ avail.idx \in Index  BY Rings
  <2>4. /\ Stream!Inc(vq.last) \in Index /\ Ahead' = Ahead - 1
        /\ \A d \in Nat : Win(avail.ring, Stream!Inc(vq.last), d) = Win(avail.ring, vq.last, d + 1)
        /\ Offered(0) = avail.ring[vq.last % N]
        /\ Stream!Dec(Stream!Inc(vq.last)) = vq.last
        /\ vq'.last = Stream!Inc(vq.last)
    <3>1. vq'.last = Stream!Inc(vq.last)  BY <2>1 DEF StreamInv, StreamTypes
    <3>2. /\ Stream!Inc(vq.last) \in Index /\ Stream!Dec(Stream!Inc(vq.last)) = vq.last
          /\ Stream!Distance(Stream!Inc(vq.last), avail.idx) = Stream!Distance(vq.last, avail.idx) - 1
          /\ \A d \in Nat : Win(avail.ring, Stream!Inc(vq.last), d) = Win(avail.ring, vq.last, d + 1)
          /\ Win(avail.ring, vq.last, 0) = avail.ring[vq.last % N]
      BY <2>2, <2>3, WindowShrinks
    <3>3. Ahead' = Ahead - 1  BY <1>0, <3>1, <3>2 DEF Ahead
    <3>4. QED BY <3>1, <3>2, <3>3 DEF Offered
  <2>5. /\ \A d \in Nat : Offered(d)' = Offered(d + 1)
        /\ Behind' = Behind /\ \A d \in Nat : Filled(d)' = Filled(d)
    BY <1>0, <2>4 DEF Offered, Filled, Behind
  <2>6. Offered(0) \in Slots /\ Ahead \in Nat /\ Behind \in Nat  BY <2>2, Rings
  <2>7. Sender \in SenderRecs /\ snd \in [{Remote} -> SenderRecs]  BY Rings
  <2>8. /\ Sender'.pc = "recheck" /\ Sender'.buf = Offered(0) /\ Sender'.k = Sender.k
        /\ Sender'.todo = Sender.todo /\ snd' \in [{Remote} -> SenderRecs]
    <3>1. Sender'.pc = "recheck" /\ Sender'.buf = Offered(0) /\ Sender'.k = Sender.k
          /\ Sender'.todo = Sender.todo
      BY <2>1, <2>4, <2>6, <2>7 DEF Sender, SenderRecs
    <3>2. snd' \in [{Remote} -> SenderRecs]
      BY <2>1, <2>4, <2>6, <2>7 DEF Sender, SenderRecs, Stream!SenderPcs
    <3>3. QED BY <3>1, <3>2
  <2>9. StreamTypes'
    BY <1>0, <2>1, <2>4, <2>8 DEF StreamInv, StreamTypes, SenderRecs
  <2>10. Holding' /\ ~AtRest'  BY <2>8 DEF Holding, AtRest
  <2>11. SenderOK'
    BY <1>0, <2>4, <2>6, <2>8, <2>10 DEF StreamInv, SenderOK
  <2>12. FramesOK'
    <3>1. \A e \in 0 .. Behind - 1 : e \in Nat  BY <2>6
    <3>2. QED BY <1>0, <2>5, <2>8, <2>10, <3>1 DEF StreamInv, FramesOK
  <2>13. Partition'
    <3>1. \A e \in 0 .. Behind - 1 : e \in Nat /\ Filled(e)' = Filled(e)  BY <2>5, <2>6
    <3>2. \A d \in 0 .. Ahead' - 1 : d \in Nat /\ d + 1 \in 0 .. Ahead - 1 /\ d + 1 # 0 /\ Offered(d)' = Offered(d + 1)
      BY <2>4, <2>5, <2>6
    <3>3. 0 \in 0 .. Ahead - 1  BY <2>2, <2>6
    <3>4. Sender.buf \notin Slots  BY <1>0 DEF StreamInv, SenderOK
    <3>5. \A d, e \in 0 .. Ahead' - 1 : Offered(d)' = Offered(e)' => d = e
      BY <3>2 DEF StreamInv, Partition
    <3>6. \A d \in 0 .. Ahead' - 1 : Offered(d)' \notin guest.free /\ Offered(d)' # Offered(0)
      BY <3>2, <3>3 DEF StreamInv, Partition
    <3>7. Offered(0) \notin guest.free /\ \A e \in 0 .. Behind - 1 : Filled(e).id # Offered(0)
      BY <3>3 DEF StreamInv, Partition
    <3>8. \A d \in 0 .. Ahead' - 1, e \in 0 .. Behind - 1 : Offered(d)' # Filled(e).id
      BY <3>2 DEF StreamInv, Partition
    <3>9. ASSUME NEW b \in Slots, \E d \in 0 .. Ahead - 1 : Offered(d) = b, b # Offered(0)
          PROVE  \E d \in 0 .. Ahead' - 1 : Offered(d)' = b
      <4>1. PICK d \in 0 .. Ahead - 1 : Offered(d) = b  BY <3>9
      <4>2. d - 1 \in 0 .. Ahead' - 1 /\ (d - 1) + 1 = d  BY <2>4, <2>6, <3>9, <4>1
      <4>3. QED BY <3>2, <4>1, <4>2
    <3>10. QED
      BY <1>0, <2>5, <2>8, <3>1, <3>4, <3>5, <3>6, <3>7, <3>8, <3>9 DEF StreamInv, Partition
  <2>14. QED BY <2>9, <2>11, <2>12, <2>13 DEF StreamInv
<1>3. QED BY <1>1, <1>2

\* put_back_avail_desc_idx: the buffer popped is published again, in its old slot.
LEMMA StepPutBack ==
  ASSUME StreamInv, Stream!PutBack(Remote)
  PROVE  StreamInv'
<1> USE NetAssumption
<1>0. /\ Sender.pc = "putback" /\ vq.up = TRUE /\ ~AtRest /\ Holding /\ Sender.owed \in BOOLEAN
      /\ UNCHANGED <<dev, avail, used, data, guest, seen>>
      /\ vq' = [vq EXCEPT !.last = Stream!Dec(vq.last)]
      /\ snd' = [snd EXCEPT ![Remote] = Stream!AfterFrame(Remote, Sender.owed)]
  BY DEF Stream!PutBack, Stream!Drop, Sender, StreamInv, StreamTypes, AtRest, Holding
<1>1. /\ snd' \in [{Remote} -> SenderRecs]
      /\ Sender'.buf = NoBuf /\ ~Holding'
      /\ Sender'.pc \in {"check", "notify", "idle"}
      /\ AtRest' => Sender'.k = Sender.k
      /\ ~AtRest' => /\ Sender'.k = Sender.k + 1 /\ Sender'.todo >= 1
                     /\ Sender'.k + Sender'.todo - 1 <= MaxFrames
  BY <1>0, FrameDone
<1>2. vq.last \in Index /\ avail.idx \in Index /\ Ahead \in Nat /\ Behind \in Nat
      /\ \A d \in 0 .. Ahead - 1 : Offered(d) \in Slots
  BY Rings
<1>3. Sender.buf \in Slots /\ NoBuf \notin Slots
  BY <1>0
     DEF StreamInv, SenderOK, NetConstants, Slots
<1>4. Ahead < N
  <2> DEFINE f == [d \in 0 .. Ahead - 1 |-> Offered(d)]
  <2>1. f \in [0 .. Ahead - 1 -> Slots]  BY <1>2
  <2>2. \A d, e \in 0 .. Ahead - 1 : f[d] = f[e] => d = e  BY DEF StreamInv, Partition
  <2>3. \A d \in 0 .. Ahead - 1 : f[d] # Sender.buf  BY DEF StreamInv, Partition
  <2> HIDE DEF f
  <2>4. QED BY <1>2, <1>3, <2>1, <2>2, <2>3, Pigeons
<1>5. /\ Stream!Dec(vq.last) \in Index
      /\ Stream!Distance(Stream!Dec(vq.last), avail.idx) = Stream!Distance(vq.last, avail.idx) + 1
      /\ \A d \in Nat : Win(avail.ring, Stream!Dec(vq.last), d + 1) = Win(avail.ring, vq.last, d)
      /\ Win(avail.ring, Stream!Dec(vq.last), 0) = avail.ring[Stream!Dec(vq.last) % N]
  BY <1>2, <1>4, WindowBack DEF Ahead
<1>6. vq'.last = Stream!Dec(vq.last)  BY <1>0 DEF StreamInv, StreamTypes
<1>7. /\ Ahead' = Ahead + 1 /\ \A d \in Nat : Offered(d + 1)' = Offered(d)
      /\ Offered(0)' = Sender.buf
  <2>1. Ahead' = Ahead + 1  BY <1>0, <1>5, <1>6 DEF Ahead
  <2>2. \A d \in Nat : Offered(d + 1)' = Offered(d)  BY <1>0, <1>5, <1>6 DEF Offered
  <2>3. Offered(0)' = avail.ring[Stream!Dec(vq.last) % N]  BY <1>0, <1>5, <1>6 DEF Offered
  <2>4. QED BY <1>0, <2>1, <2>2, <2>3 DEF StreamInv, SenderOK
<1>8. Behind' = Behind /\ \A d \in Nat : Filled(d)' = Filled(d)
  BY <1>0 DEF Behind, Filled
<1>9. StreamTypes'
  BY <1>0, <1>1, <1>5 DEF StreamInv, StreamTypes, SenderRecs
<1>10. SenderOK'
  BY <1>1, <1>3 DEF SenderOK, Holding
<1>11. \A e \in 0 .. Behind - 1 : e \in Nat /\ Filled(e)' = Filled(e)  BY <1>2, <1>8
<1>12. FramesOK'
  <2>1. Sender.k \in Nat /\ seen[Remote] \in Nat  BY Rings
  <2>2. \A e \in 0 .. Behind - 1 : Filled(e).frame.k \in Nat
    BY Rings DEF Stream!Frames, NetConstants
  <2>3. QED BY <1>0, <1>1, <1>8, <1>11, <2>1, <2>2 DEF StreamInv, FramesOK
<1>13. Partition'
  <2>1. \A d \in 0 .. Ahead' - 1 : d # 0 => d - 1 \in 0 .. Ahead - 1 /\ Offered(d)' = Offered(d - 1)
    <3>1. SUFFICES ASSUME NEW d \in 0 .. Ahead' - 1, d # 0
                   PROVE  d - 1 \in 0 .. Ahead - 1 /\ Offered(d)' = Offered(d - 1)
      OBVIOUS
    <3>2. d - 1 \in 0 .. Ahead - 1 /\ d - 1 \in Nat /\ (d - 1) + 1 = d  BY <1>2, <1>7, <3>1
    <3>3. QED BY <1>7, <3>2
  <2>2. \A d \in 0 .. Ahead - 1 : Offered(d) # Sender.buf  BY DEF StreamInv, Partition
  <2>3. \A d, e \in 0 .. Ahead' - 1 : Offered(d)' = Offered(e)' => d = e
    <3>1. SUFFICES ASSUME NEW d \in 0 .. Ahead' - 1, NEW e \in 0 .. Ahead' - 1, Offered(d)' = Offered(e)'
                   PROVE  d = e
      OBVIOUS
    <3>2. d \in Int /\ e \in Int  OBVIOUS
    <3>3. CASE d = 0  BY <1>7, <2>1, <2>2, <3>1, <3>3
    <3>4. CASE e = 0  BY <1>7, <2>1, <2>2, <3>1, <3>4
    <3>5. CASE d # 0 /\ e # 0
      <4>1. d - 1 = e - 1  BY <2>1, <3>1, <3>5 DEF StreamInv, Partition
      <4>2. QED BY <3>2, <4>1
    <3>6. QED BY <3>3, <3>4, <3>5
  <2>4. \A d \in 0 .. Ahead' - 1 : Offered(d)' \notin guest.free /\ Offered(d)' # NoBuf
    BY <1>2, <1>3, <1>7, <2>1 DEF StreamInv, Partition
  <2>5. \A d \in 0 .. Ahead' - 1, e \in 0 .. Behind - 1 : Offered(d)' # Filled(e).id
    BY <1>7, <2>1 DEF StreamInv, Partition
  <2>6. \A e \in 0 .. Behind - 1 : Filled(e).id \in Slots  BY Rings
  <2>7. guest.free \in SUBSET Slots  BY DEF StreamInv, StreamTypes
  <2>8. ASSUME NEW b \in Slots, b = Sender.buf \/ \E d \in 0 .. Ahead - 1 : Offered(d) = b
        PROVE  \E d \in 0 .. Ahead' - 1 : Offered(d)' = b
    <3>1. CASE b = Sender.buf
      <4>1. 0 \in 0 .. Ahead' - 1  BY <1>2, <1>7
      <4>2. QED BY <1>7, <3>1, <4>1
    <3>2. CASE \E d \in 0 .. Ahead - 1 : Offered(d) = b
      <4>1. PICK d \in 0 .. Ahead - 1 : Offered(d) = b  BY <3>2
      <4>2. d + 1 \in 0 .. Ahead' - 1 /\ d \in Nat  BY <1>2, <1>7
      <4>3. QED BY <1>7, <4>1, <4>2
    <3>3. QED BY <2>8, <3>1, <3>2
  <2>9. QED
    BY <1>0, <1>1, <1>3, <1>8, <1>11, <2>3, <2>4, <2>5, <2>6, <2>7, <2>8 DEF StreamInv, Partition
<1>14. QED BY <1>9, <1>10, <1>12, <1>13 DEF StreamInv

\* write_through_iov: the frame is copied into the buffer the sender holds.
LEMMA StepWrite ==
  ASSUME StreamInv, Stream!WriteFrame(Remote)
  PROVE  StreamInv'
<1> USE NetAssumption
<1>0. /\ Sender.pc = "write" /\ ~AtRest /\ Holding
      /\ UNCHANGED <<vq, dev, avail, used, guest, seen>>
      /\ data' = [data EXCEPT ![Sender.buf] = [from |-> Remote, k |-> Sender.k]]
      /\ snd' = [snd EXCEPT ![Remote].pc = "used"]
  BY DEF Stream!WriteFrame, Stream!Goto, Sender, AtRest, Holding
<1>1. Sender.buf \in Slots  BY <1>0 DEF StreamInv, SenderOK
<1>2. snd \in [{Remote} -> SenderRecs] /\ Sender \in SenderRecs /\ Ahead \in Nat /\ Behind \in Nat
  BY Rings
<1>3. /\ snd' \in [{Remote} -> SenderRecs] /\ Sender'.pc = "used"
      /\ Sender'.k = Sender.k /\ Sender'.buf = Sender.buf /\ Sender'.todo = Sender.todo
  <2>1. snd' \in [{Remote} -> SenderRecs]  BY <1>0, <1>2 DEF SenderRecs, Stream!SenderPcs
  <2>2. QED BY <1>0, <1>2, <2>1 DEF SenderRecs, Sender
<1>4. [from |-> Remote, k |-> Sender.k] \in Stream!Frames
  BY <1>2 DEF Stream!Frames, SenderRecs
<1>5. data' \in [Slots -> Stream!Frames]
  BY <1>0, <1>4 DEF StreamInv, StreamTypes
<1>6. StreamTypes'  BY <1>0, <1>3, <1>5 DEF StreamInv, StreamTypes, SenderRecs
<1>7. /\ Ahead' = Ahead /\ Behind' = Behind
      /\ \A d \in Nat : Offered(d)' = Offered(d) /\ Filled(d)' = Filled(d)
  BY <1>0, SameWindows
<1>8. /\ \A d \in 0 .. Ahead - 1 : d \in Nat /\ Offered(d)' = Offered(d)
      /\ \A d \in 0 .. Behind - 1 : d \in Nat /\ Filled(d)' = Filled(d)
  BY <1>2, <1>7
<1>9. ~AtRest' /\ Holding'  BY <1>3 DEF AtRest, Holding
<1>10. SenderOK'  BY <1>0, <1>3, <1>9 DEF StreamInv, SenderOK
<1>11. Partition'  BY <1>0, <1>3, <1>7, <1>8 DEF StreamInv, Partition
<1>12. FramesOK'
  <2>1. data'[Sender.buf] = [from |-> Remote, k |-> Sender.k]
    BY <1>0, <1>1 DEF StreamInv, StreamTypes
  <2>2. \A e \in 0 .. Behind - 1 : data'[Filled(e).id] = data[Filled(e).id]
    <3>1. \A e \in 0 .. Behind - 1 : Filled(e).id \in Slots /\ Filled(e).id # Sender.buf
      BY Rings DEF StreamInv, Partition
    <3>2. QED BY <1>0, <3>1 DEF StreamInv, StreamTypes
  <2>3. QED BY <1>0, <1>3, <1>7, <1>8, <1>9, <2>1, <2>2 DEF StreamInv, FramesOK
<1>13. QED BY <1>6, <1>10, <1>11, <1>12 DEF StreamInv

\* update_used_ring: the buffer the sender holds is reported, behind all others.
LEMMA StepUsed ==
  ASSUME StreamInv, Stream!UpdateUsedRing(Remote)
  PROVE  StreamInv'
<1> USE NetAssumption
<1> DEFINE rec == [id |-> Sender.buf, frame |-> [from |-> Remote, k |-> Sender.k]]
           ring == [used.ring EXCEPT ![used.idx % N] = rec]
<1>0. /\ Sender.pc = "used" /\ vq.up = TRUE /\ ~AtRest /\ Holding
      /\ UNCHANGED <<vq, dev, avail, data, guest, seen>>
      /\ used' = [ring |-> ring, idx |-> Stream!Inc(used.idx)]
      /\ snd' = [snd EXCEPT ![Remote] = Stream!AfterFrame(Remote, TRUE)]
  BY DEF Stream!UpdateUsedRing, Sender, StreamInv, StreamTypes, AtRest, Holding
<1>1. /\ snd' \in [{Remote} -> SenderRecs]
      /\ Sender'.buf = NoBuf /\ ~Holding'
      /\ Sender'.pc \in {"check", "notify", "idle"}
      /\ AtRest' => Sender'.k = Sender.k
      /\ ~AtRest' => /\ Sender'.k = Sender.k + 1 /\ Sender'.todo >= 1
                     /\ Sender'.k + Sender'.todo - 1 <= MaxFrames
  BY <1>0, FrameDone
<1>2. /\ guest.seen \in Index /\ used.idx \in Index /\ Ahead \in Nat /\ Behind \in Nat
      /\ used.ring \in [Slots -> [id : Slots, frame : Stream!Frames]]
      /\ \A d \in 0 .. Behind - 1 : Filled(d) \in [id : Slots, frame : Stream!Frames]
      /\ \A d \in 0 .. Ahead - 1 : Offered(d) \in Slots
      /\ Sender \in SenderRecs /\ Sender.k \in Nat /\ seen[Remote] \in Nat
  BY Rings
<1>3. Sender.buf \in Slots /\ NoBuf \notin Slots
  BY <1>0
     DEF StreamInv, SenderOK, NetConstants, Slots
<1>4. rec \in [id : Slots, frame : Stream!Frames]
  BY <1>2, <1>3 DEF Stream!Frames, SenderRecs
<1>5. Behind < N
  <2> DEFINE f == [d \in 0 .. Behind - 1 |-> Filled(d).id]
  <2>1. f \in [0 .. Behind - 1 -> Slots]  BY <1>2
  <2>2. \A d, e \in 0 .. Behind - 1 : f[d] = f[e] => d = e  BY DEF StreamInv, Partition
  <2>3. \A d \in 0 .. Behind - 1 : f[d] # Sender.buf  BY DEF StreamInv, Partition
  <2> HIDE DEF f
  <2>4. QED BY <1>2, <1>3, <2>1, <2>2, <2>3, Pigeons
<1> HIDE DEF rec
<1>p. PICK n \in Nat : n = Behind  BY <1>2
<1>6. /\ Stream!Inc(used.idx) \in Index
      /\ Stream!Distance(guest.seen, Stream!Inc(used.idx)) = Stream!Distance(guest.seen, used.idx) + 1
      /\ ring \in [Slots -> [id : Slots, frame : Stream!Frames]]
      /\ Win(ring, guest.seen, Stream!Distance(guest.seen, used.idx)) = rec
      /\ \A d \in 0 .. Stream!Distance(guest.seen, used.idx) - 1 : Win(ring, guest.seen, d) = Win(used.ring, guest.seen, d)
  <2> DEFINE S == [id : Slots, frame : Stream!Frames]
  <2>1. ring = Put(used.ring, used.idx, rec)  BY DEF Put
  <2>2. used.ring \in [Slots -> S] /\ rec \in S  BY <1>2, <1>4
  <2>3. Stream!Distance(guest.seen, used.idx) < N  BY <1>5 DEF Behind
  <2> HIDE DEF ring, S
  <2>i. guest.seen \in Index /\ used.idx \in Index  BY <1>2
  <2>4. /\ Stream!Inc(used.idx) \in Index
        /\ Stream!Distance(guest.seen, Stream!Inc(used.idx)) = Stream!Distance(guest.seen, used.idx) + 1
        /\ ring \in [Slots -> S]
        /\ Win(ring, guest.seen, Stream!Distance(guest.seen, used.idx)) = rec
        /\ \A d \in 0 .. Stream!Distance(guest.seen, used.idx) - 1 : Win(ring, guest.seen, d) = Win(used.ring, guest.seen, d)
    <3>1. Grown(S, used.ring, guest.seen, used.idx, rec, Put(used.ring, used.idx, rec))
      BY <2>i, <2>2, <2>3, WindowGrows
    <3>2. QED BY <2>1, <3>1 DEF Grown
  <2>5. QED BY <2>4 DEF S
<1> HIDE DEF ring
<1>7. /\ Behind' = Behind + 1 /\ Filled(n)' = rec
      /\ \A d \in 0 .. Behind - 1 : Filled(d)' = Filled(d)
  BY <1>0, <1>6, <1>p DEF Behind, Filled
<1>8. Ahead' = Ahead /\ \A d \in Nat : Offered(d)' = Offered(d)
  BY <1>0 DEF Ahead, Offered
<1>9. StreamTypes'
  BY <1>0, <1>1, <1>6 DEF StreamInv, StreamTypes, SenderRecs
<1>10. SenderOK'  BY <1>1, <1>3 DEF SenderOK, Holding
<1>11. /\ \A d \in 0 .. Ahead - 1 : Offered(d)' = Offered(d)
       /\ \A d \in 0 .. Behind' - 1 : d = n \/ (d \in 0 .. Behind - 1 /\ Filled(d)' = Filled(d))
       /\ rec.id = Sender.buf /\ rec.frame = [from |-> Remote, k |-> Sender.k] /\ rec.frame.k = Sender.k
  BY <1>2, <1>7, <1>8, <1>p DEF rec
<1>12. /\ \A d \in 0 .. Behind - 1 : d \in 0 .. Behind' - 1 /\ d < Behind
       /\ n \in 0 .. Behind' - 1
  BY <1>2, <1>7, <1>p
<1>13. FramesOK'
  <2>1. \A e \in 0 .. Behind - 1 : Filled(e).frame.k \in Nat
    BY <1>2 DEF Stream!Frames, NetConstants
  <2>2. \A e \in 0 .. Behind' - 1 :
          /\ data[Filled(e)'.id] = Filled(e)'.frame
          /\ seen[Remote] < Filled(e)'.frame.k
          /\ Filled(e)'.frame.k <= Sender.k
    BY <1>0, <1>2, <1>7, <1>11, <2>1 DEF StreamInv, FramesOK
  <2>3. \A d, e \in 0 .. Behind' - 1 : d < e => Filled(d)'.frame.k < Filled(e)'.frame.k
    <3>1. SUFFICES ASSUME NEW d \in 0 .. Behind' - 1, NEW e \in 0 .. Behind' - 1, d < e
                   PROVE  Filled(d)'.frame.k < Filled(e)'.frame.k
      OBVIOUS
    <3>2. d \in 0 .. Behind - 1 /\ Filled(d)' = Filled(d)  BY <1>2, <1>7, <1>11, <1>p, <3>1
    <3>3. CASE e = n  BY <1>0, <1>7, <1>11, <3>2, <3>3 DEF StreamInv, FramesOK
    <3>4. CASE e # n  BY <1>11, <3>1, <3>2, <3>4 DEF StreamInv, FramesOK
    <3>5. QED BY <3>3, <3>4
  <2>4. seen[Remote] < Sender.k  BY <1>0 DEF StreamInv, FramesOK
  <2>5. \A e \in 0 .. Behind' - 1 : Filled(e)'.frame.k \in Nat
    BY <1>2, <1>7, <1>11, <2>1
  <2>6. CASE AtRest'
    BY <1>0, <1>1, <1>2, <2>2, <2>3, <2>4, <2>6 DEF FramesOK
  <2>7. CASE ~AtRest'
    BY <1>0, <1>1, <1>2, <2>2, <2>3, <2>4, <2>5, <2>7 DEF FramesOK
  <2>8. QED BY <2>6, <2>7
<1>14. Partition'
  <2>1. \A d, e \in 0 .. Behind' - 1 : Filled(d)'.id = Filled(e)'.id => d = e
    BY <1>7, <1>11 DEF StreamInv, Partition
  <2>2. \A e \in 0 .. Behind' - 1 : Filled(e)'.id \notin guest.free /\ Filled(e)'.id # NoBuf
    BY <1>2, <1>3, <1>7, <1>11 DEF StreamInv, Partition
  <2>3. \A d \in 0 .. Ahead - 1, e \in 0 .. Behind' - 1 : Offered(d) # Filled(e)'.id
    BY <1>7, <1>11 DEF StreamInv, Partition
  <2>4. \A d \in 0 .. Ahead - 1 : Offered(d) # NoBuf  BY <1>2, <1>3
  <2>5. guest.free \in SUBSET Slots  BY DEF StreamInv, StreamTypes
  <2>6. ASSUME NEW b \in Slots, b = Sender.buf \/ \E e \in 0 .. Behind - 1 : Filled(e).id = b
        PROVE  \E e \in 0 .. Behind' - 1 : Filled(e)'.id = b
    BY <1>7, <1>11, <1>12, <2>6
  <2>7. QED
    BY <1>0, <1>1, <1>3, <1>8, <1>11, <2>1, <2>2, <2>3, <2>4, <2>5, <2>6 DEF StreamInv, Partition
<1>15. QED BY <1>9, <1>10, <1>13, <1>14 DEF StreamInv

\* The guest publishes a free buffer, behind all others.
LEMMA StepPublish ==
  ASSUME StreamInv, NEW b \in Slots, Stream!Publish(b)
  PROVE  StreamInv'
<1> USE NetAssumption
<1> DEFINE ring == Put(avail.ring, avail.idx, b)
<1>0. /\ b \in guest.free /\ UNCHANGED <<vq, used, data, snd, seen>>
      /\ avail'.ring = ring /\ avail'.idx = Stream!Inc(avail.idx) /\ avail'.flags = avail.flags
      /\ avail' = [avail EXCEPT !.ring = ring, !.idx = Stream!Inc(avail.idx)]
      /\ guest' = [guest EXCEPT !.free = guest.free \ {b}]
      /\ dev' = [dev EXCEPT !.irt = TRUE]
  <2>1. /\ b \in guest.free /\ UNCHANGED <<vq, used, data, snd, seen>>
        /\ avail' = [avail EXCEPT !.ring = ring, !.idx = Stream!Inc(avail.idx)]
        /\ guest' = [guest EXCEPT !.free = guest.free \ {b}]
        /\ dev' = [dev EXCEPT !.irt = TRUE]
    BY DEF Stream!Publish, Put, StreamInv, StreamTypes
  <2>2. avail \in [ring : [Slots -> Slots], idx : Index, flags : {0, 1}]
    BY
       DEF StreamInv, StreamTypes
  <2> HIDE DEF ring
  <2>3. avail'.ring = ring /\ avail'.idx = Stream!Inc(avail.idx) /\ avail'.flags = avail.flags
    BY <2>1, <2>2
  <2>4. QED BY <2>1, <2>3
<1>1. /\ vq.last \in Index /\ avail.idx \in Index /\ Ahead \in Nat /\ Behind \in Nat
      /\ avail.ring \in [Slots -> Slots]
      /\ \A d \in 0 .. Ahead - 1 : Offered(d) \in Slots
      /\ \A d \in 0 .. Behind - 1 : d \in Nat /\ Filled(d) \in [id : Slots, frame : Stream!Frames]
  BY Rings
<1>2. Sender.buf # b /\ guest.free \in SUBSET Slots
  BY <1>0 DEF StreamInv, Partition, StreamTypes
<1>3. Ahead < N
  <2> DEFINE f == [d \in 0 .. Ahead - 1 |-> Offered(d)]
  <2>1. f \in [0 .. Ahead - 1 -> Slots]  BY <1>1
  <2>2. \A d, e \in 0 .. Ahead - 1 : f[d] = f[e] => d = e  BY DEF StreamInv, Partition
  <2>3. \A d \in 0 .. Ahead - 1 : f[d] # b  BY <1>0 DEF StreamInv, Partition
  <2> HIDE DEF f
  <2>4. QED BY <1>1, <2>1, <2>2, <2>3, Pigeons
<1> HIDE DEF ring
<1>4. /\ Stream!Inc(avail.idx) \in Index
      /\ Stream!Distance(vq.last, Stream!Inc(avail.idx)) = Stream!Distance(vq.last, avail.idx) + 1
      /\ ring \in [Slots -> Slots]
      /\ Win(ring, vq.last, Stream!Distance(vq.last, avail.idx)) = b
      /\ \A d \in 0 .. Stream!Distance(vq.last, avail.idx) - 1 : Win(ring, vq.last, d) = Win(avail.ring, vq.last, d)
  <2>1. Stream!Distance(vq.last, avail.idx) < N /\ ring = Put(avail.ring, avail.idx, b)
    BY <1>3 DEF Ahead, ring
  <2>2. Grown(Slots, avail.ring, vq.last, avail.idx, b, Put(avail.ring, avail.idx, b))
    BY <1>1, <2>1, WindowGrows
  <2>3. QED BY <2>1, <2>2 DEF Grown
<1>p. PICK n \in Nat : n = Ahead  BY <1>1
<1>5. guest'.free = guest.free \ {b} /\ guest'.seen = guest.seen
  BY <1>0 DEF StreamInv, StreamTypes
<1>6. /\ Ahead' = Ahead + 1 /\ Offered(n)' = b
      /\ \A d \in 0 .. Ahead - 1 : Offered(d)' = Offered(d)
  BY <1>0, <1>4, <1>p DEF Ahead, Offered
<1>7. /\ Behind' = Behind /\ \A d \in Nat : Filled(d)' = Filled(d)
  BY <1>0, <1>5 DEF Behind, Filled
<1>8. StreamTypes'
  BY <1>0, <1>4, <1>5 DEF StreamInv, StreamTypes
<1>9. Sender' = Sender /\ (Holding' <=> Holding) /\ (AtRest' <=> AtRest)
  BY <1>0 DEF Sender, Holding, AtRest
<1>10. SenderOK'
  <2>1. ASSUME Sender.pc \in {"recheck", "desc", "putback"}
        PROVE  ring[Stream!Dec(vq.last) % N] = Sender.buf
    <3>0. Sender.buf \in Slots /\ avail.ring[Stream!Dec(vq.last) % N] = Sender.buf
      BY <2>1 DEF StreamInv, SenderOK, Holding
    <3>1. Ahead + 1 < N
      <4> DEFINE f == [d \in 0 .. (Ahead + 1) - 1 |-> IF d = 0 THEN Sender.buf ELSE Offered(d - 1)]
      <4>0. \A d \in 0 .. (Ahead + 1) - 1 : d # 0 => d - 1 \in 0 .. Ahead - 1  BY <1>1
      <4>1. f \in [0 .. (Ahead + 1) - 1 -> Slots]  BY <1>1, <3>0, <4>0
      <4>2. \A d, e \in 0 .. (Ahead + 1) - 1 : f[d] = f[e] => d = e
        <5>1. SUFFICES ASSUME NEW d \in 0 .. (Ahead + 1) - 1, NEW e \in 0 .. (Ahead + 1) - 1, f[d] = f[e]
                       PROVE  d = e
          OBVIOUS
        <5>2. CASE d = 0  BY <4>0, <5>1, <5>2 DEF StreamInv, Partition
        <5>3. CASE e = 0  BY <4>0, <5>1, <5>3 DEF StreamInv, Partition
        <5>4. CASE d # 0 /\ e # 0
          <6>1. d - 1 = e - 1  BY <4>0, <5>1, <5>4 DEF StreamInv, Partition
          <6>2. d \in Int /\ e \in Int  BY <1>1
          <6>3. QED BY <6>1, <6>2
        <5>5. QED BY <5>2, <5>3, <5>4
      <4>3. \A d \in 0 .. (Ahead + 1) - 1 : f[d] # b  BY <1>0, <1>2, <4>0 DEF StreamInv, Partition
      <4> HIDE DEF f
      <4>4. Ahead + 1 \in Nat  BY <1>1
      <4>5. QED BY <4>1, <4>2, <4>3, <4>4, Pigeons
    <3>2. /\ Stream!Dec(vq.last) \in Index
          /\ Stream!Distance(Stream!Dec(vq.last), avail.idx) = Ahead + 1
          /\ \A r : Win(r, Stream!Dec(vq.last), 0) = r[Stream!Dec(vq.last) % N]
      BY <1>1, <1>3, WindowBack DEF Ahead
    <3>3. \A d \in 0 .. (Ahead + 1) - 1 : Win(ring, Stream!Dec(vq.last), d) = Win(avail.ring, Stream!Dec(vq.last), d)
      <4>1. Stream!Distance(Stream!Dec(vq.last), avail.idx) < N /\ ring = Put(avail.ring, avail.idx, b)
        BY <3>1, <3>2 DEF ring
      <4>2. \A d \in 0 .. Stream!Distance(Stream!Dec(vq.last), avail.idx) - 1 :
               Win(ring, Stream!Dec(vq.last), d) = Win(avail.ring, Stream!Dec(vq.last), d)
        <5>1. Stream!Dec(vq.last) \in Index /\ avail.idx \in Index /\ avail.ring \in [Slots -> Slots]  BY <1>1, <3>2
        <5>2. Grown(Slots, avail.ring, Stream!Dec(vq.last), avail.idx, b, Put(avail.ring, avail.idx, b))
          BY <4>1, <5>1, WindowGrows
        <5>3. QED BY <4>1, <5>2 DEF Grown
      <4>3. QED BY <3>2, <4>2
    <3>4. 0 \in 0 .. (Ahead + 1) - 1  BY <1>1
    <3>5. QED BY <3>0, <3>2, <3>3, <3>4
  <2>2. QED BY <1>0, <1>1, <1>6, <1>9, <2>1 DEF StreamInv, SenderOK
<1>11. FramesOK'  BY <1>0, <1>1, <1>7, <1>9 DEF StreamInv, FramesOK
<1>12. /\ \A d \in 0 .. Ahead' - 1 : d = n \/ (d \in 0 .. Ahead - 1 /\ Offered(d)' = Offered(d))
       /\ \A d \in 0 .. Ahead - 1 : d \in 0 .. Ahead' - 1
       /\ n \in 0 .. Ahead' - 1
  BY <1>1, <1>6, <1>p
<1>13. Partition'
  <2>1. \A d, e \in 0 .. Ahead' - 1 : Offered(d)' = Offered(e)' => d = e
    BY <1>0, <1>6, <1>12 DEF StreamInv, Partition
  <2>2. \A d \in 0 .. Ahead' - 1 : Offered(d)' \notin guest.free \ {b} /\ Offered(d)' # Sender.buf
    BY <1>0, <1>2, <1>6, <1>12 DEF StreamInv, Partition
  <2>3. \A d \in 0 .. Ahead' - 1, e \in 0 .. Behind - 1 : Offered(d)' # Filled(e).id
    BY <1>0, <1>6, <1>12 DEF StreamInv, Partition
  <2>4. ASSUME NEW c \in Slots, c = b \/ \E d \in 0 .. Ahead - 1 : Offered(d) = c
        PROVE  \E d \in 0 .. Ahead' - 1 : Offered(d)' = c
    BY <1>6, <1>12, <2>4
  <2>5. QED
    BY <1>0, <1>1, <1>5, <1>7, <1>9, <2>1, <2>2, <2>3, <2>4 DEF StreamInv, Partition
<1>14. QED BY <1>8, <1>10, <1>11, <1>13 DEF StreamInv

\* The guest takes the first buffer reported: the frame in it is one it has not seen.
LEMMA StepPoll ==
  ASSUME StreamInv, Stream!Poll, Stream!Unseen
  PROVE  StreamInv' /\ seen'[Remote] > seen[Remote]
<1> USE NetAssumption
<1> DEFINE e0 == used.ring[guest.seen % N]
<1>1. /\ guest.seen \in Index /\ used.idx \in Index /\ Ahead \in Nat /\ Behind \in Nat
      /\ used.ring \in [Slots -> [id : Slots, frame : Stream!Frames]]
      /\ \A d \in 0 .. Ahead - 1 : d \in Nat /\ Offered(d) \in Slots
      /\ \A d \in 0 .. Behind - 1 : d \in Nat /\ Filled(d) \in [id : Slots, frame : Stream!Frames]
      /\ seen[Remote] \in Nat
  BY Rings
<1>2. /\ guest' = [guest EXCEPT !.seen = Stream!Inc(guest.seen), !.free = guest.free \cup {e0.id}]
      /\ seen' = [seen EXCEPT ![data[e0.id].from] = data[e0.id].k]
      /\ UNCHANGED <<vq, dev, avail, used, data, snd>>
      /\ guest.seen # used.idx
  BY DEF Stream!Poll, Stream!Unseen
<1>3. /\ Stream!Inc(guest.seen) \in Index
      /\ Stream!Distance(guest.seen, used.idx) \in Nat \ {0}
      /\ Stream!Distance(Stream!Inc(guest.seen), used.idx) = Stream!Distance(guest.seen, used.idx) - 1
      /\ \A d \in Nat : Win(used.ring, Stream!Inc(guest.seen), d) = Win(used.ring, guest.seen, d + 1)
      /\ Win(used.ring, guest.seen, 0) = e0
  BY <1>1, <1>2, WindowShrinks
<1>4. e0 = Filled(0) /\ 0 \in 0 .. Behind - 1  BY <1>1, <1>3 DEF Filled, Behind
<1> HIDE DEF e0
<1>5. /\ guest'.seen = Stream!Inc(guest.seen) /\ guest'.free = guest.free \cup {e0.id}
      /\ guest' \in [phase : {"up"}, free : SUBSET Slots, seen : Index,
                  isr : {"none", "ack", "sched"}, napi : {"off", "poll", "recheck"}]
  <2>1. guest \in [phase : {"up"}, free : SUBSET Slots, seen : Index,
                  isr : {"none", "ack", "sched"}, napi : {"off", "poll", "recheck"}]
    BY DEF StreamInv, StreamTypes
  <2>2. e0.id \in Slots  BY <1>1, <1>4
  <2>3. QED BY <1>2, <1>3, <2>1, <2>2
<1>6. e0.frame \in Stream!Frames /\ data[e0.id] = e0.frame /\ e0.frame.from = Remote /\ e0.frame.k \in 0 .. MaxFrames
      /\ e0.frame.k > seen[Remote]
  BY <1>1, <1>4 DEF StreamInv, FramesOK, Stream!Frames, NetConstants
<1>7. seen' \in [{Remote} -> 0 .. MaxFrames] /\ seen'[Remote] = e0.frame.k
  BY <1>2, <1>6 DEF StreamInv, StreamTypes
<1>8. /\ Behind' = Behind - 1 /\ \A d \in Nat : Filled(d)' = Filled(d + 1)
      /\ Ahead' = Ahead /\ \A d \in Nat : Offered(d)' = Offered(d)
  BY <1>2, <1>3, <1>5 DEF Behind, Filled, Ahead, Offered
<1>9. StreamTypes'  BY <1>2, <1>5, <1>7 DEF StreamInv, StreamTypes
<1>10. Sender' = Sender /\ (Holding' <=> Holding) /\ (AtRest' <=> AtRest)
  BY <1>2 DEF Sender, Holding, AtRest
<1>11. SenderOK'  BY <1>2, <1>8, <1>10 DEF StreamInv, SenderOK
<1>12. \A d \in 0 .. Behind' - 1 : d \in Nat /\ d + 1 \in 0 .. Behind - 1 /\ 0 < d + 1 /\ Filled(d)' = Filled(d + 1)
  BY <1>1, <1>8
<1>13. FramesOK'
  <2>1. \A d \in 0 .. Behind' - 1 :
          /\ data[Filled(d)'.id] = Filled(d)'.frame
          /\ seen'[Remote] < Filled(d)'.frame.k
          /\ IF AtRest THEN Filled(d)'.frame.k <= Sender.k ELSE Filled(d)'.frame.k < Sender.k
    BY <1>4, <1>7, <1>12 DEF StreamInv, FramesOK
  <2>2. \A d, e \in 0 .. Behind' - 1 : d < e => Filled(d)'.frame.k < Filled(e)'.frame.k
    <3>1. SUFFICES ASSUME NEW d \in 0 .. Behind' - 1, NEW e \in 0 .. Behind' - 1, d < e
                   PROVE  Filled(d)'.frame.k < Filled(e)'.frame.k
      OBVIOUS
    <3>2. d + 1 < e + 1  BY <1>12, <3>1
    <3>3. QED BY <1>12, <3>2 DEF StreamInv, FramesOK
  <2>3. IF AtRest THEN seen'[Remote] <= Sender.k ELSE seen'[Remote] < Sender.k
    BY <1>4, <1>7 DEF StreamInv, FramesOK
  <2>4. QED BY <1>2, <1>10, <2>1, <2>2, <2>3 DEF StreamInv, FramesOK
<1>14. Partition'
  <2>1. \A d, e \in 0 .. Behind' - 1 : Filled(d)'.id = Filled(e)'.id => d = e
    <3>1. SUFFICES ASSUME NEW d \in 0 .. Behind' - 1, NEW e \in 0 .. Behind' - 1, Filled(d)'.id = Filled(e)'.id
                   PROVE  d = e
      OBVIOUS
    <3>2. d + 1 = e + 1  BY <1>12, <3>1 DEF StreamInv, Partition
    <3>3. QED BY <1>12, <3>2
  <2>2. \A d \in 0 .. Behind' - 1 : Filled(d)'.id \notin guest.free \cup {e0.id} /\ Filled(d)'.id # Sender.buf
    <3>1. SUFFICES ASSUME NEW d \in 0 .. Behind' - 1
                   PROVE  Filled(d + 1).id \notin guest.free \cup {e0.id} /\ Filled(d + 1).id # Sender.buf
      BY <1>12
    <3>2. Filled(d + 1).id # e0.id  BY <1>4, <1>12 DEF StreamInv, Partition
    <3>3. QED BY <1>12, <3>2 DEF StreamInv, Partition
  <2>3. \A d \in 0 .. Ahead - 1, e \in 0 .. Behind' - 1 : Offered(d) # Filled(e)'.id
    BY <1>12 DEF StreamInv, Partition
  <2>4. \A d \in 0 .. Ahead - 1 : Offered(d)' = Offered(d) /\ Offered(d) \notin guest.free \cup {e0.id}
    BY <1>1, <1>4, <1>8 DEF StreamInv, Partition
  <2>5. Sender.buf \notin guest.free \cup {e0.id}  BY <1>4 DEF StreamInv, Partition
  <2>6. ASSUME NEW c \in Slots, c # e0.id, \E d \in 0 .. Behind - 1 : Filled(d).id = c
        PROVE  \E d \in 0 .. Behind' - 1 : Filled(d)'.id = c
    <3>1. PICK d \in 0 .. Behind - 1 : Filled(d).id = c  BY <2>6
    <3>2. d - 1 \in 0 .. Behind' - 1 /\ (d - 1) + 1 = d  BY <1>1, <1>4, <1>8, <2>6, <3>1
    <3>3. QED BY <1>12, <3>1, <3>2
  <2>7. QED
    BY <1>2, <1>5, <1>8, <1>10, <2>1, <2>2, <2>3, <2>4, <2>5, <2>6 DEF StreamInv, Partition
<1>15. QED BY <1>1, <1>6, <1>7, <1>9, <1>11, <1>13, <1>14 DEF StreamInv

-----------------------------------------------------------------------------
(* The other question: resets and removals. *)

-----------------------------------------------------------------------------
(* Two senders, while the guest resets its device or is removed.           *)

\* The setting with resets: its senders, when they have no frame at hand, and the
\* shapes of its state.
Both == {Remote, Near}
Resting == {"idle", "notify", "flags"}
ResetSender == [pc : Resets!SenderPcs, k : 0 .. 1, todo : 0 .. 1, av : Index,
                buf : Slots \cup {NoBuf}, owed : BOOLEAN]
ResetGuest == [phase : {"up", "reset", "down", "setup", "unlisted", "gone"},
               free : SUBSET Slots, seen : Index,
               isr : {"none", "ack", "sched"}, napi : {"off", "poll", "recheck"}]
ResetAvail == [ring : [Slots -> Slots], idx : Index, flags : {0, 1}]
ResetUsed == [ring : [Slots -> [id : Slots, frame : Resets!Frames]], idx : Index]

\* Shape of the state in the setting with resets.
ResetTypes ==
    /\ vq \in [up : BOOLEAN, last : Index]
    /\ dev \in [activated : BOOLEAN, irt : BOOLEAN, irq : BOOLEAN]
    /\ avail \in ResetAvail
    /\ used \in ResetUsed
    /\ data \in [Slots -> Resets!Frames]
    /\ guest \in ResetGuest
    /\ snd \in [Both -> ResetSender]
    /\ msgs \in [n : Nat, handling : BOOLEAN]
    /\ seen \in [Both -> 0 .. 1]

\* A guest that sleeps over a frame has a wake-up on its way, also while it sets
\* its queue up again.
Woken ==
    (guest.phase \in {"up", "setup"} /\ guest.isr = "none" /\ guest.napi = "off" /\ Resets!Unseen)
      => \/ dev.irq /\ dev.irt
         \/ msgs.n > 0 \/ msgs.handling
         \/ \E s \in Both : snd[s].owed

\* The queue is up while the guest runs; interrupts are suppressed only while it polls.
WakeInv ==
    /\ guest.phase \in {"up", "setup"} => vq.up = TRUE
    /\ avail.flags = 1 => guest.napi = "poll"
    /\ Woken

\* What the guest may take was written by a sender: the first frame of one.
FirstFrames ==
    /\ \A s \in Both :
         /\ snd[s].pc \notin Resting => snd[s].todo = 1 /\ snd[s].k = 1
         /\ snd[s].pc \in {"recheck", "desc", "putback", "write", "used"} => snd[s].buf \in Slots
         /\ snd[s].pc = "used" => data[snd[s].buf].k = 1
    /\ \A d \in 0 .. Behind - 1 : data[Filled(d).id].k = 1

\* The invariant of the setting with resets.
ResetInv == ResetTypes /\ WakeInv /\ FirstFrames

\* Where a sender holds a buffer.
Held == {"recheck", "desc", "putback", "write", "used"}

\* Where a step of sender s may leave its own record.
Moved(s) ==
    /\ snd' \in [Both -> ResetSender]
    /\ \A t \in Both : t # s => snd'[t] = snd[t]
    /\ snd'[s].pc \notin Resting => snd'[s].todo = 1 /\ snd'[s].k = 1
    /\ snd'[s].pc \in Held => snd'[s].buf \in Slots
    /\ snd'[s].pc = "used" => snd[s].pc \in {"write", "used"} /\ snd'[s].buf = snd[s].buf

\* What becomes of a sender's record when its only frame is done.
LEMMA ResetFrameDone ==
  ASSUME ResetTypes, FirstFrames, NEW s \in Both, NEW o \in BOOLEAN,
         snd[s].pc \notin Resting, snd' = [snd EXCEPT ![s] = Resets!AfterFrame(s, o)]
  PROVE  Moved(s) /\ snd'[s].owed = o
<1> USE NetAssumption
<1>1. /\ snd \in [Both -> ResetSender] /\ snd[s] \in ResetSender /\ snd[s].todo = 1 /\ snd[s].k = 1
      /\ 0 \in Index
  BY DEF ResetTypes, FirstFrames, Index, NetConstants
<1> DEFINE r == Resets!AfterFrame(s, o)
<1>2. r = [snd[s] EXCEPT !.todo = 0, !.owed = o, !.buf = NoBuf, !.av = 0,
                         !.pc = IF o THEN "notify" ELSE "idle", !.k = 1]
  BY <1>1 DEF Resets!AfterFrame, ResetSender
<1>3. r.owed = o /\ r.pc = IF o THEN "notify" ELSE "idle"
  BY <1>1, <1>2 DEF ResetSender
<1>4. r \in ResetSender
  <2> DEFINE p == IF o THEN "notify" ELSE "idle"
             s0 == snd[s]
             s1 == [s0 EXCEPT !.todo = 0]
             s2 == [s1 EXCEPT !.owed = o]
             s3 == [s2 EXCEPT !.buf = NoBuf]
             s4 == [s3 EXCEPT !.av = 0]
             s5 == [s4 EXCEPT !.pc = p]
             s6 == [s5 EXCEPT !.k = 1]
  <2>1. p \in Resets!SenderPcs  BY DEF Resets!SenderPcs
  <2>2. r = s6  BY <1>2
  <2>3. s0 \in ResetSender  BY <1>1
  <2> HIDE DEF s0, p
  <2>4. s1 \in ResetSender  BY <2>3 DEF ResetSender
  <2> HIDE DEF s1
  <2>5. s2 \in ResetSender  BY <2>4 DEF ResetSender
  <2> HIDE DEF s2
  <2>6. s3 \in ResetSender  BY <2>5 DEF ResetSender
  <2> HIDE DEF s3
  <2>7. s4 \in ResetSender  BY <1>1, <2>6 DEF ResetSender
  <2> HIDE DEF s4
  <2>8. s5 \in ResetSender  BY <2>1, <2>7 DEF ResetSender
  <2> HIDE DEF s5
  <2>9. s6 \in ResetSender  BY <2>8 DEF ResetSender
  <2>10. QED BY <2>2, <2>9
<1> HIDE DEF r
<1>5. snd' \in [Both -> ResetSender] /\ snd'[s] = r /\ \A t \in Both : t # s => snd'[t] = snd[t]
  BY <1>1, <1>4 DEF r
<1>6. QED BY <1>3, <1>5 DEF Moved, Resting, Held

\* A step that only moves the sender on.
LEMMA ResetGoto ==
  ASSUME ResetTypes, FirstFrames, NEW s \in Both, NEW p \in Resets!SenderPcs,
         snd' = [snd EXCEPT ![s].pc = p],
         p \notin Resting => snd[s].pc \notin Resting,
         p \in Held => snd[s].pc \in Held,
         p = "used" => snd[s].pc = "write"
  PROVE  Moved(s) /\ snd'[s].owed = snd[s].owed
<1> USE NetAssumption
<1>1. snd \in [Both -> ResetSender] /\ snd[s] \in ResetSender  BY DEF ResetTypes
<1>2. /\ snd' \in [Both -> ResetSender] /\ \A t \in Both : t # s => snd'[t] = snd[t]
      /\ snd'[s].pc = p /\ snd'[s].todo = snd[s].todo /\ snd'[s].k = snd[s].k
      /\ snd'[s].buf = snd[s].buf /\ snd'[s].owed = snd[s].owed
  <2>1. snd' \in [Both -> ResetSender]  BY <1>1 DEF ResetSender
  <2>2. \A t \in Both : t # s => snd'[t] = snd[t]  BY <1>1
  <2>3. snd'[s] = [snd[s] EXCEPT !.pc = p]  BY <1>1
  <2>4. QED BY <1>1, <2>1, <2>2, <2>3 DEF ResetSender
<1>3. QED BY <1>2 DEF Moved, FirstFrames, Held

\* A step that leaves the senders where they are.
LEMMA ResetStays ==
  ASSUME ResetTypes, FirstFrames, NEW s \in Both, snd' = snd
  PROVE  Moved(s) /\ snd'[s].owed = snd[s].owed
BY NetAssumption DEF Moved, ResetTypes, FirstFrames, Held

\* A sender that has notified the guest owes nothing.
LEMMA ResetIdles ==
  ASSUME ResetTypes, FirstFrames, NEW s \in Both,
         snd' = [snd EXCEPT ![s].pc = "idle", ![s].owed = FALSE]
  PROVE  Moved(s)
<1> USE NetAssumption
<1>1. snd \in [Both -> ResetSender] /\ snd[s] \in ResetSender  BY DEF ResetTypes
<1>2. snd' \in [Both -> ResetSender]
  <2> DEFINE s1 == [snd EXCEPT ![s].pc = "idle"]
  <2>1. s1 \in [Both -> ResetSender]  BY <1>1 DEF ResetSender, Resets!SenderPcs
  <2>2. snd' = [s1 EXCEPT ![s].owed = FALSE]  BY <1>1
  <2> HIDE DEF s1
  <2>3. s1[s] \in ResetSender  BY <2>1
  <2>4. [s1[s] EXCEPT !.owed = FALSE] \in ResetSender  BY <2>3 DEF ResetSender
  <2>5. QED BY <2>1, <2>2, <2>4
<1>3. snd'[s].pc = "idle" /\ \A t \in Both : t # s => snd'[t] = snd[t]
  BY <1>1 DEF ResetSender
<1>4. QED BY <1>2, <1>3 DEF Moved, Resting, Held

\* Every step of a sender moves it as Moved says.
LEMMA SenderMoved ==
  ASSUME ResetTypes, FirstFrames, NEW s \in Both,
         Resets!Transmit(s) \/ Resets!SendStep(s)
  PROVE  Moved(s)
<1> USE NetAssumption
<1> USE DEF Resets!Panic, Resets!Goto, Resets!Drop, Resting, Held
<1>0. /\ snd \in [Both -> ResetSender] /\ snd[s] \in ResetSender /\ snd[s].owed \in BOOLEAN
      /\ avail \in ResetAvail /\ vq.last \in Index /\ N \in Nat \ {0}
  BY DEF ResetTypes, ResetSender, NetConstants
<1>pc. {"idle", "check", "idx", "pop", "recheck", "desc", "putback", "write", "used", "notify", "flags"} = Resets!SenderPcs
  BY DEF Resets!SenderPcs
<1>1. CASE Resets!Transmit(s)
  <2>1. snd' = [snd EXCEPT ![s].pc = "check", ![s].k = 1, ![s].todo = 1]
    BY <1>0, <1>1 DEF Resets!Transmit, ResetSender
  <2>2. snd' \in [Both -> ResetSender]
    <3> DEFINE s1 == [snd EXCEPT ![s].pc = "check"]
               s2 == [s1 EXCEPT ![s].k = 1]
    <3>1. s1 \in [Both -> ResetSender]  BY <1>0 DEF ResetSender, Resets!SenderPcs
    <3>2. snd' = [s2 EXCEPT ![s].todo = 1]  BY <2>1
    <3> HIDE DEF s1
    <3>3. s2 \in [Both -> ResetSender]  BY <3>1 DEF ResetSender
    <3> HIDE DEF s2
    <3>4. QED BY <3>2, <3>3 DEF ResetSender
  <2>3. /\ snd'[s].pc = "check" /\ snd'[s].k = 1 /\ snd'[s].todo = 1
        /\ \A t \in Both : t # s => snd'[t] = snd[t]
    BY <1>0, <2>1 DEF ResetSender
  <2>4. QED BY <2>2, <2>3 DEF Moved
<1>2. CASE Resets!CheckActivated(s)
  BY <1>0, <1>2, <1>pc, ResetGoto, ResetFrameDone DEF Resets!CheckActivated
<1>3. CASE Resets!AvailIdx(s)
  <2>1. CASE snd' = snd  BY <2>1, ResetStays
  <2>2. CASE snd' = [snd EXCEPT ![s].av = avail.idx, ![s].pc = "pop"]
    <3> DEFINE s1 == [snd EXCEPT ![s].av = avail.idx]
    <3>1. s1 \in [Both -> ResetSender] /\ s1[s].pc = "idx" /\ s1[s].todo = 1 /\ s1[s].k = 1
      BY <1>0, <1>3 DEF ResetSender, ResetAvail, Resets!AvailIdx, FirstFrames
    <3>2. snd' = [s1 EXCEPT ![s].pc = "pop"]  BY <2>2
    <3>3. \A t \in Both : t # s => s1[t] = snd[t]  BY <1>0
    <3> HIDE DEF s1
    <3>4. snd' \in [Both -> ResetSender] /\ snd'[s].pc = "pop" /\ snd'[s].todo = 1 /\ snd'[s].k = 1
          /\ \A t \in Both : t # s => snd'[t] = s1[t]
      <4>1. snd' \in [Both -> ResetSender]  BY <3>1, <3>2 DEF ResetSender, Resets!SenderPcs
      <4>2. QED BY <3>1, <3>2, <4>1 DEF ResetSender
    <3>5. QED BY <3>3, <3>4 DEF Moved
  <2>3. QED BY <1>3, <2>1, <2>2 DEF Resets!AvailIdx
<1>4. CASE Resets!Pop(s)
  <2>1. CASE ~Resets!MayPop(snd[s].av)
    BY <1>0, <1>4, <2>1, ResetFrameDone DEF Resets!Pop
  <2>2. CASE snd' = [snd EXCEPT ![s].buf = avail.ring[vq.last % N], ![s].pc = "recheck"]
    <3>0. avail.ring[vq.last % N] \in Slots
      <4>1. vq.last % N \in Slots  BY <1>0, DivMod DEF Index, Slots
      <4>2. QED BY <1>0, <4>1 DEF ResetAvail
    <3> DEFINE s1 == [snd EXCEPT ![s].buf = avail.ring[vq.last % N]]
    <3>1. s1 \in [Both -> ResetSender] /\ s1[s].buf \in Slots /\ s1[s].todo = 1 /\ s1[s].k = 1
      BY <1>0, <1>4, <3>0 DEF ResetSender, Resets!Pop, FirstFrames
    <3>2. snd' = [s1 EXCEPT ![s].pc = "recheck"]  BY <2>2
    <3>3. \A t \in Both : t # s => s1[t] = snd[t]  BY <1>0
    <3> HIDE DEF s1
    <3>4. snd' \in [Both -> ResetSender] /\ snd'[s].pc = "recheck" /\ snd'[s].todo = 1 /\ snd'[s].k = 1
          /\ snd'[s].buf \in Slots /\ \A t \in Both : t # s => snd'[t] = s1[t]
      <4>1. snd' \in [Both -> ResetSender]  BY <3>1, <3>2 DEF ResetSender, Resets!SenderPcs
      <4>2. QED BY <3>1, <3>2, <4>1 DEF ResetSender
    <3>5. QED BY <3>3, <3>4 DEF Moved
  <2>3. QED BY <1>4, <2>1, <2>2 DEF Resets!Pop
<1>5. CASE Resets!Recheck(s)
  BY <1>0, <1>5, <1>pc, ResetGoto, ResetFrameDone DEF Resets!Recheck
<1>6. CASE Resets!ReadDesc(s)
  BY <1>0, <1>6, <1>pc, ResetGoto, ResetStays DEF Resets!ReadDesc
<1>7. CASE Resets!PutBack(s)
  BY <1>0, <1>7, ResetFrameDone DEF Resets!PutBack
<1>8. CASE Resets!WriteFrame(s)
  BY <1>0, <1>8, <1>pc, ResetGoto DEF Resets!WriteFrame
<1>9. CASE Resets!UpdateUsedRing(s)
  BY <1>0, <1>9, ResetFrameDone DEF Resets!UpdateUsedRing
<1>10. CASE Resets!NotifyTarget(s)
  BY <1>0, <1>10, <1>pc, ResetGoto, ResetStays, ResetIdles DEF Resets!NotifyTarget
<1>11. CASE Resets!NotifyLocal(s)
  BY <1>0, <1>11, ResetStays, ResetIdles DEF Resets!NotifyLocal
<1>12. QED
  BY <1>1, <1>2, <1>3, <1>4, <1>5, <1>6, <1>7, <1>8, <1>9, <1>10, <1>11 DEF Resets!SendStep

\* Both settings count ring indices alike.
LEMMA SameIndices ==
  /\ \A i : Resets!Inc(i) = Stream!Inc(i) /\ Resets!Dec(i) = Stream!Dec(i)
  /\ \A i, j : Resets!Distance(i, j) = Stream!Distance(i, j)
BY DEF Resets!Inc, Stream!Inc, Resets!Dec, Stream!Dec, Resets!Distance, Stream!Distance

\* A step of a sender keeps the shape of the state.
LEMMA ResetSendTypes ==
  ASSUME ResetTypes, FirstFrames, NEW s \in Both,
         Resets!Transmit(s) \/ Resets!SendStep(s)
  PROVE  ResetTypes'
<1> USE NetAssumption
<1> USE DEF Resets!Panic
<1>0. /\ vq \in [up : BOOLEAN, last : Index]
      /\ dev \in [activated : BOOLEAN, irt : BOOLEAN, irq : BOOLEAN]
      /\ msgs \in [n : Nat, handling : BOOLEAN]
      /\ used \in ResetUsed
      /\ data \in [Slots -> Resets!Frames]
      /\ snd[s] \in ResetSender
      /\ N \in Nat \ {0}
  BY DEF ResetTypes, NetConstants
<1>s. snd' \in [Both -> ResetSender]  BY SenderMoved DEF Moved
<1>g. UNCHANGED <<avail, guest, seen>>
  BY DEF Resets!SendStep, Resets!Transmit, Resets!CheckActivated, Resets!AvailIdx, Resets!Pop,
         Resets!Recheck, Resets!ReadDesc, Resets!PutBack, Resets!WriteFrame,
         Resets!UpdateUsedRing, Resets!NotifyTarget, Resets!NotifyLocal
<1>v. vq' \in [up : BOOLEAN, last : Index]
  <2>1. Stream!Inc(vq.last) \in Index /\ Stream!Dec(vq.last) \in Index  BY <1>0, RingSteps
  <2>2. vq' \in {vq, [vq EXCEPT !.last = Resets!Inc(vq.last)], [vq EXCEPT !.last = Resets!Dec(vq.last)]}
    BY DEF Resets!SendStep, Resets!Transmit, Resets!CheckActivated, Resets!AvailIdx, Resets!Pop,
         Resets!Recheck, Resets!ReadDesc, Resets!PutBack, Resets!WriteFrame,
         Resets!UpdateUsedRing, Resets!NotifyTarget, Resets!NotifyLocal
  <2>3. QED BY <1>0, <2>1, <2>2, SameIndices
<1>d. dev' \in [activated : BOOLEAN, irt : BOOLEAN, irq : BOOLEAN]
  <2>1. dev' \in {dev, [dev EXCEPT !.irt = TRUE, !.irq = TRUE]}
    BY DEF Resets!SendStep, Resets!Transmit, Resets!CheckActivated, Resets!AvailIdx, Resets!Pop,
         Resets!Recheck, Resets!ReadDesc, Resets!PutBack, Resets!WriteFrame,
         Resets!UpdateUsedRing, Resets!NotifyTarget, Resets!NotifyLocal, Resets!Notified
  <2>2. QED BY <1>0, <2>1
<1>m. msgs' \in [n : Nat, handling : BOOLEAN]
  <2>1. msgs' \in {msgs, [msgs EXCEPT !.n = msgs.n + 1]}
    BY DEF Resets!SendStep, Resets!Transmit, Resets!CheckActivated, Resets!AvailIdx, Resets!Pop,
         Resets!Recheck, Resets!ReadDesc, Resets!PutBack, Resets!WriteFrame,
         Resets!UpdateUsedRing, Resets!NotifyTarget, Resets!NotifyLocal
  <2>2. QED BY <1>0, <2>1
<1>f. [from |-> s, k |-> snd[s].k] \in Resets!Frames
  BY <1>0 DEF Resets!Frames, Both, ResetSender
<1>a. data' \in [Slots -> Resets!Frames]
  <2>1. \/ data' = data
        \/ data' = [data EXCEPT ![snd[s].buf] = [from |-> s, k |-> snd[s].k]]
    BY DEF Resets!SendStep, Resets!Transmit, Resets!CheckActivated, Resets!AvailIdx, Resets!Pop,
         Resets!Recheck, Resets!ReadDesc, Resets!PutBack, Resets!WriteFrame,
         Resets!UpdateUsedRing, Resets!NotifyTarget, Resets!NotifyLocal
  <2>2. QED BY <1>0, <1>f, <2>1
<1>u. used' \in ResetUsed
  <2> DEFINE rec == [id |-> snd[s].buf, frame |-> [from |-> s, k |-> snd[s].k]]
  <2>1. CASE used' = used  BY <1>0, <2>1
  <2>2. CASE snd[s].pc = "used" /\ used' = [ring |-> [used.ring EXCEPT ![used.idx % N] = rec], idx |-> Resets!Inc(used.idx)]
    <3>1. snd[s].buf \in Slots  BY <2>2 DEF FirstFrames
    <3>2. rec \in [id : Slots, frame : Resets!Frames]  BY <1>f, <3>1
    <3>3. Stream!Inc(used.idx) \in Index  BY <1>0, RingSteps DEF ResetUsed
    <3> HIDE DEF rec
    <3>4. QED BY <1>0, <2>2, <3>2, <3>3, SameIndices DEF ResetUsed
  <2>3. QED
    BY <2>1, <2>2
       DEF Resets!SendStep, Resets!Transmit, Resets!CheckActivated, Resets!AvailIdx, Resets!Pop,
         Resets!Recheck, Resets!ReadDesc, Resets!PutBack, Resets!WriteFrame,
         Resets!UpdateUsedRing, Resets!NotifyTarget, Resets!NotifyLocal
<1>q. QED BY <1>s, <1>g, <1>v, <1>d, <1>m, <1>a, <1>u DEF ResetTypes

\* So does a step of the guest, of a message, of a reset or of a removal.
LEMMA ResetGuestTypes ==
  ASSUME ResetTypes,
         \/ Resets!MsgStep \/ Resets!IsrStep \/ Resets!PollStep
         \/ \E b \in Resets!Bufs : Resets!Publish(b)
         \/ Resets!ResetQueues \/ Resets!SetupStep \/ Resets!RemoveNic \/ Resets!DropVm
  PROVE  ResetTypes' /\ UNCHANGED <<snd, data>>
<1> USE NetAssumption
<1> USE DEF Resets!Panic
<1>0. /\ vq \in [up : BOOLEAN, last : Index]
      /\ dev \in [activated : BOOLEAN, irt : BOOLEAN, irq : BOOLEAN]
      /\ msgs \in [n : Nat, handling : BOOLEAN]
      /\ avail \in ResetAvail /\ used \in ResetUsed /\ guest \in ResetGuest
      /\ seen \in [Both -> 0 .. 1] /\ data \in [Slots -> Resets!Frames]
      /\ 0 \in Index /\ N \in Nat \ {0} /\ 0 \in Slots
  BY DEF ResetTypes, NetConstants, Index, Slots
<1>1. ASSUME Resets!MsgStep PROVE ResetTypes' /\ UNCHANGED <<snd, data>>
  <2>1. UNCHANGED <<vq, avail, used, data, guest, snd, seen>>
    BY <1>1 DEF Resets!MsgStep, Resets!TakeMsg, Resets!HandleMsg
  <2>2. dev' \in {dev, [dev EXCEPT !.irt = TRUE, !.irq = TRUE]}
    BY <1>1 DEF Resets!MsgStep, Resets!TakeMsg, Resets!HandleMsg, Resets!Notified
  <2>3. msgs' \in [n : Nat, handling : BOOLEAN]
    <3>1. vq.up \in BOOLEAN /\ msgs.n \in Nat  BY <1>0
    <3>2. \/ msgs' = msgs \/ (msgs.n > 0 /\ msgs' = [n |-> msgs.n - 1, handling |-> vq.up])
          \/ msgs' = [msgs EXCEPT !.handling = FALSE]
      BY <1>1 DEF Resets!MsgStep, Resets!TakeMsg, Resets!HandleMsg
    <3>3. PICK u \in BOOLEAN : u = vq.up  BY <3>1
    <3>4. CASE msgs.n > 0 /\ msgs' = [n |-> msgs.n - 1, handling |-> u]  BY <3>1, <3>4
    <3>5. CASE msgs' = [msgs EXCEPT !.handling = FALSE]  BY <1>0, <3>5
    <3>6. QED BY <1>0, <3>2, <3>3, <3>4, <3>5
  <2>4. dev' \in [activated : BOOLEAN, irt : BOOLEAN, irq : BOOLEAN]  BY <1>0, <2>2
  <2>5. QED BY <2>1, <2>3, <2>4 DEF ResetTypes
<1>2. ASSUME Resets!IsrStep PROVE ResetTypes' /\ UNCHANGED <<snd, data>>
  <2>1. UNCHANGED <<vq, used, data, snd, msgs, seen>>
    BY <1>2 DEF Resets!IsrStep, Resets!Isr, Resets!Ack, Resets!Schedule
  <2>2. dev' \in [activated : BOOLEAN, irt : BOOLEAN, irq : BOOLEAN]
    BY <1>0, <1>2 DEF Resets!IsrStep, Resets!Isr, Resets!Ack, Resets!Schedule
  <2>3. guest' \in ResetGuest
    BY <1>0, <1>2 DEF Resets!IsrStep, Resets!Isr, Resets!Ack, Resets!Schedule, ResetGuest
  <2>4. avail' \in ResetAvail
    BY <1>0, <1>2 DEF Resets!IsrStep, Resets!Isr, Resets!Ack, Resets!Schedule, ResetAvail
  <2>5. QED BY <2>1, <2>2, <2>3, <2>4 DEF ResetTypes
<1>3. ASSUME Resets!PollEnd PROVE ResetTypes' /\ UNCHANGED <<snd, data>>
  <2>1. UNCHANGED <<vq, dev, used, data, snd, msgs, seen>>  BY <1>3 DEF Resets!PollEnd
  <2>2. guest' \in ResetGuest  BY <1>0, <1>3 DEF Resets!PollEnd, ResetGuest
  <2>3. avail' \in ResetAvail  BY <1>0, <1>3 DEF Resets!PollEnd, ResetAvail
  <2>4. QED BY <2>1, <2>2, <2>3 DEF ResetTypes
<1>4. ASSUME Resets!Poll PROVE ResetTypes' /\ UNCHANGED <<snd, data>>
  <2>1. UNCHANGED <<vq, dev, used, data, snd, msgs>>  BY <1>4 DEF Resets!Poll
  <2>2. avail' \in ResetAvail  BY <1>0, <1>4 DEF Resets!Poll, ResetAvail
  <2>3. Stream!Inc(guest.seen) \in Index /\ guest.seen % N \in Slots
    <3>1. guest.seen \in Index /\ guest.seen \in Int  BY <1>0 DEF ResetGuest, Index
    <3>2. guest.seen % N \in 0 .. N - 1  BY <1>0, <3>1, DivMod
    <3>3. QED BY <3>1, <3>2, RingSteps DEF Slots
  <2>4. used.ring[guest.seen % N].id \in Slots  BY <1>0, <2>3 DEF ResetUsed
  <2>5. guest' \in ResetGuest
    <3>1. \/ guest' = [guest EXCEPT !.seen = Stream!Inc(guest.seen), !.free = guest.free \cup {used.ring[guest.seen % N].id}]
          \/ guest' = [guest EXCEPT !.napi = "recheck"]
      BY <1>4, SameIndices DEF Resets!Poll
    <3>2. CASE guest' = [guest EXCEPT !.napi = "recheck"]  BY <1>0, <3>2 DEF ResetGuest
    <3>3. PICK x \in Slots, j \in Index : x = used.ring[guest.seen % N].id /\ j = Stream!Inc(guest.seen)
      BY <2>3, <2>4
    <3>4. CASE guest' = [guest EXCEPT !.seen = j, !.free = guest.free \cup {x}]
      BY <1>0, <3>4 DEF ResetGuest
    <3>5. QED BY <3>1, <3>2, <3>3, <3>4
  <2>6. data[used.ring[guest.seen % N].id] \in [from : Both, k : 0 .. 1]
    BY <1>0, <2>4 DEF Resets!Frames, Both
  <2>7. seen' \in [Both -> 0 .. 1]  BY <1>0, <1>4, <2>6 DEF Resets!Poll
  <2>8. QED BY <2>1, <2>2, <2>5, <2>7 DEF ResetTypes
<1>5. ASSUME NEW b \in Resets!Bufs, Resets!Publish(b) PROVE ResetTypes' /\ UNCHANGED <<snd, data>>
  <2>1. UNCHANGED <<vq, used, data, snd, msgs, seen>>  BY <1>5 DEF Resets!Publish
  <2>2. guest' \in ResetGuest  BY <1>0, <1>5 DEF Resets!Publish, ResetGuest
  <2>3. dev' \in [activated : BOOLEAN, irt : BOOLEAN, irq : BOOLEAN]
    BY <1>0, <1>5
       DEF Resets!Publish
  <2>4. Stream!Inc(avail.idx) \in Index /\ b \in Slots
    BY <1>0, RingSteps
       DEF ResetAvail, Resets!Bufs, Slots
  <2>5. avail' \in ResetAvail  BY <1>0, <1>5, <2>4, SameIndices DEF Resets!Publish, ResetAvail
  <2>6. QED BY <2>1, <2>2, <2>3, <2>5 DEF ResetTypes
<1>6. ASSUME Resets!ResetQueues PROVE ResetTypes' /\ UNCHANGED <<snd, data>>
  <2>1. UNCHANGED <<avail, used, data, snd, msgs, seen>>  BY <1>6 DEF Resets!ResetQueues
  <2>2. guest' \in ResetGuest
    BY <1>0, <1>6 DEF Resets!ResetQueues, ResetGuest
  <2>3. dev' \in [activated : BOOLEAN, irt : BOOLEAN, irq : BOOLEAN]
    BY <1>0, <1>6
       DEF Resets!ResetQueues
  <2>4. vq' \in [up : BOOLEAN, last : Index]  BY <1>0, <1>6 DEF Resets!ResetQueues
  <2>5. QED BY <2>1, <2>2, <2>3, <2>4 DEF ResetTypes
<1>7. ASSUME Resets!ResetActivated \/ Resets!Activate PROVE ResetTypes' /\ UNCHANGED <<snd, data>>
  <2>1. UNCHANGED <<vq, avail, used, data, snd, msgs, seen>>
    BY <1>7
       DEF Resets!ResetActivated, Resets!Activate
  <2>2. guest' \in ResetGuest  BY <1>0, <1>7
                                  DEF Resets!ResetActivated, Resets!Activate, ResetGuest
  <2>3. dev' \in [activated : BOOLEAN, irt : BOOLEAN, irq : BOOLEAN]
    BY <1>0, <1>7 DEF Resets!ResetActivated, Resets!Activate
  <2>4. QED BY <2>1, <2>2, <2>3 DEF ResetTypes
<1>8. ASSUME Resets!SetupQueues PROVE ResetTypes' /\ UNCHANGED <<snd, data>>
  <2>1. UNCHANGED <<dev, data, snd, msgs, seen>>  BY <1>8 DEF Resets!SetupQueues
  <2>2. guest' \in ResetGuest  BY <1>0, <1>8
                                  DEF Resets!SetupQueues, ResetGuest, Resets!Bufs, Slots
  <2>3. vq' \in [up : BOOLEAN, last : Index]  BY <1>0, <1>8 DEF Resets!SetupQueues, Resets!FreshVq
  <2>4. avail' \in ResetAvail
    BY <1>0, <1>8 DEF Resets!SetupQueues, Resets!FreshAvail, ResetAvail, Resets!Slots, Slots
  <2>5. (CHOOSE s \in Both : TRUE) \in Both  BY DEF Both
  <2>6. used' \in ResetUsed
    BY <1>0, <1>8, <2>5 DEF Resets!SetupQueues, Resets!FreshUsed, ResetUsed, Resets!Slots, Slots,
       Resets!NoFrame, Resets!Frames, Both
  <2>7. QED BY <2>1, <2>2, <2>3, <2>4, <2>6 DEF ResetTypes
<1>9. ASSUME Resets!RemoveNic \/ Resets!DropVm PROVE ResetTypes' /\ UNCHANGED <<snd, data>>
  <2>1. UNCHANGED <<vq, dev, avail, used, data, snd, msgs, seen>>
    BY <1>9
       DEF Resets!RemoveNic, Resets!DropVm
  <2>2. guest' \in ResetGuest  BY <1>0, <1>9 DEF Resets!RemoveNic, Resets!DropVm, ResetGuest
  <2>3. QED BY <2>1, <2>2 DEF ResetTypes
<1>10. QED
  BY <1>1, <1>2, <1>3, <1>4, <1>5, <1>6, <1>7, <1>8, <1>9 DEF Resets!PollStep, Resets!SetupStep

\* A sender that leaves a frame in the ring owes the notification until it is made.
LEMMA ResetSendWakes ==
  ASSUME ResetTypes, WakeInv, FirstFrames, NEW s \in Both,
         Resets!Transmit(s) \/ Resets!SendStep(s)
  PROVE  WakeInv'
<1> USE NetAssumption
<1> USE DEF Resets!Panic, Resets!Goto, Resets!Drop, Resting, Held
<1>0. /\ vq \in [up : BOOLEAN, last : Index]
      /\ dev \in [activated : BOOLEAN, irt : BOOLEAN, irq : BOOLEAN]
      /\ msgs \in [n : Nat, handling : BOOLEAN] /\ avail.flags \in {0, 1}
      /\ snd \in [Both -> ResetSender] /\ snd[s] \in ResetSender /\ snd[s].owed \in BOOLEAN
  BY DEF ResetTypes, ResetSender, ResetAvail
<1>1. UNCHANGED <<avail, guest>> /\ vq'.up = vq.up
  <2>1. UNCHANGED <<avail, guest>>
    BY DEF Resets!SendStep, Resets!Transmit, Resets!CheckActivated, Resets!AvailIdx, Resets!Pop,
         Resets!Recheck, Resets!ReadDesc, Resets!PutBack, Resets!WriteFrame,
         Resets!UpdateUsedRing, Resets!NotifyTarget, Resets!NotifyLocal
  <2>2. vq' \in {vq, [vq EXCEPT !.last = Resets!Inc(vq.last)], [vq EXCEPT !.last = Resets!Dec(vq.last)]}
    BY DEF Resets!SendStep, Resets!Transmit, Resets!CheckActivated, Resets!AvailIdx, Resets!Pop,
         Resets!Recheck, Resets!ReadDesc, Resets!PutBack, Resets!WriteFrame,
         Resets!UpdateUsedRing, Resets!NotifyTarget, Resets!NotifyLocal
  <2>3. QED BY <1>0, <2>1, <2>2
<1>2. SUFFICES ASSUME guest.phase \in {"up", "setup"}, guest.isr = "none", guest.napi = "off", Resets!Unseen'
               PROVE  \/ dev'.irq /\ dev'.irt
                      \/ msgs'.n > 0 \/ msgs'.handling
                      \/ \E t \in Both : snd'[t].owed
  BY <1>1 DEF WakeInv, Woken
<1>3. vq.up = TRUE /\ avail.flags = 0 /\ guest.phase # "unlisted" /\ guest.phase # "gone"
  BY <1>0, <1>2 DEF WakeInv
<1>4. \A t \in Both : t # s => snd'[t] = snd[t]  BY SenderMoved DEF Moved
<1>5. CASE Resets!UpdateUsedRing(s)
  BY <1>0, <1>3, <1>5, ResetFrameDone DEF Resets!UpdateUsedRing
<1>6. CASE Resets!NotifyTarget(s)
  <2>1. CASE s \in {Near}
    <3>1. snd' = [snd EXCEPT ![s].pc = "flags"] /\ used' = used /\ dev' = dev /\ msgs' = msgs
      BY <1>3, <1>6, <2>1 DEF Resets!NotifyTarget
    <3>2. snd'[s].owed = snd[s].owed  BY <1>0, <3>1 DEF ResetSender
    <3>3. Woken /\ Resets!Unseen  BY <1>1, <1>2, <3>1 DEF WakeInv, Resets!Unseen
    <3>4. QED BY <1>2, <1>4, <3>1, <3>2, <3>3 DEF Woken
  <2>2. CASE s \notin {Near}
    BY <1>0, <1>3, <1>6, <2>2 DEF Resets!NotifyTarget
  <2>3. QED BY <2>1, <2>2
<1>7. CASE Resets!NotifyLocal(s)
  BY <1>0, <1>3, <1>7 DEF Resets!NotifyLocal, Resets!Notified
<1>8. CASE ~Resets!UpdateUsedRing(s) /\ ~Resets!NotifyTarget(s) /\ ~Resets!NotifyLocal(s)
  <2>1. UNCHANGED <<used, dev, msgs>>
    BY <1>8
       DEF Resets!SendStep, Resets!Transmit, Resets!CheckActivated, Resets!AvailIdx, Resets!Pop,
         Resets!Recheck, Resets!ReadDesc, Resets!PutBack, Resets!WriteFrame
  <2>2. snd'[s].owed = snd[s].owed
    <3>1. CASE Resets!Transmit(s)
      BY <1>0, <3>1 DEF Resets!Transmit, ResetSender
    <3>2. CASE Resets!CheckActivated(s)
      <4>1. CASE snd' = [snd EXCEPT ![s].pc = "idx"]  BY <1>0, <4>1 DEF ResetSender
      <4>2. QED BY <1>0, <3>2, <4>1, ResetFrameDone DEF Resets!CheckActivated
    <3>3. CASE Resets!AvailIdx(s)
      BY <1>0, <1>3, <3>3 DEF Resets!AvailIdx, ResetSender
    <3>4. CASE Resets!Pop(s)
      <4>1. CASE snd' = [snd EXCEPT ![s].buf = avail.ring[vq.last % N], ![s].pc = "recheck"]
        BY <1>0, <4>1 DEF ResetSender
      <4>2. QED BY <1>0, <3>4, <4>1, ResetFrameDone DEF Resets!Pop
    <3>5. CASE Resets!Recheck(s)
      BY <1>0, <1>3, <3>5 DEF Resets!Recheck, ResetSender
    <3>6. CASE Resets!ReadDesc(s)
      BY <1>0, <1>3, <3>6 DEF Resets!ReadDesc, ResetSender
    <3>7. CASE Resets!PutBack(s)
      BY <1>0, <3>7, ResetFrameDone DEF Resets!PutBack
    <3>8. CASE Resets!WriteFrame(s)
      BY <1>0, <3>8 DEF Resets!WriteFrame, ResetSender
    <3>9. QED
      BY <1>8, <3>1, <3>2, <3>3, <3>4, <3>5, <3>6, <3>7, <3>8 DEF Resets!SendStep
  <2>3. Woken /\ Resets!Unseen  BY <1>1, <1>2, <2>1 DEF WakeInv, Resets!Unseen
  <2>4. QED BY <1>2, <1>4, <2>1, <2>2, <2>3 DEF Woken
<1>9. QED BY <1>5, <1>6, <1>7, <1>8

\* Messages, interrupts, polling, resets and removals lose no wake-up.
LEMMA ResetGuestWakes ==
  ASSUME ResetTypes, WakeInv,
         \/ Resets!MsgStep \/ Resets!IsrStep \/ Resets!PollStep
         \/ \E b \in Resets!Bufs : Resets!Publish(b)
         \/ Resets!ResetQueues \/ Resets!SetupStep \/ Resets!RemoveNic \/ Resets!DropVm
  PROVE  WakeInv'
<1> USE NetAssumption
<1> USE DEF Resets!Panic
<1>0. /\ vq \in [up : BOOLEAN, last : Index]
      /\ dev \in [activated : BOOLEAN, irt : BOOLEAN, irq : BOOLEAN]
      /\ msgs \in [n : Nat, handling : BOOLEAN]
      /\ avail \in ResetAvail /\ guest \in ResetGuest
  BY DEF ResetTypes
<1>1. CASE Resets!TakeMsg
  BY <1>0, <1>1 DEF Resets!TakeMsg, WakeInv, Woken, Resets!Unseen
<1>2. CASE Resets!HandleMsg
  BY <1>0, <1>2 DEF Resets!HandleMsg, Resets!Notified, WakeInv, Woken, Resets!Unseen, ResetAvail
<1>3. CASE Resets!Isr
  BY <1>0, <1>3 DEF Resets!Isr, WakeInv, Woken, Resets!Unseen, ResetGuest
<1>4. CASE Resets!Ack
  BY <1>0, <1>4 DEF Resets!Ack, WakeInv, Woken, ResetGuest
<1>5. CASE Resets!Schedule
  BY <1>0, <1>5 DEF Resets!Schedule, WakeInv, Woken, ResetGuest
<1>6. CASE Resets!Poll
  <2>1. guest'.napi \in {"poll", "recheck"} /\ (avail'.flags = 1 => guest'.napi = "poll") /\ guest'.phase = guest.phase /\ vq' = vq
    <3>1. CASE Resets!Unseen
      <4>1. guest.napi = "poll" /\ vq' = vq
            /\ \E i, f : guest' = [guest EXCEPT !.seen = i, !.free = f]
        BY <1>6, <3>1 DEF Resets!Poll
      <4>2. QED BY <1>0, <4>1 DEF ResetGuest
    <3>2. CASE ~Resets!Unseen
      <4>1. vq' = vq /\ guest' = [guest EXCEPT !.napi = "recheck"] /\ avail' = [avail EXCEPT !.flags = 0]
        BY <1>6, <3>2 DEF Resets!Poll
      <4>2. QED BY <1>0, <4>1 DEF ResetGuest, ResetAvail
    <3>3. QED BY <3>1, <3>2
  <2>2. QED BY <2>1 DEF WakeInv, Woken
<1>7. CASE Resets!PollEnd
  <2>1. /\ guest'.napi = IF Resets!Unseen THEN "poll" ELSE "off"
        /\ avail'.flags = IF Resets!Unseen THEN 1 ELSE 0
        /\ guest'.phase = guest.phase /\ guest'.seen = guest.seen /\ vq' = vq /\ used' = used
    BY <1>0, <1>7 DEF Resets!PollEnd, ResetGuest, ResetAvail
  <2>2. QED BY <2>1 DEF WakeInv, Woken, Resets!Unseen
<1>8. CASE \E b \in Resets!Bufs : Resets!Publish(b)
  <2>1. PICK b \in Resets!Bufs : Resets!Publish(b)  BY <1>8
  <2>2. /\ guest'.phase = guest.phase /\ guest'.isr = guest.isr /\ guest'.napi = guest.napi
        /\ guest'.seen = guest.seen /\ UNCHANGED <<vq, used, snd, msgs>>
        /\ dev'.irq = dev.irq /\ dev'.irt = TRUE /\ avail'.flags = avail.flags
    <3>1. /\ guest' = [guest EXCEPT !.free = guest.free \ {b}] /\ UNCHANGED <<vq, used, snd, msgs>>
          /\ dev' = [dev EXCEPT !.irt = TRUE]
          /\ \E r, i : avail' = [avail EXCEPT !.ring = r, !.idx = i]
      BY <2>1 DEF Resets!Publish
    <3>2. avail'.flags = avail.flags  BY <1>0, <3>1 DEF ResetAvail
    <3>3. QED BY <1>0, <3>1, <3>2 DEF ResetGuest
  <2>3. QED BY <2>2 DEF WakeInv, Woken, Resets!Unseen
<1>9. CASE Resets!ResetQueues
  BY <1>0, <1>9 DEF Resets!ResetQueues, WakeInv, Woken, ResetGuest
<1>10. CASE Resets!ResetActivated
  BY <1>0, <1>10 DEF Resets!ResetActivated, WakeInv, Woken, ResetGuest
<1>11. CASE Resets!SetupQueues
  <2>1. guest'.seen = 0 /\ used'.idx = 0 /\ vq'.up = TRUE /\ avail'.flags = 0
    BY <1>0, <1>11
       DEF Resets!SetupQueues, ResetGuest, Resets!FreshAvail, Resets!FreshUsed, Resets!FreshVq
  <2>2. QED BY <2>1 DEF WakeInv, Woken, Resets!Unseen
<1>12. CASE Resets!Activate
  <2>1. /\ guest'.phase = "up" /\ guest'.isr = guest.isr /\ guest'.napi = guest.napi /\ guest.phase = "setup"
        /\ guest'.seen = guest.seen /\ UNCHANGED <<vq, used, snd, msgs, avail>>
        /\ dev'.irq = dev.irq /\ dev'.irt = dev.irt
    BY <1>0, <1>12 DEF Resets!Activate, ResetGuest
  <2>2. QED BY <2>1 DEF WakeInv, Woken, Resets!Unseen
<1>13. CASE Resets!RemoveNic \/ Resets!DropVm
  BY <1>0, <1>13 DEF Resets!RemoveNic, Resets!DropVm, WakeInv, Woken, ResetGuest
<1>14. QED
  BY <1>1, <1>2, <1>3, <1>4, <1>5, <1>6, <1>7, <1>8, <1>9, <1>10, <1>11, <1>12, <1>13
     DEF Resets!MsgStep, Resets!IsrStep, Resets!PollStep, Resets!SetupStep

\* A step keeps FirstFrames, and a frame the guest takes is newer than what it has seen.
LEMMA ResetFramesStep ==
  ASSUME ResetTypes, FirstFrames, Resets!Next, ResetTypes'
  PROVE  /\ FirstFrames'
         /\ \A s \in Both : seen'[s] # seen[s] => seen'[s] > seen[s]
<1> USE NetAssumption
<1> USE DEF Resets!Panic
<1> DEFINE Kept == \A d \in 0 .. Behind' - 1 : data'[Filled(d)'.id].k = 1
           Order == \A s \in Both : seen'[s] # seen[s] => seen'[s] > seen[s]
<1>0. /\ used \in ResetUsed /\ used.idx \in Index /\ guest \in ResetGuest /\ guest.seen \in Index
      /\ data \in [Slots -> Resets!Frames] /\ snd \in [Both -> ResetSender]
      /\ Behind \in Nat /\ \A d \in Nat : (guest.seen + d) % N \in Slots /\ Filled(d).id \in Slots
  <2>1. used \in ResetUsed /\ used.idx \in Index /\ guest \in ResetGuest /\ guest.seen \in Index
        /\ data \in [Slots -> Resets!Frames] /\ snd \in [Both -> ResetSender]
    BY DEF ResetTypes, ResetUsed, ResetGuest
  <2>2. Behind \in 0 .. W - 1  BY <2>1, RingSteps DEF Behind
  <2>3. \A d \in Nat : (guest.seen + d) % N \in Slots  BY <2>1, RingSlots DEF Slots
  <2>4. QED BY <2>1, <2>2, <2>3 DEF Filled, Win, ResetUsed
<1>i. guest.seen \in Index /\ used.idx \in Index  BY <1>0
<1>b. Behind \in Nat  BY <1>0
<1>1. \A d \in 0 .. Behind - 1 : d \in Nat  BY <1>0
<1>2. ASSUME UNCHANGED <<used, data>>, guest'.seen = guest.seen PROVE Kept
  <2>1. Behind' = Behind /\ \A d \in Nat : Filled(d)' = Filled(d)  BY <1>2 DEF Behind, Filled
  <2>2. QED BY <1>1, <1>2, <2>1 DEF FirstFrames
<1>3. ASSUME NEW s \in Both, Resets!Transmit(s) \/ Resets!SendStep(s) PROVE FirstFrames' /\ Order
  <2>1. Moved(s) /\ guest' = guest /\ seen' = seen
    <3>1. guest' = guest /\ seen' = seen
      BY <1>3
         DEF Resets!SendStep, Resets!Transmit, Resets!CheckActivated, Resets!AvailIdx,
             Resets!Pop,
         Resets!Recheck, Resets!ReadDesc, Resets!PutBack, Resets!WriteFrame,
         Resets!UpdateUsedRing, Resets!NotifyTarget, Resets!NotifyLocal
    <3>2. QED BY <1>3, <3>1, SenderMoved
  <2>2. CASE Resets!WriteFrame(s)
    <3>1. snd[s].pc = "write" /\ data' = [data EXCEPT ![snd[s].buf] = [from |-> s, k |-> snd[s].k]] /\ used' = used
      BY <2>2 DEF Resets!WriteFrame
    <3>2. snd[s].k = 1 /\ snd[s].buf \in Slots  BY <3>1 DEF FirstFrames, Resting
    <3>3. \A b \in Slots : data'[b].k = IF b = snd[s].buf THEN 1 ELSE data[b].k
      BY <1>0, <3>1, <3>2
    <3>4. Behind' = Behind /\ \A d \in Nat : Filled(d)' = Filled(d)
      BY <2>1, <3>1
         DEF Behind, Filled
    <3>5. Kept  BY <1>0, <1>1, <3>3, <3>4 DEF FirstFrames
    <3>6. \A t \in Both : snd'[t].pc = "used" => snd'[t].buf \in Slots /\ data'[snd'[t].buf].k = 1
      <4>1. CASE snd'[s].pc = "used"
        BY <2>1, <3>2, <3>3, <4>1 DEF Moved, FirstFrames
      <4>2. QED BY <2>1, <3>3, <4>1 DEF Moved, FirstFrames
    <3>7. QED BY <2>1, <3>5, <3>6 DEF FirstFrames, Moved, Held
  <2>3. CASE ~Resets!WriteFrame(s)
    <3>1. data' = data
      BY <1>3, <2>3
         DEF Resets!SendStep, Resets!Transmit, Resets!CheckActivated, Resets!AvailIdx,
             Resets!Pop,
         Resets!Recheck, Resets!ReadDesc, Resets!PutBack,
         Resets!UpdateUsedRing, Resets!NotifyTarget, Resets!NotifyLocal
    <3>2. snd'[s].pc = "used" => snd[s].pc = "used"
      <4>1. snd[s].pc = "write" => Resets!WriteFrame(s)
        BY <1>3
           DEF Resets!SendStep, Resets!Transmit, Resets!CheckActivated, Resets!AvailIdx,
               Resets!Pop,
         Resets!Recheck, Resets!ReadDesc, Resets!PutBack,
         Resets!UpdateUsedRing, Resets!NotifyTarget, Resets!NotifyLocal
      <4>2. QED BY <2>1, <2>3, <4>1 DEF Moved
    <3>3. \A t \in Both : snd'[t].pc = "used" => data'[snd'[t].buf].k = 1
      BY <2>1, <3>1, <3>2 DEF Moved, FirstFrames
    <3>4. Kept
      <4>1. CASE used' = used  BY <1>2, <2>1, <3>1, <4>1
      <4> DEFINE rec == [id |-> snd[s].buf, frame |-> [from |-> s, k |-> snd[s].k]]
                 ring == [used.ring EXCEPT ![used.idx % N] = rec]
      <4>2. CASE snd[s].pc = "used" /\ used' = [ring |-> ring, idx |-> Resets!Inc(used.idx)]
        <5>1. data[rec.id].k = 1  BY <4>2 DEF FirstFrames
        <5>2. /\ Behind < W - 1 => Stream!Distance(guest.seen, Stream!Inc(used.idx)) = Behind + 1
              /\ Behind = W - 1 => Stream!Distance(guest.seen, Stream!Inc(used.idx)) = 0
              /\ Behind \in 0 .. W - 1
          <6>1. \A i, j \in Index :
                  /\ Stream!Distance(i, j) < W - 1 => Stream!Distance(i, Stream!Inc(j)) = Stream!Distance(i, j) + 1
                  /\ Stream!Distance(i, j) = W - 1 => Stream!Distance(i, Stream!Inc(j)) = 0
                  /\ Stream!Distance(i, j) \in 0 .. W - 1
            BY RingSteps
          <6>2. QED BY <1>i, <6>1 DEF Behind
        <5>3. used.idx % N = (guest.seen + Behind) % N  BY <1>0, RingSlots DEF Behind
        <5>4. Behind' \in {0, Behind + 1}
          <6>1. Behind' = Stream!Distance(guest.seen, Stream!Inc(used.idx))
            BY <2>1, <4>2, SameIndices DEF Behind
          <6>2. W \in Nat  BY DEF NetConstants
          <6>3. QED BY <5>2, <6>1, <6>2
        <5> HIDE DEF rec
        <5>5. ASSUME NEW d \in 0 .. Behind' - 1 PROVE data'[Filled(d)'.id].k = 1
          <6>1. d \in Nat /\ (d \in 0 .. Behind - 1 \/ d = Behind)
            <7>1. CASE Behind' = 0  BY <7>1
            <7>2. CASE Behind' = Behind + 1  BY <1>b, <7>2
            <7>3. QED BY <5>4, <7>1, <7>2
          <6>2. (guest.seen + d) % N \in Slots  BY <1>0, <6>1
          <6>3. Filled(d)' = ring[(guest.seen + d) % N]
            <7>1. used'.ring = ring /\ guest'.seen = guest.seen  BY <2>1, <4>2
            <7> HIDE DEF ring
            <7>2. QED BY <7>1 DEF Filled, Win
          <6>4. CASE (guest.seen + d) % N = used.idx % N
            <7>1. Filled(d)' = rec  BY <1>0, <6>2, <6>3, <6>4 DEF ResetUsed
            <7>2. QED BY <3>1, <5>1, <7>1
          <6>5. CASE (guest.seen + d) % N # used.idx % N
            <7>1. Filled(d)' = Filled(d)  BY <1>0, <6>2, <6>3, <6>5 DEF ResetUsed, Filled, Win
            <7>2. d \in 0 .. Behind - 1  BY <5>3, <6>1, <6>5
            <7>3. QED BY <3>1, <7>1, <7>2 DEF FirstFrames
          <6>6. QED BY <6>4, <6>5
        <5>6. QED BY <5>5
      <4>3. QED
        BY <1>3, <4>1, <4>2
           DEF Resets!SendStep, Resets!Transmit, Resets!CheckActivated, Resets!AvailIdx,
               Resets!Pop,
         Resets!Recheck, Resets!ReadDesc, Resets!PutBack, Resets!WriteFrame,
         Resets!UpdateUsedRing, Resets!NotifyTarget, Resets!NotifyLocal
    <3>5. QED BY <2>1, <3>3, <3>4 DEF FirstFrames, Moved, Held
  <2>4. QED BY <2>2, <2>3
<1>4. ASSUME UNCHANGED <<snd, data>>, Kept PROVE FirstFrames'
  BY <1>4 DEF FirstFrames
<1>5. ASSUME Resets!Poll, Resets!Unseen PROVE FirstFrames' /\ Order
  <2> DEFINE e0 == used.ring[guest.seen % N]
  <2>1. /\ guest' = [guest EXCEPT !.seen = Stream!Inc(guest.seen), !.free = guest.free \cup {e0.id}]
        /\ seen' = [seen EXCEPT ![data[e0.id].from] = data[e0.id].k]
        /\ UNCHANGED <<used, data, snd>> /\ guest.seen # used.idx
    BY <1>5, SameIndices DEF Resets!Poll, Resets!Unseen
  <2>2. guest'.seen = Stream!Inc(guest.seen)  BY <1>0, <2>1 DEF ResetGuest
  <2>3. /\ Stream!Distance(guest.seen, used.idx) \in Nat \ {0}
        /\ Stream!Distance(Stream!Inc(guest.seen), used.idx) = Stream!Distance(guest.seen, used.idx) - 1
        /\ \A d \in Nat : Win(used.ring, Stream!Inc(guest.seen), d) = Win(used.ring, guest.seen, d + 1)
        /\ Win(used.ring, guest.seen, 0) = e0
    BY <1>0, <2>1, WindowShrinks
  <2>4. Behind' = Behind - 1 /\ \A d \in Nat : Filled(d)' = Filled(d + 1)
    BY <2>1, <2>2, <2>3 DEF Behind, Filled
  <2>5. Kept
    <3>1. \A d \in 0 .. Behind' - 1 : d \in Nat /\ d + 1 \in 0 .. Behind - 1  BY <1>0, <2>4
    <3>2. QED BY <2>1, <2>4, <3>1 DEF FirstFrames
  <2>6. e0 = Filled(0) /\ 0 \in 0 .. Behind - 1  BY <1>0, <2>3 DEF Filled, Behind
  <2>7. data[e0.id].k = 1  BY <2>6 DEF FirstFrames
  <2> HIDE DEF e0
  <2>8. Order
    <3>1. seen \in [Both -> 0 .. 1]  BY DEF ResetTypes
    <3>2. QED BY <2>1, <2>7, <3>1
  <2>9. QED BY <1>4, <2>1, <2>5, <2>8
<1>6. ASSUME Resets!SetupQueues PROVE FirstFrames' /\ Order
  <2>1. guest'.seen = 0 /\ used'.idx = 0 /\ UNCHANGED <<snd, data, seen>>
    BY <1>0, <1>6 DEF Resets!SetupQueues, ResetGuest, Resets!FreshUsed
  <2>2. Behind' = 0
    <3>1. 0 \in Index  BY DEF Index, NetConstants
    <3>2. QED BY <2>1, <3>1, RingSteps DEF Behind
  <2>3. QED BY <1>4, <2>1, <2>2
<1>7. ASSUME \/ Resets!MsgStep \/ Resets!IsrStep \/ Resets!PollEnd \/ (Resets!Poll /\ ~Resets!Unseen)
             \/ (\E b \in Resets!Bufs : Resets!Publish(b))
             \/ Resets!ResetQueues \/ Resets!ResetActivated \/ Resets!Activate
             \/ Resets!RemoveNic \/ Resets!DropVm
      PROVE  FirstFrames' /\ Order
  <2>1. UNCHANGED <<used, data, snd, seen>>
    BY <1>7
       DEF Resets!MsgStep, Resets!TakeMsg, Resets!HandleMsg, Resets!IsrStep, Resets!Isr,
           Resets!Ack,
       Resets!Schedule, Resets!PollEnd, Resets!Poll, Resets!Publish, Resets!ResetQueues,
       Resets!ResetActivated, Resets!Activate, Resets!RemoveNic, Resets!DropVm
  <2>2. guest'.seen = guest.seen
    BY <1>0, <1>7
       DEF Resets!MsgStep, Resets!TakeMsg, Resets!HandleMsg, Resets!IsrStep, Resets!Isr,
           Resets!Ack,
       Resets!Schedule, Resets!PollEnd, Resets!Poll, Resets!Publish, Resets!ResetQueues,
       Resets!ResetActivated, Resets!Activate, Resets!RemoveNic, Resets!DropVm, ResetGuest
  <2>3. QED BY <1>2, <1>4, <2>1, <2>2
<1>8. QED
  BY <1>3, <1>5, <1>6, <1>7 DEF Resets!Next, Resets!PollStep, Resets!SetupStep, Both

\* The stream starts with all buffers at the guest.
LEMMA StreamStarts ==
  ASSUME Stream!Init
  PROVE  StreamInv
<1> USE NetAssumption
<1>0. /\ N \in Nat \ {0} /\ W \in Nat /\ W > N /\ MaxFrames \in Nat /\ NoBuf \notin Slots
      /\ 0 \in Index /\ 0 \in Slots
  BY DEF NetConstants, Index, Slots
<1>1. (CHOOSE s \in {Remote} : TRUE) \in {Remote}  OBVIOUS
<1>2. Stream!NoFrame(CHOOSE s \in {Remote} : TRUE) \in Stream!Frames
  BY <1>0, <1>1 DEF Stream!NoFrame, Stream!Frames
<1>3. /\ Sender = [pc |-> "idle", k |-> 0, todo |-> 0, av |-> 0, buf |-> NoBuf, owed |-> FALSE]
      /\ seen[Remote] = 0 /\ guest.free = Slots
      /\ vq.last = 0 /\ avail.idx = 0 /\ guest.seen = 0 /\ used.idx = 0
  BY
     DEF Stream!Init, Stream!IdleSender, Sender, Stream!FreshVq, Stream!FreshAvail,
         Stream!FreshUsed,
     Stream!Bufs, Slots
<1>4. StreamTypes
  <2>1. used \in [ring : [Slots -> [id : Slots, frame : Stream!Frames]], idx : Index]
    BY <1>0, <1>2 DEF Stream!Init, Stream!FreshUsed, Stream!Slots, Slots
  <2>2. avail \in [ring : [Slots -> Slots], idx : Index, flags : {0, 1}]
    BY <1>0 DEF Stream!Init, Stream!FreshAvail, Stream!Slots, Slots
  <2>3. data \in [Slots -> Stream!Frames]  BY <1>2 DEF Stream!Init, Stream!Bufs, Slots
  <2>4. snd \in [{Remote} -> [pc : Stream!SenderPcs, k : 0 .. MaxFrames, todo : 0 .. 2,
                             av : Index, buf : Slots \cup {NoBuf}, owed : BOOLEAN]]
    BY <1>0 DEF Stream!Init, Stream!IdleSender, Stream!SenderPcs
  <2>5. vq \in [up : {TRUE}, last : Index] /\ dev \in [activated : {TRUE}, irt : BOOLEAN, irq : BOOLEAN]
    BY <1>0 DEF Stream!Init, Stream!FreshVq
  <2>6. guest \in [phase : {"up"}, free : SUBSET Slots, seen : Index,
                  isr : {"none", "ack", "sched"}, napi : {"off", "poll", "recheck"}]
    BY <1>0 DEF Stream!Init, Stream!Bufs, Slots
  <2>7. seen \in [{Remote} -> 0 .. MaxFrames]  BY <1>0 DEF Stream!Init
  <2>8. QED BY <2>1, <2>2, <2>3, <2>4, <2>5, <2>6, <2>7 DEF StreamTypes
<1>5. Ahead = 0 /\ Behind = 0  BY <1>0, <1>3, RingSteps DEF Ahead, Behind
<1>6. AtRest /\ ~Holding  BY <1>3 DEF AtRest, Holding
<1>7. SenderOK  BY <1>0, <1>3, <1>6 DEF SenderOK
<1>8. Partition  BY <1>0, <1>3, <1>5 DEF Partition
<1>9. FramesOK  BY <1>3, <1>5, <1>6 DEF FramesOK
<1>10. QED BY <1>4, <1>7, <1>8, <1>9 DEF StreamInv

\* Every step of the stream keeps its invariant.
LEMMA StreamSteps ==
  ASSUME StreamInv, Stream!Next
  PROVE  StreamInv' /\ (seen'[Remote] # seen[Remote] => seen'[Remote] > seen[Remote])
<1> USE NetAssumption
<1>0. guest.phase = "up" /\ vq.up = TRUE  BY DEF StreamInv, StreamTypes
<1>1. CASE Stream!Poll /\ Stream!Unseen  BY <1>1, StepPoll
<1>2. CASE Stream!Transmit(Remote) \/ Stream!SendStep(Remote)
  <2>1. StreamInv'
    BY <1>2, StepSend, StepPop, StepPutBack, StepWrite, StepUsed DEF Stream!SendStep
  <2>2. seen' = seen
    BY <1>2
       DEF Stream!SendStep, Stream!Transmit, Stream!CheckActivated, Stream!AvailIdx, Stream!Pop,
         Stream!Recheck, Stream!ReadDesc, Stream!PutBack, Stream!WriteFrame,
         Stream!UpdateUsedRing, Stream!NotifyTarget, Stream!NotifyLocal, Stream!Panic
  <2>3. QED BY <2>1, <2>2
<1>3. CASE Stream!MsgStep \/ Stream!IsrStep \/ Stream!PollEnd \/ (Stream!Poll /\ ~Stream!Unseen)
  <2>1. seen' = seen
    BY <1>3
       DEF Stream!MsgStep, Stream!TakeMsg, Stream!HandleMsg, Stream!IsrStep, Stream!Isr,
           Stream!Ack,
       Stream!Schedule, Stream!PollEnd, Stream!Poll, Stream!Panic
  <2>2. QED BY <1>3, <2>1, StepGuest
<1>4. CASE \E b \in Stream!Bufs : Stream!Publish(b)
  <2>1. PICK b \in Slots : Stream!Publish(b)  BY <1>4 DEF Stream!Bufs, Slots
  <2>2. seen' = seen  BY <2>1 DEF Stream!Publish
  <2>3. QED BY <2>1, <2>2, StepPublish
<1>5. ~Stream!ResetQueues /\ ~Stream!SetupStep /\ ~Stream!RemoveNic /\ ~Stream!DropVm
  BY <1>0 DEF Stream!ResetQueues, Stream!SetupStep, Stream!ResetActivated, Stream!SetupQueues,
     Stream!Activate, Stream!RemoveNic, Stream!DropVm
<1>6. QED BY <1>1, <1>2, <1>3, <1>4, <1>5 DEF Stream!Next, Stream!PollStep

\* A set whose elements are all equal has one element or none.
LEMMA ExactlyOne ==
  ASSUME NEW S, \A x, y \in S : x = y
  PROVE  (S # {} => Cardinality(S) = 1) /\ (S = {} => Cardinality(S) = 0)
<1>1. ASSUME S # {} PROVE Cardinality(S) = 1
  <2>1. PICK x : x \in S  BY <1>1
  <2>2. S = {x}  BY <2>1
  <2>3. QED BY <2>2, FS_Singleton
<1>2. QED BY <1>1, FS_EmptySet

\* The invariant puts each buffer in exactly one place.
LEMMA EachBufferOnce ==
  ASSUME StreamInv
  PROVE  Stream!BufferOnce /\ Stream!PayloadIntact
<1> USE NetAssumption
<1>0. Behind \in Nat /\ Ahead \in Nat  BY Rings
<1>1. Stream!PayloadIntact
  BY DEF Stream!PayloadIntact, StreamInv, FramesOK, Behind, Filled, Win
<1>2. ASSUME NEW b \in Slots PROVE Stream!Places(b) = 1
  <2> DEFINE P == Stream!Published(b)
             H == Stream!Holders(b)
             R == Stream!Reported(b)
  <2>1. P = {d \in 0 .. Ahead - 1 : Offered(d) = b}  BY DEF Stream!Published, Ahead, Offered, Win
  <2>2. R = {d \in 0 .. Behind - 1 : Filled(d).id = b}
    BY
       DEF Stream!Reported, Behind, Filled, Win
  <2>3. H = IF Sender.buf = b THEN {Remote} ELSE {}  BY DEF Stream!Holders, Sender
  <2>4. /\ \A x, y \in P : x = y
        /\ \A x, y \in R : x = y
        /\ \A x, y \in H : x = y
    BY <2>1, <2>2, <2>3 DEF StreamInv, Partition
  <2>5. /\ b \in guest.free => P = {} /\ R = {} /\ H = {}
        /\ P # {} => b \notin guest.free /\ R = {} /\ H = {}
        /\ R # {} => b \notin guest.free /\ P = {} /\ H = {}
        /\ b \in guest.free \/ P # {} \/ R # {} \/ H # {}
    BY <2>1, <2>2, <2>3 DEF StreamInv, Partition
  <2>6. /\ (P # {} => Cardinality(P) = 1) /\ (P = {} => Cardinality(P) = 0)
        /\ (R # {} => Cardinality(R) = 1) /\ (R = {} => Cardinality(R) = 0)
        /\ (H # {} => Cardinality(H) = 1) /\ (H = {} => Cardinality(H) = 0)
    BY <2>4, ExactlyOne
  <2> HIDE DEF P, R, H
  <2>7. (IF b \in guest.free THEN 1 ELSE 0) + Cardinality(P) + Cardinality(H) + Cardinality(R) = 1
    BY <2>5, <2>6
  <2>8. Stream!Places(b) = (IF b \in guest.free THEN 1 ELSE 0) + Cardinality(P) + Cardinality(H) + Cardinality(R)
    BY DEF Stream!Places, P, R, H, Stream!Cardinality, Cardinality
  <2>9. QED BY <2>7, <2>8
<1>3. QED BY <1>1, <1>2 DEF Stream!BufferOnce, Stream!Bufs, Slots

\* The setting with resets starts with a queue that is up and empty.
LEMMA ResetsStart ==
  ASSUME Resets!Init
  PROVE  ResetInv
<1> USE NetAssumption
<1>0. /\ N \in Nat \ {0} /\ W \in Nat /\ W > N /\ 0 \in Index /\ 0 \in Slots
  BY DEF NetConstants, Index, Slots
<1>1. (CHOOSE s \in Both : TRUE) \in Both  BY DEF Both
<1>2. Resets!NoFrame(CHOOSE s \in Both : TRUE) \in Resets!Frames
  BY <1>1 DEF Resets!NoFrame, Resets!Frames, Both
<1>3. /\ \A s \in Both : snd[s] = [pc |-> "idle", k |-> 0, todo |-> 0, av |-> 0, buf |-> NoBuf, owed |-> FALSE]
      /\ guest.seen = 0 /\ used.idx = 0 /\ avail.flags = 0 /\ vq.up = TRUE
  BY DEF Resets!Init, Resets!IdleSender, Both, Resets!FreshVq, Resets!FreshAvail, Resets!FreshUsed
<1>4. ResetTypes
  <2>1. used \in ResetUsed
    BY <1>0, <1>2 DEF Resets!Init, Resets!FreshUsed, Resets!Slots, Slots, ResetUsed, Both
  <2>2. avail \in ResetAvail
    BY <1>0 DEF Resets!Init, Resets!FreshAvail, Resets!Slots, Slots, ResetAvail
  <2>3. data \in [Slots -> Resets!Frames]  BY <1>2 DEF Resets!Init, Resets!Bufs, Slots, Both
  <2>4. snd \in [Both -> ResetSender]
    BY <1>0 DEF Resets!Init, Resets!IdleSender, Resets!SenderPcs, Both, ResetSender
  <2>5. vq \in [up : BOOLEAN, last : Index] /\ dev \in [activated : BOOLEAN, irt : BOOLEAN, irq : BOOLEAN]
    BY <1>0 DEF Resets!Init, Resets!FreshVq
  <2>6. guest \in ResetGuest  BY <1>0 DEF Resets!Init, Resets!Bufs, Slots, ResetGuest
  <2>7. seen \in [Both -> 0 .. 1] /\ msgs \in [n : Nat, handling : BOOLEAN]
    BY
       DEF Resets!Init, Both
  <2>8. QED BY <2>1, <2>2, <2>3, <2>4, <2>5, <2>6, <2>7 DEF ResetTypes
<1>5. Behind = 0  BY <1>0, <1>3, RingSteps DEF Behind
<1>6. FirstFrames  BY <1>3, <1>5 DEF FirstFrames, Resting
<1>7. WakeInv  BY <1>3 DEF WakeInv, Woken, Resets!Unseen
<1>8. QED BY <1>4, <1>6, <1>7 DEF ResetInv

\* Every step of the setting with resets keeps its invariant.
LEMMA ResetsSteps ==
  ASSUME ResetInv, Resets!Next
  PROVE  ResetInv' /\ \A s \in Both : seen'[s] # seen[s] => seen'[s] > seen[s]
<1> USE NetAssumption
<1>1. ResetTypes' /\ WakeInv'
  <2>1. CASE \E s \in Both : Resets!Transmit(s) \/ Resets!SendStep(s)
    BY <2>1, ResetSendTypes, ResetSendWakes DEF ResetInv
  <2>2. CASE \/ Resets!MsgStep \/ Resets!IsrStep \/ Resets!PollStep
             \/ \E b \in Resets!Bufs : Resets!Publish(b)
             \/ Resets!ResetQueues \/ Resets!SetupStep \/ Resets!RemoveNic \/ Resets!DropVm
    BY <2>2, ResetGuestTypes, ResetGuestWakes DEF ResetInv
  <2>3. QED BY <2>1, <2>2 DEF Resets!Next, Both
<1>2. QED BY <1>1, ResetFramesStep DEF ResetInv

-----------------------------------------------------------------------------
(* The theorems.                                                           *)

\* The invariant of either setting.
NetInv ==
    /\ question = "stream" => StreamInv
    /\ question = "resets" => ResetInv

\* It holds at the start.
LEMMA NetStarts == Init => NetInv
BY StreamStarts, ResetsStart DEF Init, NetInv

\* Every step keeps it, and takes only newer frames.
LEMMA NetSteps ==
  ASSUME NetInv, [Next]_vars
  PROVE  NetInv' /\ [\A s \in {Remote} : seen'[s] # seen[s] => seen'[s] > seen[s]]_seen
<1>1. CASE UNCHANGED vars
  <2>1. UNCHANGED <<question, vq, dev, avail, used, data, guest, snd, msgs, seen>>
    BY <1>1 DEF vars, netVars
  <2>2. (StreamInv' <=> StreamInv) /\ (ResetInv' <=> ResetInv)
    BY <2>1 DEF StreamInv, StreamTypes, SenderOK, Partition, FramesOK, Sender, AtRest, Holding,
       Ahead, Behind, Offered, Filled, ResetInv, ResetTypes, WakeInv, Woken, FirstFrames, Resets!Unseen
  <2>3. QED BY <2>1, <2>2 DEF NetInv
<1>2. CASE Next
  <2>1. CASE question = "stream"
    BY <1>2, <2>1, StreamSteps DEF Next, NetInv
  <2>2. CASE question = "resets"
    BY <1>2, <2>2, ResetsSteps DEF Next, NetInv, Both
  <2>3. CASE question \notin {"stream", "resets"}
    BY <1>2, <2>3 DEF Next, NetInv, netVars
  <2>4. QED BY <2>1, <2>2, <2>3
<1>3. QED BY <1>1, <1>2

\* Every receive buffer is in one place and keeps its frame until the guest takes
\* it, and a guest that sleeps over a frame has a wake-up on its way: for every
\* ring size, index width and number of frames.
THEOREM BuffersSafeHolds == Spec => []BuffersSafe
<1>1. NetInv => BuffersSafe
  BY EachBufferOnce
     DEF NetInv, BuffersSafe, ResetInv, WakeInv, Woken, Resets!NoLostNotification, Both
<1>2. NetInv /\ [Next]_vars => NetInv'
  BY NetSteps
<1>3. QED BY <1>1, <1>2, NetStarts, PTL DEF Spec

\* The guest sees the frames of a sender in the order they were sent, over any
\* number of wraps of the ring's indices.
THEOREM InOrderHolds == Spec => InOrder
<1>1. NetInv /\ [Next]_vars =>
        NetInv' /\ [\A s \in {Remote} : seen'[s] # seen[s] => seen'[s] > seen[s]]_seen
  BY NetSteps
<1>2. QED BY <1>1, NetStarts, PTL DEF Spec, InOrder, Stream!InOrder
=============================================================================
