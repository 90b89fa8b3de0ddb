------------------------------ MODULE IovCopy ------------------------------
(***************************************************************************)
(* VirtioIov::write_through_iov (device/virtio/iov.rs): the copy of a      *)
(* frame from the segments of a transmit chain to the segments of a        *)
(* receive chain, one action per turn of its loop.  A pointer is a segment *)
(* and an offset in it; the bytes copied are recorded as pairs of          *)
(* positions in the two flattened chains.                                  *)
(***************************************************************************)
EXTENDS Integers, Sequences

CONSTANTS MaxSegments, MaxLen   \* segments of a chain, bytes of a segment (bounds)

VARIABLES src, dst,       \* lengths of the segments
          sIdx, dIdx,     \* segments at hand, from 1
          sPtr, dPtr,     \* segment and offset each pointer points to
          sRem, dRem,     \* src_vlen_remain, dst_vlen_remain
          remain,         \* bytes still to copy
          copied          \* positions copied: <<of destination, of source>>

copyVars == <<src, dst, sIdx, dIdx, sPtr, dPtr, sRem, dRem, remain, copied>>

\* Where segment i starts in the flattened chain, and the chain's length.
Start(segs, i) ==
  LET upto[k \in 0..Len(segs)] == IF k = 0 THEN 0 ELSE upto[k - 1] + segs[k]
  IN  upto[i - 1]
Total(segs) == Start(segs, Len(segs) + 1)
Chains == UNION {[1..n -> 0..MaxLen] : n \in 1..MaxSegments}

(* ethernet_send_to collects receive segments until they hold the frame: no *)
(* segment after the one that reaches its length.                           *)
Holds(d, len) == Total(d) >= len /\ (Len(d) > 1 => Start(d, Len(d)) < len)

CopyInit ==
  /\ src \in Chains /\ dst \in Chains
  /\ Total(src) > 0 /\ Holds(dst, Total(src))
  /\ sIdx = 1 /\ dIdx = 1
  /\ sPtr = <<1, 0>> /\ dPtr = <<1, 0>>
  /\ sRem = src[1] /\ dRem = dst[1]
  /\ remain = Total(src)
  /\ copied = {}

Bytes(n) == {<<Start(dst, dPtr[1]) + dPtr[2] + i, Start(src, sPtr[1]) + sPtr[2] + i>> : i \in 0..(n - 1)}
Forward(p, n) == <<p[1], p[2] + n>>
Going == remain > 0 /\ dIdx <= Len(dst) /\ sIdx <= Len(src)

NextSourceKeepsPtr ==
  /\ Going /\ dRem > sRem
  /\ copied' = copied \cup Bytes(sRem)
  /\ sIdx' = sIdx + 1
  /\ IF sIdx' <= Len(src)
     THEN sPtr' = <<sIdx', 0>> /\ sRem' = src[sIdx'] /\ dRem' = dRem - sRem
     ELSE UNCHANGED <<sPtr, sRem, dRem>>
  /\ remain' = remain - sRem
  /\ UNCHANGED <<src, dst, dIdx, dPtr>>

(* The source segment ends first: the rest of it, then the next one. *)
NextSource ==
  /\ Going /\ dRem > sRem
  /\ copied' = copied \cup Bytes(sRem)
  /\ sIdx' = sIdx + 1
  /\ IF sIdx' <= Len(src)
     THEN /\ sPtr' = <<sIdx', 0>> /\ sRem' = src[sIdx']
          /\ dPtr' = Forward(dPtr, sRem) /\ dRem' = dRem - sRem
     ELSE UNCHANGED <<sPtr, sRem, dPtr, dRem>>
  /\ remain' = remain - sRem
  /\ UNCHANGED <<src, dst, dIdx>>

(* The destination segment is filled, by a source segment that may end with *)
(* it.  A source segment of no bytes is stepped over.                       *)
NextDest ==
  /\ Going /\ dRem <= sRem
  /\ copied' = copied \cup Bytes(dRem)
  /\ dIdx' = dIdx + 1
  /\ LET more == dIdx' <= Len(dst)
         skip == src[sIdx] = 0
         sPtr1 == IF more THEN Forward(sPtr, dRem) ELSE sPtr
         sRem1 == IF more THEN sRem - dRem ELSE sRem
     IN  /\ dPtr' = IF more THEN <<dIdx', 0>> ELSE dPtr
         /\ dRem' = IF more THEN dst[dIdx'] ELSE dRem
         /\ sIdx' = IF skip THEN sIdx + 1 ELSE sIdx
         /\ IF skip /\ sIdx' <= Len(src)
            THEN sPtr' = <<sIdx', 0>> /\ sRem' = src[sIdx']
            ELSE sPtr' = sPtr1 /\ sRem' = sRem1
  /\ remain' = remain - dRem
  /\ UNCHANGED <<src, dst>>

CopyNext == NextSource \/ NextDest
CopySpec == CopyInit /\ [][CopyNext]_copyVars

----------------------------------------------------------------------------
(* Properties *)

(* What was copied so far is a prefix of the frame, each byte to its own    *)
(* place, and never more than is left: the memcpy of a turn stays within    *)
(* both segments at every split of the two chains.                          *)
CopiesPrefix ==
  LET done == Total(src) - remain
  IN  remain >= 0 /\ copied = {<<i, i>> : i \in 0..(done - 1)}

(* When the loop stops, nothing remains: write_through_iov returns 0 for    *)
(* every chain ethernet_send_to accepts.                                    *)
StopsComplete == ~Going => remain = 0

(* write_through_iov copies each byte of the frame to its place and nothing *)
(* else, and leaves nothing uncopied, however the two chains are split.     *)
CopyExact == CopiesPrefix /\ StopsComplete

=============================================================================
