--------------------------- MODULE Fragmentation ---------------------------
(* How many packets a request is cut into, as the four places compute it that *)
(* have to agree: num_psn of the rdma worker, the chunk fragmenter, the       *)
(* packet fragmenter of the retransmit worker, and the address chunker of the *)
(* card.  Addresses are remote addresses.                                     *)
EXTENDS Integers

CONSTANTS PMTU,         \* bytes of a packet
          CHUNK_SIZE    \* WR_CHUNK_SIZE, bytes of a chunk

\* WR_CHUNK_SIZE is a multiple of every PMTU
FragmentAssumption ==
  /\ PMTU \in Nat \ {0} /\ CHUNK_SIZE \in Nat \ {0} /\ (CHUNK_SIZE % PMTU) = 0

DivCeil(a, b) == (a + b - 1) \div b
AlignDown(a) == a - (a % PMTU)
Least(a, b) == IF a < b THEN a ELSE b
Most(a, b) == IF a > b THEN a ELSE b

NumPsn_ZeroFree(addr, len) ==
  LET gap == AlignDown(addr + PMTU - 1) - addr
  IN DivCeil(IF len >= gap THEN len - gap ELSE len, PMTU)

\* num_psn: the partial packet in front of the first aligned address (gap) is
\* taken off the length, and a request needs at least one packet.
NumPsn(addr, len) ==
  LET gap == AlignDown(addr + PMTU - 1) - addr
  IN Most(DivCeil(IF len >= gap THEN len - gap ELSE len, PMTU), 1)

\* Fragmenter::num_segments
NumSegments(size, addr, len) ==
  IF len = 0 THEN 1
  ELSE DivCeil(Most(addr + len - AlignDown(addr + size), 0), size) + 1

\* Fragmenter::into_iter, with the packet sequence number of IntoIterChunk
Fragments(size, addr, len, psn) ==
  LET n == NumSegments(size, addr, len)
  IN [size |-> size, addr |-> addr, end |-> addr + len, count |-> n, psn |-> psn,
      pos |-> IF n = 1 THEN "only" ELSE "first"]

\* IntoIter::next and IntoIterChunk::next: the chunk at the current address
Chunk(it) ==
  [addr |-> it.addr, len |-> Least(AlignDown(it.addr + it.size), it.end) - it.addr,
   psn |-> it.psn, first |-> it.pos \in {"first", "only"}, last |-> it.pos \in {"last", "only"}]

Advanced_ByLength(it) ==
  LET c == Chunk(it)
  IN [it EXCEPT !.addr = @ + c.len, !.count = @ - 1, !.psn = @ + c.len \div PMTU,
        !.pos = IF @ = "only" THEN "only" ELSE IF it.count = 2 \/ @ = "last" THEN "last" ELSE "middle"]

\* ... and the iterator after it
Advanced(it) ==
  LET c == Chunk(it)
  IN [it EXCEPT !.addr = @ + c.len, !.count = @ - 1, !.psn = @ + DivCeil(c.len, PMTU),
        !.pos = IF @ = "only" THEN "only" ELSE IF it.count = 2 \/ @ = "last" THEN "last" ELSE "middle"]

\* mkAddressChunker, preCalc: packets of a chunk after the first
ZeroBasedChunkCnt(addr, len) == ((addr + len - 1) \div PMTU) - (addr \div PMTU)
=============================================================================
