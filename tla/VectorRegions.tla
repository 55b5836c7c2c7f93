---------------------------- MODULE VectorRegions ---------------------------
(***************************************************************************)
(* Where margo-p2p-vector.c differs from margo-p2p-bw.c: the buffer of     *)
(* xfer_size bytes is registered as a vector of regions, every transfer is *)
(* of the whole vector, and workers and pattern checks reckon with one     *)
(* transfer where margo-p2p-bw reckons with a ring of them.  Its transfer  *)
(* phase is BwTransfer with BufSize = XferSize, the rest of it BwBenchmark *)
(* with Slots = 1 and MmapBuffer = FALSE.                                  *)
(***************************************************************************)
EXTENDS Integers

(* parse_args.  The remainder is taken before anything is known of the     *)
(* length, which is not compared with 0 at all: a length of 0 ends the     *)
(* program with a division by zero instead of the usage message.           *)
VectorAccepted(xfer_size, vector_len) ==
    /\ vector_len >= 1
    /\ xfer_size % vector_len = 0
    /\ xfer_size >= 1

RegionSize(xfer_size, vector_len) == xfer_size \div vector_len

(* buf_ptrs[i], as an offset from the buffer, and the byte behind it. *)
RegionStart(i, xfer_size, vector_len) == RegionSize(xfer_size, vector_len) * i

RegionEnd(i, xfer_size, vector_len) ==
    RegionStart(i, xfer_size, vector_len) + RegionSize(xfer_size, vector_len)

Region(i, xfer_size, vector_len) ==
    RegionStart(i, xfer_size, vector_len) .. (RegionEnd(i, xfer_size, vector_len) - 1)

(* A transfer of xfer_size bytes from the start of the vector moves every  *)
(* byte of the buffer once: each byte is in one region, and the bytes of a *)
(* region follow those of the one before it.                               *)
Tiles(xfer_size, vector_len) ==
    /\ RegionStart(0, xfer_size, vector_len) = 0
    /\ \A i \in 0..(vector_len - 2) :
           RegionStart(i + 1, xfer_size, vector_len) = RegionEnd(i, xfer_size, vector_len)
    /\ RegionEnd(vector_len - 1, xfer_size, vector_len) = xfer_size

InOneRegion(b, xfer_size, vector_len) ==
    \E i \in 0..(vector_len - 1) :
        /\ b \in Region(i, xfer_size, vector_len)
        /\ \A j \in 0..(vector_len - 1) : b \in Region(j, xfer_size, vector_len) => j = i

(* "always transfer from beginning in this benchmark" *)
VectorNext(off) == 0

(* How much of the pattern bw_ult and run_benchmark look at. *)
VectorBytesToCheck(xfer_size, bytes_moved) ==
    IF bytes_moved < xfer_size THEN bytes_moved ELSE xfer_size
=============================================================================
