---------------------------- MODULE RegionQueue -----------------------------
(***************************************************************************)
(* What the shared offsets of bake-p2p-bw and pmdk-bw promise, without     *)
(* locks: the regions of a pool are handed out one at a time and in order, *)
(* each to one worker, which writes it.  Nothing wraps: a pool is done     *)
(* when its offset has reached the total.                                  *)
(***************************************************************************)
EXTENDS Integers

CONSTANTS
    Workers,    \* the threads that write
    Pools,      \* the pools they write to
    PoolOf,     \* the pool of each worker
    Step,       \* the size of a region
    Total       \* no region starts at or behind this offset

VARIABLES
    next,       \* the offset of each pool's next region
    holds,      \* the offset of the region each worker is writing, or None
    written     \* the offsets of the regions written to each pool

queueVars == <<next, holds, written>>

None == -1

QueueInit ==
    /\ next = [p \in Pools |-> 0]
    /\ holds = [w \in Workers |-> None]
    /\ written = [p \in Pools |-> {}]

HandOnePast(w) ==
    /\ holds[w] = None
    /\ next[PoolOf[w]] <= Total
    /\ holds' = [holds EXCEPT ![w] = next[PoolOf[w]]]
    /\ next' = [next EXCEPT ![PoolOf[w]] = @ + Step]
    /\ UNCHANGED written

(* The worker takes the next region of its pool... *)
Hand(w) ==
    /\ holds[w] = None
    /\ next[PoolOf[w]] < Total
    /\ holds' = [holds EXCEPT ![w] = next[PoolOf[w]]]
    /\ next' = [next EXCEPT ![PoolOf[w]] = @ + Step]
    /\ UNCHANGED written

(* ...and has written it. *)
Put(w) ==
    /\ holds[w] # None
    /\ written' = [written EXCEPT ![PoolOf[w]] = @ \cup {holds[w]}]
    /\ holds' = [holds EXCEPT ![w] = None]
    /\ UNCHANGED next

QueueNext == \E w \in Workers : Hand(w) \/ Put(w)

QueueSpec == QueueInit /\ [][QueueNext]_queueVars

-----------------------------------------------------------------------------
QueueTypeOK ==
    /\ next \in [Pools -> Nat]
    /\ holds \in [Workers -> (0..(Total - 1)) \cup {None}]
    /\ written \in [Pools -> SUBSET (0..(Total - 1))]

(* Worker w of pool p is writing the region at offset o. *)
Writing(w, p, o) == PoolOf[w] = p /\ holds[w] = o

(***************************************************************************)
(* No region has two writers, and none that was written is written again.  *)
(***************************************************************************)
OneWriter ==
    \A w \in Workers :
        holds[w] # None =>
            /\ holds[w] \notin written[PoolOf[w]]
            /\ \A v \in Workers : Writing(v, PoolOf[w], holds[w]) => v = w
=============================================================================
