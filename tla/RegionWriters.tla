--------------------------- MODULE RegionWriters ----------------------------
(***************************************************************************)
(* run_benchmark and bench_worker of bake-p2p-bw.c and pmdk-bw.c.  Workers *)
(* draw regions from the offset of their pool under that pool's spin lock, *)
(* which they hold when they test the offset, and write them outside it,   *)
(* until the offset has reached the total.  bake has one pool, the target; *)
(* pmdk deals its pools to the workers in turn.                            *)
(*                                                                         *)
(* Workers of pmdk may run on several execution streams; those of bake     *)
(* share one and suspend while a write is under way.  Here any worker may  *)
(* take its next step at any time, which includes both.  Between lock and  *)
(* unlock nothing blocks, so a lock is never held by a suspended worker.   *)
(* A write that fails ends the process, with all of them.                  *)
(***************************************************************************)
EXTENDS Integers, FiniteSets

CONSTANTS
    Concurrency,    \* -c: number of workers
    PoolCount,      \* pools named by -p; one for bake
    XferSize,       \* -x: bytes of one region
    TotalSize       \* -m: total_mem_size

(* parse_args tests the concurrency only.  With -x 0 the workers would     *)
(* draw the same offset forever.                                           *)
ASSUME WritersAssumption ==
    /\ Concurrency \in Nat \ {0}
    /\ PoolCount \in Nat \ {0}
    /\ XferSize \in Nat \ {0}
    /\ TotalSize \in Nat

VARIABLES
    hpc,        \* where run_benchmark is
    i,          \* its loop index
    reported,   \* the total it prints
    pc,         \* where each worker is
    my_off,     \* the region each worker drew last: in bake this_buffer, in
                \* pmdk, whose objects do not follow the offset, a history
    cur_off,    \* the offset of each pool
    mutex,      \* the worker that holds each pool's mutex, or Nobody
    written,    \* history: the regions written to each pool
    failed      \* an assertion has ended the process

mainVars == <<hpc, i, reported>>
poolVars == <<cur_off, mutex>>
runVars == <<mainVars, pc, my_off, poolVars, written>>
vars == <<runVars, failed>>

Workers == 0..(Concurrency - 1)
PoolIds == 0..(PoolCount - 1)
Nobody  == -1

(* Round robin, by a counter that starts over. *)
PoolOf == [w \in Workers |-> w % PoolCount]

-----------------------------------------------------------------------------
(* run_benchmark *)

CreateOneMore ==
    /\ hpc = "create"
    /\ pc' = [pc EXCEPT ![i] = "lock"]
    /\ IF i < Concurrency THEN i' = i + 1 /\ UNCHANGED hpc
                          ELSE i' = 0 /\ hpc' = "join"
    /\ UNCHANGED <<reported, my_off, poolVars, written>>

Create ==
    /\ hpc = "create"
    /\ pc' = [pc EXCEPT ![i] = "lock"]
    /\ IF i + 1 < Concurrency THEN i' = i + 1 /\ UNCHANGED hpc
                              ELSE i' = 0 /\ hpc' = "join"
    /\ UNCHANGED <<reported, my_off, poolVars, written>>

JoinNoWait ==
    /\ hpc = "join"
    /\ IF i + 1 < Concurrency THEN i' = i + 1 /\ UNCHANGED hpc
                              ELSE i' = i /\ hpc' = "report"
    /\ UNCHANGED <<reported, pc, my_off, poolVars, written>>

Join ==
    /\ pc[i] = "done"
    /\ JoinNoWait

ReportOnePool ==
    /\ hpc = "report"
    /\ reported' = TotalSize
    /\ hpc' = "done"
    /\ UNCHANGED <<i, pc, my_off, poolVars, written>>

(* The total is computed from the options, not from what was written. *)
Report ==
    /\ hpc = "report"
    /\ reported' = TotalSize * PoolCount
    /\ hpc' = "done"
    /\ UNCHANGED <<i, pc, my_off, poolVars, written>>

-----------------------------------------------------------------------------
(* bench_worker *)

AcquireUnlocked(w) ==
    /\ pc[w] = "lock"
    /\ mutex' = [mutex EXCEPT ![PoolOf[w]] = w]
    /\ pc' = [pc EXCEPT ![w] = "test"]
    /\ UNCHANGED <<mainVars, my_off, cur_off, written>>

Acquire(w) ==
    /\ mutex[PoolOf[w]] = Nobody
    /\ AcquireUnlocked(w)

Unlock(w) == mutex' = [mutex EXCEPT ![PoolOf[w]] = Nobody]

(* A region starts below the total: the worker remembers where. *)
Draw(w) ==
    /\ pc[w] = "test"
    /\ cur_off[PoolOf[w]] < TotalSize
    /\ my_off' = [my_off EXCEPT ![w] = cur_off[PoolOf[w]]]
    /\ pc' = [pc EXCEPT ![w] = "bump"]
    /\ UNCHANGED <<mainVars, poolVars, written>>

LeaveLocked(w) ==
    /\ pc[w] = "test"
    /\ cur_off[PoolOf[w]] >= TotalSize
    /\ pc' = [pc EXCEPT ![w] = "done"]
    /\ UNCHANGED <<mainVars, my_off, poolVars, written>>

(* The unlock behind the loop. *)
Leave(w) ==
    /\ pc[w] = "test"
    /\ cur_off[PoolOf[w]] >= TotalSize
    /\ Unlock(w)
    /\ pc' = [pc EXCEPT ![w] = "done"]
    /\ UNCHANGED <<mainVars, my_off, cur_off, written>>

Bump(w) ==
    /\ pc[w] = "bump"
    /\ cur_off' = [cur_off EXCEPT ![PoolOf[w]] = @ + XferSize]
    /\ Unlock(w)
    /\ pc' = [pc EXCEPT ![w] = "write"]
    /\ UNCHANGED <<mainVars, my_off, written>>

(* bake_create_write_persist, or pmemobj_alloc, fill and persist... *)
Write(w) ==
    /\ pc[w] = "write"
    /\ written' = [written EXCEPT ![PoolOf[w]] = @ \cup {my_off[w]}]
    /\ pc' = [pc EXCEPT ![w] = "lock"]
    /\ UNCHANGED <<mainVars, my_off, poolVars>>

(* ...or assert(ret == 0) and assert(0), when the target refuses the       *)
(* request or the pool has no room for the object.                         *)
Fail(w) ==
    /\ ~failed
    /\ pc[w] = "write"
    /\ failed' = TRUE
    /\ UNCHANGED runVars

-----------------------------------------------------------------------------
Init ==
    /\ hpc = "create"
    /\ i = 0
    /\ reported = 0
    /\ pc = [w \in Workers |-> "none"]
    /\ my_off = [w \in Workers |-> 0]
    /\ cur_off = [p \in PoolIds |-> 0]
    /\ mutex = [p \in PoolIds |-> Nobody]
    /\ written = [p \in PoolIds |-> {}]
    /\ failed = FALSE

MainStep ==
    /\ ~failed
    /\ Create \/ Join \/ Report
    /\ UNCHANGED failed

WorkerStep(w) ==
    /\ ~failed
    /\ Acquire(w) \/ Draw(w) \/ Leave(w) \/ Bump(w) \/ Write(w)
    /\ UNCHANGED failed

Next ==
    \/ MainStep
    \/ \E w \in Workers : WorkerStep(w) \/ Fail(w)

(* Main runs, and a worker on a stream runs; a spinning worker gets the    *)
(* lock at some time if it is free again and again, since every other      *)
(* worker of its pool ends.  No write has to fail.                         *)
Fairness ==
    /\ WF_vars(MainStep)
    /\ \A w \in Workers : WF_vars(WorkerStep(w))

Spec == Init /\ [][Next]_vars

FairSpec == Spec /\ Fairness

-----------------------------------------------------------------------------
TypeOK ==
    /\ hpc \in {"create", "join", "report", "done"}
    /\ i \in Workers
    /\ reported \in Nat
    /\ pc \in [Workers -> {"none", "lock", "test", "bump", "write", "done"}]
    /\ my_off \in [Workers -> Nat]
    /\ cur_off \in [PoolIds -> Nat]
    /\ mutex \in [PoolIds -> Workers \cup {Nobody}]
    /\ written \in [PoolIds -> SUBSET Nat]
    /\ failed \in BOOLEAN

(* The offsets at which regions start. *)
Regions == {o \in 0..(TotalSize - 1) : \E k \in 0..o : o = k * XferSize}

Served == {PoolOf[w] : w \in Workers}

(***************************************************************************)
(* When the workers are joined and the clock is stopped, every region of   *)
(* every pool that has a worker was written.                               *)
(***************************************************************************)
AllWritten ==
    hpc \in {"report", "done"} => \A p \in Served : written[p] = Regions

WrittenRegions == UNION {{p} \X written[p] : p \in PoolIds}

(* What the last region of a pool has beyond the total. *)
Excess == IF TotalSize % XferSize = 0 THEN 0 ELSE XferSize - (TotalSize % XferSize)

(***************************************************************************)
(* What the printed total, which is also divided by the time, has to do    *)
(* with the bytes that were written: it does not count what the last       *)
(* region of a pool has beyond the total, and it counts every pool that    *)
(* has no worker.  It is exact when the total is whole regions and no pool *)
(* goes without.                                                           *)
(***************************************************************************)
ReportedTotal ==
    hpc = "done" =>
        reported + Cardinality(Served) * Excess
            = XferSize * Cardinality(WrittenRegions) + TotalSize * Cardinality(PoolIds \ Served)

(***************************************************************************)
(* Every worker ends, and with it the benchmark, unless a write fails.     *)
(***************************************************************************)
Termination == <>(hpc = "done" \/ failed)

(***************************************************************************)
(* Lock, test and update hand each region to one worker: they implement    *)
(* the atomic hand-out of RegionQueue.  A worker that has tested the       *)
(* offset holds its region only once it has advanced the offset.           *)
(***************************************************************************)
Holds == [w \in Workers |-> IF pc[w] = "write" THEN my_off[w] ELSE -1]

Queue == INSTANCE RegionQueue WITH
             Pools <- PoolIds, Step <- XferSize, Total <- TotalSize,
             next <- cur_off, holds <- Holds

RefinesQueue == Queue!QueueSpec

(***************************************************************************)
(* No region is written by two workers, at once or one after the other.    *)
(***************************************************************************)
OneWriter == Queue!OneWriter
=============================================================================
