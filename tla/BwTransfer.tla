----------------------------- MODULE BwTransfer -----------------------------
(***************************************************************************)
(* One bw_rpc of margo-p2p-bw.c on the server: the handler bw_ult creates  *)
(* `concurrency' workers, joins them and adds up what they moved; each     *)
(* worker (bw_worker) draws an offset from the shared cur_off under a spin *)
(* lock and issues a bulk transfer at it, until the duration has passed.   *)
(*                                                                         *)
(* Handler and workers are user-level threads (ULTs) that execution        *)
(* streams (ESs) run without preemption.  With -T 0 the transfer pool is   *)
(* the pool of the primary ES, which the handler and margo's progress loop *)
(* share; with -T n it is a pool of its own, served by n ESs in parallel.  *)
(* A ULT gives its ES away only where it blocks: in ABT_thread_join and in *)
(* margo_bulk_transfer.  The spin lock does not give it away.              *)
(***************************************************************************)
EXTENDS Integers, FiniteSets

CONSTANTS
    Concurrency,    \* -c: number of worker ULTs per RPC
    Threads,        \* -T: dedicated ESs for the transfer pool, 0 for none
    XferSize,       \* -x: bytes of one transfer
    BufSize,        \* -X: bytes of the buffer on either side
    MaxMoves        \* bound: no round starts once this many offsets were drawn

(* What parse_args lets through.  It compares neither -x with -X nor -T    *)
(* with 0.                                                                 *)
OptionsAccepted ==
    /\ XferSize >= 1
    /\ Concurrency >= 1

ASSUME BwAssumption ==
    /\ {Concurrency, Threads, XferSize} \subseteq Nat
    /\ OptionsAccepted
    /\ BufSize \in Nat \ {0}
    /\ MaxMoves \in Nat

VARIABLES
    timeup,         \* now - start_tm has reached the duration
    cur_off,        \* bw_ult's cur_off, shared by the workers
    mutex,          \* cur_off_mutex: the worker holding it, or Nobody
    pc,             \* where each worker is
    my_off,         \* each worker's my_off
    bytes_moved,    \* each worker's arg->bytes_moved
    hpc,            \* where the handler is
    i,              \* the handler's loop index
    out,            \* the handler's out.bytes_moved
    on,             \* the ULT each ES is running, or Nobody
    moved,          \* history: offsets at which a transfer completed
    taken           \* history: offsets drawn so far

workerVars  == <<cur_off, mutex, my_off, bytes_moved, moved, taken>>
handlerVars == <<hpc, i, out>>
vars == <<timeup, pc, on, workerVars, handlerVars>>

Workers == 0..(Concurrency - 1)
Handler == -1
Nobody  == -2

Primary == 0
ES == 0..Threads
TransferEs == IF Threads = 0 THEN {Primary} ELSE 1..Threads

(* The whole transfers that fit in the buffer; bw_worker wraps after them. *)
Slots == BufSize \div XferSize

BytesToCheck ==
    IF out < Slots * XferSize THEN out ELSE Slots * XferSize

Critical == {"fetch", "bump", "wrap"}
InFlight == {"issue", "xfer"}
WorkerPc == {"none", "ready", "lock", "woken", "done"} \cup Critical \cup InFlight

(* Mercury accepts a bulk transfer that lies inside both registered        *)
(* buffers, which both ranks create with g_buffer_size bytes.              *)
Accepted(off) == off + XferSize <= BufSize

-----------------------------------------------------------------------------
(* Execution streams *)

Running(u) == \E e \in ES : on[e] = u

Vacate(u) == on' = [e \in ES |-> IF on[e] = u THEN Nobody ELSE on[e]]

(* An idle ES of the transfer pool picks up a worker that can run. *)
Dispatch(e, w) ==
    /\ on[e] = Nobody
    /\ pc[w] \in {"ready", "woken"}
    /\ ~Running(w)
    /\ on' = [on EXCEPT ![e] = w]
    /\ UNCHANGED <<timeup, pc, workerVars, handlerVars>>

(* The clock reaches the duration. *)
Expire ==
    /\ ~timeup
    /\ timeup' = TRUE
    /\ UNCHANGED <<pc, on, workerVars, handlerVars>>

-----------------------------------------------------------------------------
(* The handler *)

CreateOneMore ==
    /\ hpc = "create"
    /\ on[Primary] = Handler
    /\ pc' = [pc EXCEPT ![i] = "ready"]
    /\ IF i < Concurrency
         THEN i' = i + 1 /\ UNCHANGED hpc
         ELSE i' = 0 /\ hpc' = "join"
    /\ UNCHANGED <<timeup, on, workerVars, out>>

Create ==
    /\ hpc = "create"
    /\ on[Primary] = Handler
    /\ pc' = [pc EXCEPT ![i] = "ready"]
    /\ IF i + 1 < Concurrency
         THEN i' = i + 1 /\ UNCHANGED hpc
         ELSE i' = 0 /\ hpc' = "join"
    /\ UNCHANGED <<timeup, on, workerVars, out>>

(* ABT_thread_join on a worker that has not finished suspends the handler, *)
(* which runs again once that worker is done and the primary ES is free.   *)
JoinWait ==
    /\ hpc = "join"
    /\ on[Primary] = Handler
    /\ pc[i] # "done"
    /\ on' = [on EXCEPT ![Primary] = Nobody]
    /\ UNCHANGED <<timeup, pc, workerVars, handlerVars>>

JoinWake ==
    /\ hpc = "join"
    /\ on[Primary] = Nobody
    /\ pc[i] = "done"
    /\ on' = [on EXCEPT ![Primary] = Handler]
    /\ UNCHANGED <<timeup, pc, workerVars, handlerVars>>

JoinNoWait ==
    /\ hpc = "join"
    /\ on[Primary] = Handler
    /\ out' = out + bytes_moved[i]
    /\ IF i + 1 < Concurrency
         THEN i' = i + 1 /\ UNCHANGED <<hpc, on>>
         ELSE i' = i /\ hpc' = "respond" /\ Vacate(Handler)
    /\ UNCHANGED <<timeup, pc, workerVars>>

(* One joined worker is added up; after the last one bw_ult responds.      *)
Join ==
    /\ pc[i] = "done"
    /\ JoinNoWait

-----------------------------------------------------------------------------
(* A worker *)

(* The while condition, on a fresh reading of the clock. *)
NextRound(w) ==
    /\ ~timeup
    /\ taken < MaxMoves
    /\ pc' = [pc EXCEPT ![w] = "lock"]
    /\ UNCHANGED on

Finish(w) ==
    /\ timeup
    /\ pc' = [pc EXCEPT ![w] = "done"]
    /\ Vacate(w)

LoopTest(w) == NextRound(w) \/ Finish(w)

Begin(w) ==
    /\ pc[w] = "ready"
    /\ Running(w)
    /\ LoopTest(w)
    /\ UNCHANGED <<timeup, workerVars, handlerVars>>

AcquireUnlocked(w) ==
    /\ pc[w] = "lock"
    /\ Running(w)
    /\ mutex' = w
    /\ pc' = [pc EXCEPT ![w] = "fetch"]
    /\ UNCHANGED <<timeup, on, cur_off, my_off, bytes_moved, moved, taken, handlerVars>>

(* ABT_mutex_spinlock: a worker at "lock" spins on its ES until the mutex  *)
(* is free.                                                                *)
Acquire(w) ==
    /\ mutex = Nobody
    /\ AcquireUnlocked(w)

Fetch(w) ==
    /\ pc[w] = "fetch"
    /\ Running(w)
    /\ my_off' = [my_off EXCEPT ![w] = cur_off]
    /\ pc' = [pc EXCEPT ![w] = "bump"]
    /\ UNCHANGED <<timeup, on, cur_off, mutex, bytes_moved, moved, taken, handlerVars>>

Bump(w) ==
    /\ pc[w] = "bump"
    /\ Running(w)
    /\ cur_off' = cur_off + XferSize
    /\ pc' = [pc EXCEPT ![w] = "wrap"]
    /\ UNCHANGED <<timeup, on, mutex, my_off, bytes_moved, moved, taken, handlerVars>>

WrapLate(off) == IF off > BufSize THEN 0 ELSE off

(* No whole transfer fits behind the new offset: start over. *)
WrapAround(off) == IF off + XferSize > BufSize THEN 0 ELSE off

UnlockUnlessWrapped(w) == mutex' = IF cur_off + XferSize > BufSize THEN w ELSE Nobody

Unlock(w) == mutex' = Nobody

Wrap(w) ==
    /\ pc[w] = "wrap"
    /\ Running(w)
    /\ cur_off' = WrapAround(cur_off)
    /\ Unlock(w)
    /\ taken' = taken + 1
    /\ pc' = [pc EXCEPT ![w] = "issue"]
    /\ UNCHANGED <<timeup, on, my_off, bytes_moved, moved, handlerVars>>

(* margo_bulk_transfer posts the operation and suspends the worker.  A     *)
(* transfer Mercury refuses ends the process at assert(ret == 0).          *)
Transfer(w) ==
    /\ pc[w] = "issue"
    /\ Running(w)
    /\ Accepted(my_off[w])
    /\ pc' = [pc EXCEPT ![w] = "xfer"]
    /\ Vacate(w)
    /\ UNCHANGED <<timeup, workerVars, handlerVars>>

(* The progress loop, a ULT of the primary ES, sees the completion and     *)
(* makes the worker runnable.                                              *)
Complete(w) ==
    /\ pc[w] = "xfer"
    /\ on[Primary] = Nobody
    /\ moved' = moved \cup {my_off[w]}
    /\ pc' = [pc EXCEPT ![w] = "woken"]
    /\ UNCHANGED <<timeup, on, cur_off, mutex, my_off, bytes_moved, taken, handlerVars>>

AccountIfAgain(w) ==
    /\ pc[w] = "woken"
    /\ Running(w)
    /\ bytes_moved' = [bytes_moved EXCEPT ![w] = IF timeup THEN @ ELSE @ + XferSize]
    /\ LoopTest(w)
    /\ UNCHANGED <<timeup, cur_off, mutex, my_off, moved, taken, handlerVars>>

Account(w) ==
    /\ pc[w] = "woken"
    /\ Running(w)
    /\ bytes_moved' = [bytes_moved EXCEPT ![w] = @ + XferSize]
    /\ LoopTest(w)
    /\ UNCHANGED <<timeup, cur_off, mutex, my_off, moved, taken, handlerVars>>

-----------------------------------------------------------------------------
Init ==
    /\ timeup = FALSE
    /\ cur_off = 0
    /\ mutex = Nobody
    /\ pc = [w \in Workers |-> "none"]
    /\ my_off = [w \in Workers |-> 0]
    /\ bytes_moved = [w \in Workers |-> 0]
    /\ hpc = "create"
    /\ i = 0
    /\ out = 0
    /\ on = [e \in ES |-> IF e = Primary THEN Handler ELSE Nobody]
    /\ moved = {}
    /\ taken = 0

HandlerStep == Create \/ JoinWait \/ JoinWake \/ Join

WorkerStep(w) ==
    \/ Begin(w) \/ Acquire(w) \/ Fetch(w) \/ Bump(w) \/ Wrap(w)
    \/ Transfer(w) \/ Account(w)

Next ==
    \/ HandlerStep
    \/ Expire
    \/ \E w \in Workers : WorkerStep(w) \/ Complete(w)
    \/ \E w \in Workers, e \in TransferEs : Dispatch(e, w)

(* Time passes, the network completes what was posted, an ES that is not   *)
(* idle executes its ULT and an idle one serves its FIFO pool.             *)
Fairness ==
    /\ WF_vars(Expire)
    /\ WF_vars(HandlerStep)
    /\ \A w \in Workers : /\ WF_vars(WorkerStep(w))
                          /\ WF_vars(Complete(w))
                          /\ WF_vars(\E e \in TransferEs : Dispatch(e, w))

Spec == Init /\ [][Next]_vars

FairSpec == Spec /\ Fairness

-----------------------------------------------------------------------------
TypeOK ==
    /\ timeup \in BOOLEAN
    /\ cur_off \in Nat
    /\ mutex \in Workers \cup {Nobody}
    /\ pc \in [Workers -> WorkerPc]
    /\ my_off \in [Workers -> Nat]
    /\ bytes_moved \in [Workers -> Nat]
    /\ hpc \in {"create", "join", "respond"}
    /\ i \in Workers
    /\ out \in Nat
    /\ on \in [ES -> Workers \cup {Handler, Nobody}]
    /\ moved \subseteq Nat
    /\ taken \in Nat

(***************************************************************************)
(* The lock is never held by a suspended ULT.  ABT_mutex_spinlock spins    *)
(* without yielding, so with all workers on the primary ES (-T 0) a holder *)
(* that gave its ES away would leave the spinning worker there forever.    *)
(***************************************************************************)
HolderRuns == mutex # Nobody => Running(mutex)

(***************************************************************************)
(* assert(ret == 0) after margo_bulk_transfer: every transfer a worker     *)
(* issues lies inside the buffers.                                         *)
(***************************************************************************)
TransferAccepted == \A w \in Workers : pc[w] \in InFlight => Accepted(my_off[w])

(***************************************************************************)
(* When bw_ult responds, every byte below bytes_to_check was moved.  Both  *)
(* ranks compare the pattern of exactly these bytes, so a hole in the      *)
(* prefix (a transfer still in flight, an offset drawn twice or skipped)   *)
(* fails an assertion of a correct network.                                *)
(***************************************************************************)
PrefixMoved ==
    hpc = "respond" =>
        \A k \in 0..(Slots - 1) : k * XferSize < BytesToCheck => k * XferSize \in moved

(***************************************************************************)
(* The bandwidth the client prints is computed from what the server's      *)
(* workers really moved: one transfer of xfer_size bytes per offset drawn. *)
(***************************************************************************)
BytesAccounted == hpc = "respond" => out = XferSize * taken

(***************************************************************************)
(* The handler does respond, whether or not the transfers share the        *)
(* primary ES with it and with the progress loop.                          *)
(***************************************************************************)
Termination == <>(hpc = "respond")

(* Worker w can take its next step: it is on an ES and does not spin on a  *)
(* held lock.  The loop test never waits; only MaxMoves keeps a round from *)
(* starting in the model, until the time is up.                            *)
CanStep(w) ==
    /\ Running(w)
    /\ \/ pc[w] \in {"ready", "woken"} \cup Critical
       \/ pc[w] = "lock" /\ mutex = Nobody
       \/ pc[w] = "issue" /\ Accepted(my_off[w])

(* What the ESs and the progress loop can do for worker w. *)
CanGoOn(w) ==
    \/ pc[w] = "xfer" /\ on[Primary] = Nobody
    \/ /\ pc[w] \in {"ready", "woken"} /\ ~Running(w)
       /\ \E e \in TransferEs : on[e] = Nobody

(***************************************************************************)
(* Until bw_ult responds somebody can always go on, whoever has the ESs    *)
(* and the lock: the handler, a worker, the progress loop that reports a   *)
(* finished transfer, or an ES that has a worker to run.  What would end   *)
(* this is a worker spinning on the only ES while the lock's holder, or    *)
(* the completion the holder sleeps for, needs that ES.  Expire, which     *)
(* only the clock takes, does not count.                                   *)
(***************************************************************************)
NeverStuck ==
    hpc # "respond" =>
        \/ on[Primary] = Handler
        \/ hpc = "join" /\ on[Primary] = Nobody /\ pc[i] = "done"
        \/ \E w \in Workers : CanStep(w) \/ CanGoOn(w)

(***************************************************************************)
(* The lock, the two updates of cur_off and the wrap implement the atomic  *)
(* tickets of TransferRing.  A ticket is drawn when the lock is released;  *)
(* until then the next ticket is what the holder read.                     *)
(***************************************************************************)
NextOffset ==
    IF mutex \in Workers /\ pc[mutex] = "wrap" THEN my_off[mutex] ELSE cur_off

Holds == [w \in Workers |-> IF pc[w] \in InFlight THEN my_off[w] ELSE -1]

Ring == INSTANCE TransferRing WITH
            Step <- XferSize, next <- NextOffset, holds <- Holds

RefinesRing == Ring!RingSpec
=============================================================================
