------------------------ MODULE RegionWriters_proofs ------------------------
(***************************************************************************)
(* Proofs about RegionWriters for every number of workers and pools and    *)
(* all sizes.                                                              *)
(***************************************************************************)
EXTENDS RegionWriters, FiniteSetTheorems, TLAPS

Critical == {"test", "bump"}

(* Main starts the workers in the order of their index; those from its     *)
(* index on do not exist yet.                                              *)
CreateInv == hpc = "create" => \A w \in Workers : w >= i => pc[w] = "none"

(* A pool's mutex names the worker of that pool inside the critical        *)
(* section, and no one else is there.                                      *)
LockInv == \A w \in Workers : mutex[PoolOf[w]] = w <=> pc[w] \in Critical

(* Nobody moves the offset between a worker's test and its update.         *)
DrawInv ==
    \A w \in Workers :
        pc[w] = "bump" => /\ my_off[w] = cur_off[PoolOf[w]]
                          /\ cur_off[PoolOf[w]] < TotalSize

Multiple(n) == \E k \in Nat : n = k * XferSize

InFlight(w, p, o) == pc[w] = "write" /\ PoolOf[w] = p /\ my_off[w] = o

(* Offsets advance by whole regions; what was handed out lies behind.      *)
BehindInv ==
    /\ \A p \in PoolIds : Multiple(cur_off[p])
    /\ \A p \in PoolIds : \A o \in written[p] : o \in Regions /\ o < cur_off[p]
    /\ \A w \in Workers :
           pc[w] = "write" => my_off[w] \in Regions /\ my_off[w] < cur_off[PoolOf[w]]

(* What lies behind was handed out and is written or about to be.          *)
CoverInv ==
    \A p \in PoolIds : \A o \in Regions :
        o < cur_off[p] => o \in written[p] \/ \E w \in Workers : InFlight(w, p, o)

(* One worker at a time, and never again. *)
OnceInv ==
    \A w \in Workers :
        pc[w] = "write" =>
            /\ my_off[w] \notin written[PoolOf[w]]
            /\ \A v \in Workers : InFlight(v, PoolOf[w], my_off[w]) => v = w

(* A worker leaves only a pool that is used up. *)
LeaveInv == \A w \in Workers : pc[w] = "done" => cur_off[PoolOf[w]] >= TotalSize

JoinedUpTo == IF hpc = "create" THEN 0 ELSE IF hpc = "join" THEN i ELSE Concurrency

JoinInv == \A w \in Workers : w < JoinedUpTo => pc[w] = "done"

-----------------------------------------------------------------------------
(* The constants, as the proofs use them. *)
LEMMA Options ==
    /\ Concurrency \in Nat \ {0}
    /\ PoolCount \in Nat \ {0}
    /\ XferSize \in Nat \ {0}
    /\ TotalSize \in Nat
  BY WritersAssumption

(* Every worker has a pool. *)
LEMMA PoolOfType == PoolOf \in [Workers -> PoolIds]
<1>1. ASSUME NEW w \in Workers PROVE w % PoolCount \in PoolIds
  BY Options DEF Workers, PoolIds
<1> QED
  BY <1>1 DEF PoolOf

(* Nobody is no worker. *)
LEMMA NobodyElse == Nobody \notin Workers
  BY Options DEF Nobody, Workers

-----------------------------------------------------------------------------
LEMMA TypeInit == Init => TypeOK
<1>0. SUFFICES ASSUME Init PROVE TypeOK
  OBVIOUS
<1>1. 0 \in Workers
  BY Options DEF Workers
<1>2. failed \in BOOLEAN
  BY <1>0 DEF Init
<1> QED
  BY <1>0, <1>1, <1>2 DEF Init, TypeOK

LEMMA TypeStep == TypeOK /\ [Next]_vars => TypeOK'
<1> SUFFICES ASSUME TypeOK, [Next]_vars PROVE TypeOK'
  OBVIOUS
<1>0. failed' \in BOOLEAN
  BY DEF TypeOK, Next, MainStep, WorkerStep, Fail, vars
<1> USE <1>0, Options, PoolOfType DEF TypeOK
<1>1. CASE Create
  <2>1. pc' \in [Workers -> {"none", "lock", "test", "bump", "write", "done"}]
    BY <1>1 DEF Create
  <2>2. i' \in Workers /\ hpc' \in {"create", "join", "report", "done"}
    BY <1>1 DEF Create, Workers
  <2> QED
    BY <1>1, <2>1, <2>2 DEF Create, poolVars
<1>2. CASE Join
  <2>1. i' \in Workers /\ hpc' \in {"create", "join", "report", "done"}
    BY <1>2 DEF Join, JoinNoWait, Workers
  <2> QED
    BY <1>2, <2>1 DEF Join, JoinNoWait, poolVars
<1>3. CASE Report
  BY <1>3 DEF Report, poolVars
<1>4. ASSUME NEW w \in Workers, Acquire(w) PROVE TypeOK'
  BY <1>4 DEF Acquire, AcquireUnlocked, mainVars
<1>5. ASSUME NEW w \in Workers, Draw(w) PROVE TypeOK'
  BY <1>5 DEF Draw, mainVars, poolVars
<1>6. ASSUME NEW w \in Workers, Leave(w) PROVE TypeOK'
  BY <1>6 DEF Leave, Unlock, mainVars
<1>7. ASSUME NEW w \in Workers, Bump(w) PROVE TypeOK'
  BY <1>7 DEF Bump, Unlock, mainVars
<1>8. ASSUME NEW w \in Workers, Write(w) PROVE TypeOK'
  BY <1>8 DEF Write, mainVars, poolVars
<1>9. CASE UNCHANGED runVars
  BY <1>9 DEF runVars, mainVars, poolVars
<1>10. ASSUME NEW w \in Workers, Fail(w) PROVE TypeOK'
  BY <1>10 DEF Fail, runVars, mainVars, poolVars
<1> QED
  BY <1>1, <1>2, <1>3, <1>4, <1>5, <1>6, <1>7, <1>8, <1>9, <1>10
     DEF Next, MainStep, WorkerStep, vars

(* Type correctness: every variable of run_benchmark and bench_worker      *)
(* keeps its type.                                                         *)
THEOREM TypeCorrect == Spec => []TypeOK
  BY TypeInit, TypeStep, PTL DEF Spec

-----------------------------------------------------------------------------
(* What the steps of main and of a worker leave alone. *)
LEMMA StepKinds ==
    ASSUME TypeOK, [Next]_vars
    PROVE  \/ Create
           \/ /\ \/ Join \/ Report \/ UNCHANGED runVars
              /\ UNCHANGED <<pc, my_off, cur_off, mutex, written>>
           \/ /\ \E w \in Workers : WorkerStep(w)
              /\ UNCHANGED <<hpc, i, reported>>
<1>1. CASE Join
  BY <1>1 DEF Join, JoinNoWait, poolVars
<1>2. CASE Report
  BY <1>2 DEF Report, poolVars
<1>3. CASE UNCHANGED runVars
  BY <1>3 DEF runVars, poolVars
<1>4. ASSUME NEW w \in Workers, WorkerStep(w)
      PROVE  UNCHANGED <<hpc, i, reported>>
  BY <1>4 DEF WorkerStep, Acquire, AcquireUnlocked, Draw, Leave, Bump, Write, mainVars
<1> QED
  BY <1>1, <1>2, <1>3, <1>4 DEF Next, MainStep, Fail, vars

(* No worker is started twice. *)
LEMMA CreateStep == TypeOK /\ CreateInv /\ [Next]_vars => CreateInv'
<1> SUFFICES ASSUME TypeOK, CreateInv, [Next]_vars PROVE CreateInv'
  OBVIOUS
<1> USE DEF TypeOK, CreateInv
<1>1. CASE Create
  BY <1>1 DEF Create, Workers
<1>2. CASE Join \/ Report \/ UNCHANGED runVars
  BY <1>2 DEF Join, JoinNoWait, Report, runVars, mainVars, poolVars
<1>3. ASSUME NEW w \in Workers, WorkerStep(w) PROVE CreateInv'
  <2>1. pc[w] # "none" /\ \A v \in Workers : v # w => pc'[v] = pc[v]
    BY <1>3 DEF WorkerStep, Acquire, AcquireUnlocked, Draw, Leave, Bump, Write
  <2>2. UNCHANGED <<hpc, i>>
    BY <1>3 DEF WorkerStep, Acquire, AcquireUnlocked, Draw, Leave, Bump, Write, mainVars
  <2> QED
    BY <2>1, <2>2
<1> QED
  BY <1>1, <1>2, <1>3 DEF Next, MainStep, Fail, vars

LEMMA LockStep ==
    TypeOK /\ CreateInv /\ LockInv /\ [Next]_vars => LockInv'
<1> SUFFICES ASSUME TypeOK, CreateInv, LockInv, [Next]_vars PROVE LockInv'
  OBVIOUS
<1> USE PoolOfType, NobodyElse DEF TypeOK, LockInv, Critical
<1>1. CASE Create
  BY <1>1 DEF Create, CreateInv, poolVars, Workers
<1>2. CASE UNCHANGED <<pc, my_off, cur_off, mutex, written>>
  BY <1>2
<1>3. ASSUME NEW w \in Workers, Acquire(w) PROVE LockInv'
  BY <1>3 DEF Acquire, AcquireUnlocked
<1>4. ASSUME NEW w \in Workers, Draw(w) PROVE LockInv'
  BY <1>4 DEF Draw, poolVars
<1>5. ASSUME NEW w \in Workers, Leave(w) PROVE LockInv'
  BY <1>5 DEF Leave, Unlock
<1>6. ASSUME NEW w \in Workers, Bump(w) PROVE LockInv'
  BY <1>6 DEF Bump, Unlock
<1>7. ASSUME NEW w \in Workers, Write(w) PROVE LockInv'
  BY <1>7 DEF Write, poolVars
<1> QED
  BY StepKinds, <1>1, <1>2, <1>3, <1>4, <1>5, <1>6, <1>7 DEF WorkerStep

(* The region a worker has tested for is still the next one of its pool    *)
(* when the worker advances the offset: the lock keeps the others away.    *)
LEMMA DrawStep ==
    /\ TypeOK /\ CreateInv /\ LockInv /\ DrawInv
    /\ [Next]_vars
    => DrawInv'
<1> SUFFICES ASSUME TypeOK, CreateInv, LockInv, DrawInv, [Next]_vars PROVE DrawInv'
  OBVIOUS
<1> USE PoolOfType DEF TypeOK, DrawInv
<1>1. CASE Create
  BY <1>1 DEF Create, CreateInv, poolVars, Workers
<1>2. CASE UNCHANGED <<pc, my_off, cur_off, mutex, written>>
  BY <1>2
<1>3. ASSUME NEW w \in Workers, Acquire(w) PROVE DrawInv'
  BY <1>3 DEF Acquire, AcquireUnlocked
<1>4. ASSUME NEW w \in Workers, Draw(w) PROVE DrawInv'
  BY <1>4 DEF Draw, poolVars
<1>5. ASSUME NEW w \in Workers, Leave(w) PROVE DrawInv'
  BY <1>5 DEF Leave
<1>6. ASSUME NEW w \in Workers, Bump(w) PROVE DrawInv'
  <2>1. \A v \in Workers : pc[v] = "bump" /\ PoolOf[v] = PoolOf[w] => v = w
    BY <1>6 DEF Bump, LockInv, Critical
  <2> QED
    BY <1>6, <2>1 DEF Bump
<1>7. ASSUME NEW w \in Workers, Write(w) PROVE DrawInv'
  BY <1>7 DEF Write, poolVars
<1> QED
  BY StepKinds, <1>1, <1>2, <1>3, <1>4, <1>5, <1>6, <1>7 DEF WorkerStep

-----------------------------------------------------------------------------
(* Arithmetic of the regions. *)

(* A multiple of the transfer size below the total is a region. *)
LEMMA MultipleIsRegion ==
    ASSUME NEW n \in Nat, Multiple(n), n < TotalSize
    PROVE  n \in Regions
<1>1. PICK k \in Nat : n = k * XferSize
  BY DEF Multiple
<1>2. k <= n
  BY <1>1, Options
<1> QED
  BY <1>1, <1>2, Options DEF Regions

(* Regions are natural numbers, and multiples. *)
LEMMA RegionIsMultiple ==
    ASSUME NEW o \in Regions
    PROVE  o \in Nat /\ o < TotalSize /\ Multiple(o)
<1>1. o \in 0..(TotalSize - 1) /\ \E k \in 0..o : o = k * XferSize
  BY DEF Regions
<1>2. PICK k \in 0..o : o = k * XferSize
  BY <1>1
<1>3. Multiple(o)
  BY <1>1, <1>2 DEF Multiple
<1> QED
  BY <1>1, <1>3, Options

(* The next multiple is one transfer size away. *)
LEMMA NextMultiple ==
    ASSUME NEW n \in Nat, Multiple(n)
    PROVE  Multiple(n + XferSize)
<1>1. PICK k \in Nat : n = k * XferSize
  BY DEF Multiple
<1>2. n + XferSize = (k + 1) * XferSize
  BY <1>1, Options
<1> QED
  BY <1>2 DEF Multiple

(* ...and nothing lies between. *)
LEMMA NoneBetween ==
    ASSUME NEW n \in Nat, Multiple(n),
           NEW o \in Nat, Multiple(o), n <= o, o < n + XferSize
    PROVE  o = n
<1>1. PICK k \in Nat : n = k * XferSize
  BY DEF Multiple
<1>2. PICK m \in Nat : o = m * XferSize
  BY DEF Multiple
<1>3. m < k + 1
  <2> SUFFICES ASSUME m >= k + 1 PROVE FALSE
    BY <1>1, <1>2
  <2>1. m * XferSize >= (k + 1) * XferSize
    BY Options
  <2> QED
    BY <2>1, <1>1, <1>2, Options
<1>4. m >= k
  <2> SUFFICES ASSUME m + 1 <= k PROVE FALSE
    BY <1>1, <1>2
  <2>1. (m + 1) * XferSize <= k * XferSize
    BY Options
  <2> QED
    BY <2>1, <1>1, <1>2, Options
<1> QED
  BY <1>1, <1>2, <1>3, <1>4

-----------------------------------------------------------------------------
(* What is handed out lies behind the offset. *)
LEMMA BehindStep ==
    /\ TypeOK /\ CreateInv /\ DrawInv /\ BehindInv
    /\ [Next]_vars
    => BehindInv'
<1> SUFFICES ASSUME TypeOK, CreateInv, DrawInv, BehindInv, [Next]_vars PROVE BehindInv'
  OBVIOUS
<1> USE PoolOfType DEF TypeOK, BehindInv
<1>1. CASE Create
  BY <1>1 DEF Create, poolVars
<1>2. CASE UNCHANGED <<pc, my_off, cur_off, mutex, written>>
  BY <1>2
<1>3. ASSUME NEW w \in Workers, Acquire(w) PROVE BehindInv'
  BY <1>3 DEF Acquire, AcquireUnlocked
<1>4. ASSUME NEW w \in Workers, Draw(w) PROVE BehindInv'
  BY <1>4 DEF Draw, poolVars
<1>5. ASSUME NEW w \in Workers, Leave(w) PROVE BehindInv'
  BY <1>5 DEF Leave
<1>6. ASSUME NEW w \in Workers, Bump(w) PROVE BehindInv'
  <2>1. my_off[w] \in Regions /\ my_off[w] = cur_off[PoolOf[w]]
    BY <1>6, MultipleIsRegion DEF Bump, DrawInv
  <2>2. cur_off' = [cur_off EXCEPT ![PoolOf[w]] = cur_off[PoolOf[w]] + XferSize]
    BY <1>6 DEF Bump
  <2>3. \A p \in PoolIds : cur_off[p] \in Nat /\ cur_off'[p] >= cur_off[p]
    BY <2>2, Options
  <2>4. \A p \in PoolIds : Multiple(cur_off'[p])
    BY <2>2, NextMultiple
  <2>5. cur_off'[PoolOf[w]] > my_off[w]
    BY <2>1, <2>2, Options
  <2>6. \A v \in Workers : pc'[v] = "write" => v = w \/ pc[v] = "write"
    BY <1>6 DEF Bump
  <2>7. \A o \in Regions : o \in Nat
    BY RegionIsMultiple
  <2>8. UNCHANGED <<my_off, written>>
    BY <1>6 DEF Bump
  <2>9. ASSUME NEW p \in PoolIds, NEW o \in written'[p]
        PROVE  o \in Regions /\ o < cur_off'[p]
    <3>1. o \in Regions /\ o < cur_off[p]
      BY <2>8, <2>9
    <3>2. o \in Nat /\ cur_off[p] \in Nat /\ cur_off'[p] \in Nat /\ cur_off'[p] >= cur_off[p]
      BY <2>2, <2>3, <2>7, <3>1, Options
    <3> QED
      BY <3>1, <3>2
  <2>10. ASSUME NEW v \in Workers, pc'[v] = "write"
         PROVE  my_off'[v] \in Regions /\ my_off'[v] < cur_off'[PoolOf[v]]
    <3>1. PoolOf[v] \in PoolIds /\ my_off[v] \in Nat
      BY PoolOfType
    <3>2. cur_off'[PoolOf[v]] \in Nat /\ cur_off'[PoolOf[v]] >= cur_off[PoolOf[v]]
      BY <2>2, <2>3, <3>1, Options
    <3>3. CASE v = w
      BY <2>1, <2>5, <2>8, <3>3
    <3>4. CASE pc[v] = "write"
      <4>1. my_off[v] \in Regions /\ my_off[v] < cur_off[PoolOf[v]]
        BY <3>4
      <4>2. cur_off[PoolOf[v]] \in Nat
        BY <2>3, <3>1
      <4> QED
        BY <2>8, <3>1, <3>2, <4>1, <4>2
    <3> QED
      BY <2>6, <2>10, <3>3, <3>4
  <2> QED
    BY <2>4, <2>9, <2>10
<1>7. ASSUME NEW w \in Workers, Write(w) PROVE BehindInv'
  BY <1>7 DEF Write, poolVars
<1> QED
  BY StepKinds, <1>1, <1>2, <1>3, <1>4, <1>5, <1>6, <1>7 DEF WorkerStep

(* No region behind the offset is forgotten. *)
LEMMA CoverStep ==
    /\ TypeOK /\ CreateInv /\ DrawInv /\ BehindInv /\ CoverInv
    /\ [Next]_vars
    => CoverInv'
<1> SUFFICES ASSUME TypeOK, CreateInv, DrawInv, BehindInv, CoverInv, [Next]_vars
             PROVE  CoverInv'
  OBVIOUS
<1> USE PoolOfType DEF TypeOK, CoverInv, InFlight
<1>1. CASE Create
  BY <1>1 DEF Create, CreateInv, poolVars, Workers
<1>2. CASE UNCHANGED <<pc, my_off, cur_off, mutex, written>>
  BY <1>2
<1>3. ASSUME NEW w \in Workers, Acquire(w) PROVE CoverInv'
  BY <1>3 DEF Acquire, AcquireUnlocked
<1>4. ASSUME NEW w \in Workers, Draw(w) PROVE CoverInv'
  BY <1>4 DEF Draw, poolVars
<1>5. ASSUME NEW w \in Workers, Leave(w) PROVE CoverInv'
  BY <1>5 DEF Leave
<1>6. ASSUME NEW w \in Workers, Bump(w) PROVE CoverInv'
  <2>1. /\ pc'[w] = "write" /\ my_off'[w] = cur_off[PoolOf[w]]
        /\ UNCHANGED <<my_off, written>>
        /\ \A v \in Workers : pc[v] = "write" => pc'[v] = "write"
    BY <1>6 DEF Bump, DrawInv
  <2>2. cur_off' = [cur_off EXCEPT ![PoolOf[w]] = cur_off[PoolOf[w]] + XferSize]
    BY <1>6 DEF Bump
  <2> SUFFICES ASSUME NEW p \in PoolIds, NEW o \in Regions, o < cur_off'[p]
               PROVE  o \in written'[p] \/ \E v \in Workers : InFlight(v, p, o)'
    OBVIOUS
  <2>3. CASE o < cur_off[p]
    BY <2>1, <2>3
  <2>4. CASE ~(o < cur_off[p])
    <3>1. p = PoolOf[w] /\ o < cur_off[p] + XferSize
      BY <2>2, <2>4
    <3>2. o = cur_off[p]
      BY <3>1, <2>4, NoneBetween, RegionIsMultiple, Options DEF BehindInv
    <3> QED
      BY <2>1, <3>1, <3>2
  <2> QED
    BY <2>3, <2>4
<1>7. ASSUME NEW w \in Workers, Write(w) PROVE CoverInv'
  BY <1>7 DEF Write, poolVars
<1> QED
  BY StepKinds, <1>1, <1>2, <1>3, <1>4, <1>5, <1>6, <1>7 DEF WorkerStep

(* A region is handed out once. *)
LEMMA OnceStep ==
    /\ TypeOK /\ CreateInv /\ DrawInv /\ BehindInv /\ OnceInv
    /\ [Next]_vars
    => OnceInv'
<1> SUFFICES ASSUME TypeOK, CreateInv, DrawInv, BehindInv, OnceInv, [Next]_vars
             PROVE  OnceInv'
  OBVIOUS
<1> USE PoolOfType DEF TypeOK, OnceInv, InFlight
<1>1. CASE Create
  BY <1>1 DEF Create, poolVars
<1>2. CASE UNCHANGED <<pc, my_off, cur_off, mutex, written>>
  BY <1>2
<1>3. ASSUME NEW w \in Workers, Acquire(w) PROVE OnceInv'
  BY <1>3 DEF Acquire, AcquireUnlocked
<1>4. ASSUME NEW w \in Workers, Draw(w) PROVE OnceInv'
  BY <1>4 DEF Draw, poolVars
<1>5. ASSUME NEW w \in Workers, Leave(w) PROVE OnceInv'
  BY <1>5 DEF Leave
<1>6. ASSUME NEW w \in Workers, Bump(w) PROVE OnceInv'
  <2>1. my_off[w] = cur_off[PoolOf[w]] /\ cur_off[PoolOf[w]] \in Nat
    BY <1>6 DEF Bump, DrawInv
  <2>2. my_off[w] \notin written[PoolOf[w]]
    BY <2>1 DEF BehindInv
  <2>3. \A v \in Workers :
            pc[v] = "write" /\ PoolOf[v] = PoolOf[w] => my_off[v] # my_off[w]
    BY <2>1 DEF BehindInv
  <2> QED
    BY <1>6, <2>2, <2>3 DEF Bump
<1>7. ASSUME NEW w \in Workers, Write(w) PROVE OnceInv'
  <2>1. /\ pc[w] = "write" /\ UNCHANGED my_off
        /\ written' = [written EXCEPT ![PoolOf[w]] = written[PoolOf[w]] \cup {my_off[w]}]
        /\ pc' = [pc EXCEPT ![w] = "lock"]
    BY <1>7 DEF Write
  <2> SUFFICES ASSUME NEW v \in Workers, pc'[v] = "write"
               PROVE  /\ my_off[v] \notin written'[PoolOf[v]]
                      /\ \A u \in Workers : InFlight(u, PoolOf[v], my_off[v])' => u = v
    BY <2>1
  <2>2. v # w /\ pc[v] = "write"
    BY <2>1
  <2>3. PoolOf[v] = PoolOf[w] => my_off[v] # my_off[w]
    BY <2>1, <2>2
  <2> QED
    BY <2>1, <2>2, <2>3
<1> QED
  BY StepKinds, <1>1, <1>2, <1>3, <1>4, <1>5, <1>6, <1>7 DEF WorkerStep

(* A pool that is used up stays so. *)
LEMMA LeaveStep ==
    /\ TypeOK /\ CreateInv /\ LeaveInv
    /\ [Next]_vars
    => LeaveInv'
<1> SUFFICES ASSUME TypeOK, CreateInv, LeaveInv, [Next]_vars PROVE LeaveInv'
  OBVIOUS
<1> USE PoolOfType, Options DEF TypeOK, LeaveInv
<1>1. CASE Create
  BY <1>1 DEF Create, poolVars
<1>2. CASE UNCHANGED <<pc, my_off, cur_off, mutex, written>>
  BY <1>2
<1>3. ASSUME NEW w \in Workers, Acquire(w) PROVE LeaveInv'
  BY <1>3 DEF Acquire, AcquireUnlocked
<1>4. ASSUME NEW w \in Workers, Draw(w) PROVE LeaveInv'
  BY <1>4 DEF Draw, poolVars
<1>5. ASSUME NEW w \in Workers, Leave(w) PROVE LeaveInv'
  BY <1>5 DEF Leave
<1>6. ASSUME NEW w \in Workers, Bump(w) PROVE LeaveInv'
  BY <1>6 DEF Bump
<1>7. ASSUME NEW w \in Workers, Write(w) PROVE LeaveInv'
  BY <1>7 DEF Write, poolVars
<1> QED
  BY StepKinds, <1>1, <1>2, <1>3, <1>4, <1>5, <1>6, <1>7 DEF WorkerStep

(* Main passes only workers that have left. *)
LEMMA JoinStep ==
    /\ TypeOK /\ CreateInv /\ JoinInv
    /\ [Next]_vars
    => JoinInv'
<1> SUFFICES ASSUME TypeOK, CreateInv, JoinInv, [Next]_vars PROVE JoinInv'
  OBVIOUS
<1> USE Options DEF TypeOK, JoinInv, JoinedUpTo
<1>1. CASE Create
  BY <1>1 DEF Create, CreateInv, Workers
<1>2. CASE Join
  BY <1>2 DEF Join, JoinNoWait, Workers
<1>3. CASE Report \/ UNCHANGED runVars
  BY <1>3 DEF Report, runVars, mainVars, poolVars
<1>4. ASSUME NEW w \in Workers, WorkerStep(w) PROVE JoinInv'
  <2>1. pc[w] # "done" /\ \A v \in Workers : v # w => pc'[v] = pc[v]
    BY <1>4 DEF WorkerStep, Acquire, AcquireUnlocked, Draw, Leave, Bump, Write
  <2>2. UNCHANGED <<hpc, i>>
    BY <1>4 DEF WorkerStep, Acquire, AcquireUnlocked, Draw, Leave, Bump, Write, mainVars
  <2> QED
    BY <2>1, <2>2
<1> QED
  BY <1>1, <1>2, <1>3, <1>4 DEF Next, MainStep, Fail, vars

-----------------------------------------------------------------------------
(* The inductive invariant. *)
IInv ==
    /\ TypeOK /\ CreateInv /\ LockInv /\ DrawInv /\ BehindInv
    /\ CoverInv /\ OnceInv /\ LeaveInv /\ JoinInv

LEMMA IInvInit == Init => IInv
<1> SUFFICES ASSUME Init PROVE IInv
  OBVIOUS
<1>1. TypeOK
  BY TypeInit
<1>2. CreateInv /\ DrawInv /\ OnceInv /\ LeaveInv /\ JoinInv
  BY Options DEF Init, CreateInv, DrawInv, OnceInv, LeaveInv, JoinInv, JoinedUpTo, Workers
<1>3. LockInv
  BY PoolOfType, NobodyElse DEF Init, LockInv, Critical
<1>4. 0 = 0 * XferSize
  BY Options
<1>5. BehindInv
  BY <1>4 DEF Init, BehindInv, Multiple
<1>6. CoverInv
  BY RegionIsMultiple DEF Init, CoverInv
<1> QED
  BY <1>1, <1>2, <1>3, <1>5, <1>6 DEF IInv

LEMMA IInvStep == IInv /\ [Next]_vars => IInv'
  BY TypeStep, CreateStep, LockStep, DrawStep, BehindStep, CoverStep, OnceStep,
     LeaveStep, JoinStep
  DEF IInv

LEMMA Inductive == Spec => []IInv
  BY IInvInit, IInvStep, PTL DEF Spec

-----------------------------------------------------------------------------
(* Every worker ends: nobody is stuck, and there is no way back.           *)

(* The holder of a pool's lock is a worker of that pool. *)
HolderInv == \A p \in PoolIds : \A w \in Workers : mutex[p] = w => PoolOf[w] = p

(* Main starts joining when all workers exist. *)
StartInv ==
    /\ hpc = "create" => \A w \in Workers : w < i => pc[w] # "none"
    /\ hpc # "create" => \A w \in Workers : pc[w] # "none"

LEMMA HolderInit == Init => HolderInv /\ StartInv
  BY NobodyElse, Options DEF Init, HolderInv, StartInv, Workers

LEMMA HolderStep == TypeOK /\ HolderInv /\ [Next]_vars => HolderInv'
<1> SUFFICES ASSUME TypeOK, HolderInv, [Next]_vars PROVE HolderInv'
  OBVIOUS
<1> USE PoolOfType, NobodyElse DEF TypeOK, HolderInv
<1>1. CASE UNCHANGED mutex
  BY <1>1
<1>2. ASSUME NEW w \in Workers, Acquire(w) PROVE HolderInv'
  BY <1>2 DEF Acquire, AcquireUnlocked
<1>3. ASSUME NEW w \in Workers, Leave(w) \/ Bump(w) PROVE HolderInv'
  BY <1>3 DEF Leave, Bump, Unlock
<1>4. ASSUME Create \/ \E w \in Workers : Draw(w) \/ Write(w) PROVE UNCHANGED mutex
  BY <1>4 DEF Create, Draw, Write, poolVars
<1> QED
  BY <1>1, <1>2, <1>3, <1>4, StepKinds DEF WorkerStep

LEMMA StartStep == TypeOK /\ StartInv /\ [Next]_vars => StartInv'
<1> SUFFICES ASSUME TypeOK, StartInv, [Next]_vars PROVE StartInv'
  OBVIOUS
<1> USE DEF TypeOK, StartInv
<1>1. CASE Create
  <2>1. \A w \in Workers : w \in Nat /\ w < Concurrency
    BY Options DEF Workers
  <2>2. hpc = "create" /\ i \in Workers /\ pc' = [pc EXCEPT ![i] = "lock"]
    BY <1>1 DEF Create
  <2>3. \A w \in Workers : w < i + 1 => pc'[w] # "none"
    BY <2>1, <2>2
  <2>4. \/ hpc' = "create" /\ i' = i + 1
        \/ hpc' # "create" /\ \A w \in Workers : w < i + 1
    BY <1>1, <2>1, <2>2, Options DEF Create
  <2> QED
    BY <2>3, <2>4
<1>2. CASE Join \/ Report \/ UNCHANGED runVars
  BY <1>2 DEF Join, JoinNoWait, Report, runVars, mainVars
<1>3. ASSUME NEW w \in Workers, WorkerStep(w) PROVE StartInv'
  BY <1>3 DEF WorkerStep, Acquire, AcquireUnlocked, Draw, Leave, Bump, Write, mainVars
<1> QED
  BY <1>1, <1>2, <1>3 DEF Next, MainStep, Fail, vars

(* Worker w can take its next step: it does not spin on a held lock. *)
CanStep(w) ==
    \/ pc[w] \in {"test", "bump", "write"}
    \/ pc[w] = "lock" /\ mutex[PoolOf[w]] = Nobody

(* Until the total is printed, or a write fails, main or some worker can   *)
(* take a step.                                                            *)
NeverStuck ==
    hpc # "done" /\ ~failed =>
        \/ hpc \in {"create", "report"}
        \/ hpc = "join" /\ pc[i] = "done"
        \/ \E w \in Workers : CanStep(w)

(* The workers of a pool never wait for one another in a circle, and main  *)
(* waits only for a worker that can still end, for every number of workers *)
(* and pools, pools without a worker included.                             *)
THEOREM SomebodyCanGoOn == Spec => []NeverStuck
<1>1. TypeOK /\ LockInv /\ HolderInv /\ StartInv => NeverStuck
  <2> SUFFICES ASSUME TypeOK, LockInv, HolderInv, StartInv, hpc = "join", pc[i] # "done"
               PROVE  \E w \in Workers : CanStep(w)
    BY DEF NeverStuck, TypeOK
  <2>1. i \in Workers /\ pc[i] \in {"lock", "test", "bump", "write"}
    BY DEF TypeOK, StartInv
  <2>2. PoolOf[i] \in PoolIds
    BY <2>1, PoolOfType
  <2>3. CASE pc[i] = "lock" /\ mutex[PoolOf[i]] # Nobody
    <3>1. PICK v \in Workers : mutex[PoolOf[i]] = v
      BY <2>2, <2>3 DEF TypeOK
    <3>2. PoolOf[v] = PoolOf[i]
      BY <2>2, <3>1 DEF HolderInv
    <3>3. pc[v] \in Critical
      BY <3>1, <3>2 DEF LockInv
    <3> QED
      BY <3>3 DEF CanStep, Critical
  <2>4. CASE ~ (pc[i] = "lock" /\ mutex[PoolOf[i]] # Nobody)
    BY <2>1, <2>4 DEF CanStep
  <2> QED
    BY <2>3, <2>4
<1>2. IInv => TypeOK /\ LockInv
  BY DEF IInv
<1> QED
  BY <1>1, <1>2, Inductive, HolderInit, HolderStep, StartStep, PTL DEF Spec

(* How far a worker has come between two regions, and main as a whole. *)
Order ==
    [none |-> 0, write |-> 1, lock |-> 2, test |-> 3, bump |-> 4, done |-> 5]

Stage(w) == Order[pc[w]]

MainStage ==
    IF hpc = "create" THEN i
      ELSE IF hpc = "join" THEN Concurrency + i
             ELSE IF hpc = "report" THEN 2 * Concurrency ELSE 2 * Concurrency + 1

(* A step that hands out a region. *)
HandsOut ==
    \E p \in PoolIds : cur_off' = [cur_off EXCEPT ![p] = @ + XferSize]

(* A step on the way to the next region: nobody falls back, and somebody   *)
(* advances.                                                               *)
Ahead ==
    /\ cur_off' = cur_off
    /\ \A w \in Workers : Stage(w)' >= Stage(w)
    /\ MainStage' >= MainStage
    /\ MainStage' > MainStage \/ \E w \in Workers : Stage(w)' > Stage(w)

(* A pool's offset stops in the transfer that reaches the total. *)
OffsetsBounded == \A p \in PoolIds : cur_off[p] < TotalSize + XferSize

(* A write fails, after which there is no further step. *)
Fails == ~failed /\ failed'

(* Only so many regions can be handed out, and between two of them         *)
(* everybody only advances.                                                *)
WindsDown ==
    /\ []OffsetsBounded
    /\ [][(~failed /\ (HandsOut \/ Ahead)) \/ Fails]_vars

LEMMA StageNumbers ==
    ASSUME TypeOK
    PROVE  MainStage \in 0..(2 * Concurrency + 1) /\ \A w \in Workers : Stage(w) \in 0..5
<1>1. \A w \in Workers : Stage(w) \in 0..5
  BY DEF TypeOK, Stage, Order
<1>2. i \in Nat /\ i < Concurrency /\ Concurrency \in Nat
  BY Options DEF TypeOK, Workers
<1>3. MainStage \in 0..(2 * Concurrency + 1)
  BY <1>2 DEF MainStage, TypeOK
<1> QED
  BY <1>1, <1>3

LEMMA OffsetsStep ==
    TypeOK /\ DrawInv /\ OffsetsBounded /\ [Next]_vars => OffsetsBounded'
<1> SUFFICES ASSUME TypeOK, DrawInv, OffsetsBounded, [Next]_vars PROVE OffsetsBounded'
  OBVIOUS
<1>1. CASE UNCHANGED cur_off
  BY <1>1 DEF OffsetsBounded
<1>2. ASSUME NEW w \in Workers, Bump(w) PROVE OffsetsBounded'
  <2>1. /\ PoolOf[w] \in PoolIds /\ cur_off[PoolOf[w]] < TotalSize
        /\ cur_off' = [cur_off EXCEPT ![PoolOf[w]] = @ + XferSize]
    BY <1>2, PoolOfType DEF Bump, DrawInv
  <2> QED
    BY <2>1, Options DEF OffsetsBounded, TypeOK
<1>3. ASSUME NEW w \in Workers, WorkerStep(w), ~Bump(w) PROVE UNCHANGED cur_off
  BY <1>3 DEF WorkerStep, Acquire, AcquireUnlocked, Draw, Leave, Write, poolVars
<1>4. ASSUME Create PROVE UNCHANGED cur_off
  BY <1>4 DEF Create, poolVars
<1> QED
  BY <1>1, <1>2, <1>3, <1>4, StepKinds

(* If one worker advances and nobody else moves, that is a step ahead. *)
LEMMA OneAhead ==
    ASSUME TypeOK, TypeOK', NEW w \in Workers, NEW c, pc' = [pc EXCEPT ![w] = c],
           Stage(w)' > Stage(w)
    PROVE  \A v \in Workers : Stage(v)' >= Stage(v)
<1> SUFFICES ASSUME NEW v \in Workers PROVE Stage(v)' >= Stage(v)
  OBVIOUS
<1>1. Stage(v) \in Int
  BY StageNumbers
<1>2. CASE v = w
  <2>1. Stage(w)' \in Int
    BY DEF TypeOK, Stage, Order
  <2> QED
    BY <1>1, <1>2, <2>1
<1>3. CASE v # w
  <2>1. Stage(v)' = Stage(v)
    BY <1>3 DEF Stage, TypeOK
  <2> QED
    BY <1>1, <2>1
<1> QED
  BY <1>2, <1>3

LEMMA MainAhead ==
    ASSUME TypeOK, TypeOK', CreateInv, Create \/ Join \/ Report
    PROVE  Ahead
<1>1. i \in Nat /\ i < Concurrency /\ Concurrency \in Nat /\ i \in Workers
  BY Options DEF TypeOK, Workers
<1>2. CASE Create
  <2>1. PICK w \in Workers : w = i
    BY <1>1
  <2>2. /\ pc[w] = "none" /\ pc' = [pc EXCEPT ![w] = "lock"] /\ cur_off' = cur_off
        /\ hpc = "create"
        /\ \/ hpc' = "create" /\ i' = i + 1
           \/ hpc' = "join" /\ i' = 0
    BY <1>2, <2>1 DEF Create, CreateInv, Workers, poolVars
  <2>3. Stage(w) = 0 /\ Stage(w)' = 2
    BY <2>2 DEF Stage, Order, TypeOK
  <2>4. \A v \in Workers : Stage(v)' >= Stage(v)
    <3>1. Stage(w)' > Stage(w)
      BY <2>3
    <3> QED
      BY <2>2, <3>1, OneAhead
  <2>5. MainStage = i /\ MainStage' \in {i + 1, Concurrency}
    BY <1>1, <2>2 DEF MainStage
  <2>6. MainStage' > MainStage
    BY <1>1, <2>5
  <2> QED
    BY <1>1, <2>2, <2>4, <2>5, <2>6 DEF Ahead
<1>3. CASE Join \/ Report
  <2>1. pc' = pc /\ cur_off' = cur_off
    BY <1>3 DEF Join, JoinNoWait, Report, poolVars
  <2>2. \A v \in Workers : Stage(v)' = Stage(v) /\ Stage(v) \in Int
    BY <2>1, StageNumbers DEF Stage
  <2>3. \A v \in Workers : Stage(v)' >= Stage(v)
    BY <2>2
  <2>4. CASE Join
    <3>1. MainStage = Concurrency + i /\ MainStage' \in {Concurrency + (i + 1), 2 * Concurrency}
      BY <2>4 DEF Join, JoinNoWait, MainStage
    <3>2. MainStage' > MainStage /\ MainStage' >= MainStage
      BY <1>1, <3>1
    <3> QED
      BY <2>1, <2>3, <3>2 DEF Ahead
  <2>5. CASE Report
    <3>1. MainStage = 2 * Concurrency /\ MainStage' = 2 * Concurrency + 1
      BY <2>5 DEF Report, MainStage
    <3>2. MainStage' > MainStage /\ MainStage' >= MainStage
      BY <1>1, <3>1
    <3> QED
      BY <2>1, <2>3, <3>2 DEF Ahead
  <2> QED
    BY <1>3, <2>4, <2>5
<1> QED
  BY <1>2, <1>3

LEMMA WorkerAhead ==
    ASSUME TypeOK, TypeOK', NEW w \in Workers, WorkerStep(w)
    PROVE  HandsOut \/ Ahead
<1>1. CASE Bump(w)
  BY <1>1, PoolOfType DEF Bump, HandsOut
<1>2. CASE ~Bump(w)
  <2>1. UNCHANGED <<hpc, i, cur_off>>
    BY <1>2 DEF WorkerStep, Acquire, AcquireUnlocked, Draw, Leave, Write, mainVars, poolVars
  <2>2. \/ pc[w] = "lock"  /\ pc' = [pc EXCEPT ![w] = "test"]
        \/ pc[w] = "test"  /\ pc' = [pc EXCEPT ![w] = "bump"]
        \/ pc[w] = "test"  /\ pc' = [pc EXCEPT ![w] = "done"]
        \/ pc[w] = "write" /\ pc' = [pc EXCEPT ![w] = "lock"]
    BY <1>2 DEF WorkerStep, Acquire, AcquireUnlocked, Draw, Leave, Write
  <2>3. Stage(w)' > Stage(w)
    BY <2>2 DEF Stage, Order, TypeOK
  <2>4. \A v \in Workers : Stage(v)' >= Stage(v)
    BY <2>2, <2>3, OneAhead
  <2>5. MainStage' = MainStage /\ MainStage \in Int
    BY <2>1, StageNumbers DEF MainStage
  <2>6. MainStage' >= MainStage
    BY <2>5
  <2> QED
    BY <2>1, <2>3, <2>4, <2>6 DEF Ahead
<1> QED
  BY <1>1, <1>2

(* The benchmark winds down.  With SomebodyCanGoOn it follows that every   *)
(* worker ends, in whatever order they get the lock, unless a write fails: *)
(* all that is left to fairness is that some step is taken while one can   *)
(* be.                                                                     *)
THEOREM WritersWindDown == Spec => WindsDown
<1>1. Init => OffsetsBounded
  BY Options DEF Init, OffsetsBounded
<1>2. TypeOK /\ CreateInv /\ [Next]_vars => [(~failed /\ (HandsOut \/ Ahead)) \/ Fails]_vars
  <2> SUFFICES ASSUME TypeOK, CreateInv, Next
               PROVE  (~failed /\ (HandsOut \/ Ahead)) \/ Fails
    OBVIOUS
  <2>1. TypeOK'
    BY TypeStep
  <2>2. CASE MainStep
    BY <2>1, <2>2, MainAhead DEF MainStep
  <2>3. ASSUME NEW w \in Workers, WorkerStep(w) PROVE ~failed /\ (HandsOut \/ Ahead)
    BY <2>1, <2>3, WorkerAhead DEF WorkerStep
  <2>4. ASSUME NEW w \in Workers, Fail(w) PROVE Fails
    BY <2>4 DEF Fail, Fails
  <2> QED
    BY <2>2, <2>3, <2>4 DEF Next
<1>3. IInv => TypeOK /\ CreateInv /\ DrawInv
  BY DEF IInv
<1> QED
  BY <1>1, <1>2, <1>3, OffsetsStep, Inductive, PTL DEF Spec, WindsDown

-----------------------------------------------------------------------------
(* Every region of every pool that has a worker is written when            *)
(* run_benchmark has joined the workers and prints its result.             *)
THEOREM EveryRegionWritten == Spec => []AllWritten
<1>1. IInv => AllWritten
  <2> SUFFICES ASSUME IInv, hpc \in {"report", "done"}, NEW p \in Served
               PROVE  written[p] = Regions
    BY DEF AllWritten
  <2>1. PICK w \in Workers : p = PoolOf[w]
    BY DEF Served
  <2>2. p \in PoolIds /\ cur_off[p] \in Nat /\ TotalSize \in Nat
    BY <2>1, PoolOfType, Options DEF IInv, TypeOK
  <2>3. \A v \in Workers : v < Concurrency /\ pc[v] = "done"
    BY Options DEF IInv, JoinInv, JoinedUpTo, Workers
  <2>4. cur_off[p] >= TotalSize
    BY <2>1, <2>3 DEF IInv, LeaveInv
  <2>5. written[p] \subseteq Regions
    BY <2>2 DEF IInv, BehindInv
  <2>6. ASSUME NEW o \in Regions PROVE o \in written[p]
    <3>1. o < cur_off[p]
      BY <2>2, <2>4, RegionIsMultiple
    <3> QED
      BY <2>2, <2>3, <3>1 DEF IInv, CoverInv, InFlight
  <2> QED
    BY <2>5, <2>6
<1> QED
  BY <1>1, Inductive, PTL

(* No region of a pool is written by two workers of bench_worker, at once  *)
(* or one after the other.                                                 *)
THEOREM RegionsHaveOneWriter == Spec => []OneWriter
<1>1. IInv => OneWriter
  <2> SUFFICES ASSUME IInv, NEW w \in Workers, Holds[w] # -1
               PROVE  /\ Holds[w] \notin written[PoolOf[w]]
                      /\ \A v \in Workers :
                             PoolOf[v] = PoolOf[w] /\ Holds[v] = Holds[w] => v = w
    BY DEF OneWriter, Queue!OneWriter, Queue!None, Queue!Writing
  <2>1. pc[w] = "write" /\ Holds[w] = my_off[w] /\ my_off[w] \in Nat
    BY DEF Holds, IInv, TypeOK
  <2>2. \A v \in Workers : Holds[v] = Holds[w] => pc[v] = "write" /\ my_off[v] = my_off[w]
    BY <2>1 DEF Holds
  <2> QED
    BY <2>1, <2>2 DEF IInv, OnceInv, InFlight
<1> QED
  BY <1>1, Inductive, PTL

-----------------------------------------------------------------------------
(* Refinement: advancing the offset hands a region out, writing it puts it *)
(* down, every other step stutters.                                        *)

LEMMA QueueInitMaps == Init => Queue!QueueInit
  BY DEF Init, Queue!QueueInit, Queue!None, Holds

LEMMA QueueStepMaps == IInv /\ [Next]_vars => [Queue!QueueNext]_(Queue!queueVars)
<1> SUFFICES ASSUME IInv, [Next]_vars
             PROVE  Queue!QueueNext \/ UNCHANGED Queue!queueVars
  OBVIOUS
<1> USE PoolOfType DEF IInv, TypeOK
<1>1. CASE Create
  <2>1. \A v \in Workers : pc'[v] = "write" <=> pc[v] = "write"
    BY <1>1 DEF Create, CreateInv, Workers
  <2> QED
    BY <1>1, <2>1 DEF Create, poolVars, Queue!queueVars, Holds
<1>2. CASE UNCHANGED <<pc, my_off, cur_off, mutex, written>>
  BY <1>2 DEF Queue!queueVars, Holds
<1>3. ASSUME NEW w \in Workers, Acquire(w) PROVE UNCHANGED Queue!queueVars
  <2>1. \A v \in Workers : pc'[v] = "write" <=> pc[v] = "write"
    BY <1>3 DEF Acquire, AcquireUnlocked
  <2> QED
    BY <1>3, <2>1 DEF Acquire, AcquireUnlocked, Queue!queueVars, Holds
<1>4. ASSUME NEW w \in Workers, Draw(w) PROVE UNCHANGED Queue!queueVars
  <2>1. \A v \in Workers : /\ pc'[v] = "write" <=> pc[v] = "write"
                           /\ pc[v] = "write" => my_off'[v] = my_off[v]
    BY <1>4 DEF Draw
  <2> QED
    BY <1>4, <2>1 DEF Draw, poolVars, Queue!queueVars, Holds
<1>5. ASSUME NEW w \in Workers, Leave(w) PROVE UNCHANGED Queue!queueVars
  <2>1. \A v \in Workers : pc'[v] = "write" <=> pc[v] = "write"
    BY <1>5 DEF Leave
  <2> QED
    BY <1>5, <2>1 DEF Leave, Queue!queueVars, Holds
<1>6. ASSUME NEW w \in Workers, Bump(w) PROVE Queue!Hand(w)
  <2>1. /\ my_off[w] = cur_off[PoolOf[w]] /\ cur_off[PoolOf[w]] < TotalSize
        /\ pc[w] = "bump" /\ UNCHANGED <<my_off, written>>
        /\ cur_off' = [cur_off EXCEPT ![PoolOf[w]] = cur_off[PoolOf[w]] + XferSize]
        /\ pc' = [pc EXCEPT ![w] = "write"]
    BY <1>6 DEF Bump, DrawInv
  <2>2. Holds[w] = -1
    BY <2>1 DEF Holds
  <2>3. Holds' = [Holds EXCEPT ![w] = cur_off[PoolOf[w]]]
    BY <2>1 DEF Holds
  <2> QED
    BY <2>1, <2>2, <2>3 DEF Queue!Hand, Queue!None
<1>7. ASSUME NEW w \in Workers, Write(w) PROVE Queue!Put(w)
  <2>1. /\ pc[w] = "write" /\ my_off[w] \in Nat /\ UNCHANGED <<my_off, cur_off>>
        /\ written' = [written EXCEPT ![PoolOf[w]] = written[PoolOf[w]] \cup {my_off[w]}]
        /\ pc' = [pc EXCEPT ![w] = "lock"]
    BY <1>7 DEF Write, poolVars
  <2>2. Holds[w] = my_off[w] /\ Holds[w] # -1
    BY <2>1 DEF Holds
  <2>3. Holds' = [Holds EXCEPT ![w] = -1]
    BY <2>1 DEF Holds
  <2> QED
    BY <2>1, <2>2, <2>3 DEF Queue!Put, Queue!None
<1> QED
  BY StepKinds, <1>1, <1>2, <1>3, <1>4, <1>5, <1>6, <1>7 DEF WorkerStep, Queue!QueueNext

(* Lock, test, update and unlock of bench_worker implement the atomic      *)
(* hand-out of regions.                                                    *)
THEOREM ImplementsQueue == Spec => RefinesQueue
<1>1. Init => Queue!QueueInit
  BY QueueInitMaps
<1>2. IInv /\ [Next]_vars => [Queue!QueueNext]_(Queue!queueVars)
  BY QueueStepMaps
<1> QED
  BY <1>1, <1>2, Inductive, PTL DEF Spec, RefinesQueue, Queue!QueueSpec

-----------------------------------------------------------------------------
(* What run_benchmark reports. *)

ReportInv ==
    /\ hpc = "done" => reported = TotalSize * PoolCount
    /\ \A p \in PoolIds \ Served : written[p] = {}

(* A pool has as many regions as it takes to hold the total. *)
LEMMA RegionCount ==
    /\ IsFiniteSet(Regions)
    /\ Cardinality(Regions) \in Nat
    /\ XferSize * Cardinality(Regions) = TotalSize + Excess
    /\ Excess \in 0..(XferSize - 1)
<1> DEFINE q == TotalSize \div XferSize
           r == TotalSize % XferSize
           K == IF r = 0 THEN q ELSE q + 1
           f == [k \in 0..(K - 1) |-> k * XferSize]
<1>1. q \in Nat /\ r \in 0..(XferSize - 1) /\ TotalSize = (XferSize * q) + r
  BY Options
<1>2. Excess = (IF r = 0 THEN 0 ELSE XferSize - r)
  BY DEF Excess
<1> HIDE DEF q, r
<1>3. Excess \in 0..(XferSize - 1)
  BY <1>1, <1>2, Options
<1>4. K \in Nat /\ XferSize * K = TotalSize + Excess
  <2>1. CASE r = 0
    BY <1>1, <1>2, <2>1, Options
  <2>2. CASE r # 0
    <3>1. XferSize * (q + 1) = (XferSize * q) + XferSize
      BY <1>1, Options
    <3>2. XferSize * q \in Nat
      BY <1>1, Options
    <3> QED
      BY <1>1, <1>2, <2>2, <3>1, <3>2, Options
  <2> QED
    BY <2>1, <2>2
<1> HIDE DEF K
<1>5. ASSUME NEW k \in 0..(K - 1)
      PROVE  k * XferSize \in Regions
  <2>1. k \in Nat /\ (k + 1) * XferSize <= K * XferSize
    BY <1>4, Options
  <2>2. (k + 1) * XferSize = k * XferSize + XferSize /\ k * XferSize \in Nat
    BY <2>1, Options
  <2>3. K * XferSize = TotalSize + Excess
    BY <1>4, Options
  <2>4. k * XferSize < TotalSize
    BY <1>3, <2>1, <2>2, <2>3, Options
  <2> QED
    BY <2>1, <2>2, <2>4, MultipleIsRegion DEF Multiple
<1>6. ASSUME NEW o \in Regions
      PROVE  \E k \in 0..(K - 1) : f[k] = o
  <2>1. o \in Nat /\ o < TotalSize /\ Multiple(o)
    BY RegionIsMultiple
  <2>2. PICK k \in Nat : o = k * XferSize
    BY <2>1 DEF Multiple
  <2>3. k < K
    <3> SUFFICES ASSUME K <= k PROVE FALSE
      BY <1>4, <2>2
    <3>1. K * XferSize <= k * XferSize
      BY <1>4, <2>2, Options
    <3>2. K * XferSize = TotalSize + Excess
      BY <1>4, Options
    <3>3. TotalSize <= o
      BY <1>3, <2>1, <2>2, <3>1, <3>2, Options
    <3> QED
      BY <2>1, <3>3, Options
  <2> QED
    BY <1>4, <2>2, <2>3
<1>7. ASSUME NEW k \in 0..(K - 1), NEW m \in 0..(K - 1), k * XferSize = m * XferSize
      PROVE  k = m
  <2>1. k \in Nat /\ m \in Nat
    BY <1>4
  <2>2. ASSUME NEW a \in Nat, NEW b \in Nat, a < b PROVE a * XferSize < b * XferSize
    <3>1. (a + 1) * XferSize <= b * XferSize
      BY <2>2, Options
    <3>2. (a + 1) * XferSize = a * XferSize + XferSize /\ a * XferSize \in Nat /\ b * XferSize \in Nat
      BY Options
    <3> QED
      BY <3>1, <3>2, Options
  <2>3. k * XferSize \in Nat
    BY <2>1, Options
  <2>4. ~(k < m) /\ ~(m < k)
    BY <1>7, <2>1, <2>2, <2>3
  <2> QED
    BY <2>1, <2>4
<1>8. f \in Bijection(0..(K - 1), Regions)
  <2>1. f \in [0..(K - 1) -> Regions]
    BY <1>5
  <2>2. IsInjective(f)
    BY <1>7 DEF IsInjective
  <2> QED
    BY <2>1, <2>2, <1>6 DEF Bijection, Injection, Surjection
<1>9. IsFiniteSet(0..(K - 1)) /\ Cardinality(0..(K - 1)) = K
  <2>1. 0 \in Int /\ K - 1 \in Int
    BY <1>4
  <2> QED
    BY <1>4, <2>1, FS_Interval
<1>10. IsFiniteSet(Regions) /\ Cardinality(Regions) = K
  BY <1>8, <1>9, FS_Bijection DEF ExistsBijection
<1> QED
  BY <1>3, <1>4, <1>10

(* The pools with a worker, and the others, are all there are. *)
LEMMA PoolCounts ==
    /\ IsFiniteSet(Served) /\ Cardinality(Served) \in Nat
    /\ Cardinality(PoolIds \ Served) \in Nat
    /\ Cardinality(Served) + Cardinality(PoolIds \ Served) = PoolCount
<1>1. IsFiniteSet(PoolIds) /\ Cardinality(PoolIds) = PoolCount
  <2>1. 0 \in Int /\ PoolCount - 1 \in Int
    BY Options
  <2> QED
    BY <2>1, FS_Interval, Options DEF PoolIds
<1>2. Served \in SUBSET PoolIds
  BY PoolOfType DEF Served
<1>3. IsFiniteSet(Served) /\ IsFiniteSet(PoolIds \ Served)
  BY <1>1, <1>2, FS_Subset
<1>4. Cardinality(PoolIds \ Served) = Cardinality(PoolIds) - Cardinality(PoolIds \cap Served)
  BY <1>1, FS_Difference
<1>5. PoolIds \cap Served = Served
  BY <1>2
<1>6. Cardinality(Served) \in Nat /\ Cardinality(PoolIds \ Served) \in Nat
  BY <1>3, FS_CardinalityType
<1> QED
  BY <1>1, <1>3, <1>4, <1>5, <1>6, Options

LEMMA ReportStep == TypeOK /\ ReportInv /\ [Next]_vars => ReportInv'
<1> SUFFICES ASSUME TypeOK, ReportInv, [Next]_vars PROVE ReportInv'
  OBVIOUS
<1>1. PoolIds' = PoolIds /\ Served' = Served
  BY DEF PoolIds, Served, PoolOf, Workers
<1>2. hpc' = "done" => reported' = TotalSize * PoolCount
  BY StepKinds DEF ReportInv, Create, Report, Join, JoinNoWait, runVars, mainVars
<1>3. ASSUME NEW p \in PoolIds \ Served PROVE written'[p] = {}
  <2>1. ASSUME NEW w \in Workers, WorkerStep(w) PROVE written'[p] = written[p]
    <3>1. PoolOf[w] # p
      BY DEF Served
    <3> QED
      BY <2>1, <3>1 DEF WorkerStep, Acquire, AcquireUnlocked, Draw, Leave, Bump, Write, TypeOK
  <2>2. Create => written' = written
    BY DEF Create
  <2> QED
    BY <2>1, <2>2, StepKinds DEF ReportInv
<1> QED
  BY <1>1, <1>2, <1>3 DEF ReportInv

(* The total that run_benchmark computes from its options, set against     *)
(* what the workers wrote, for all sizes and numbers: the two are equal    *)
(* but for the excess of each last region and for pools without a worker,  *)
(* which the programs do not exclude.                                      *)
THEOREM ReportedIsWritten == Spec => []ReportedTotal
<1>1. AllWritten /\ ReportInv => ReportedTotal
  <2> SUFFICES ASSUME AllWritten, ReportInv, hpc = "done"
               PROVE  reported + Cardinality(Served) * Excess
                        = XferSize * Cardinality(WrittenRegions)
                            + TotalSize * Cardinality(PoolIds \ Served)
    BY DEF ReportedTotal
  <2>1. \A p \in Served : written[p] = Regions
    BY DEF AllWritten
  <2>2. WrittenRegions = Served \X Regions
    <3>1. Served \subseteq PoolIds
      BY PoolOfType DEF Served
    <3>2. \A p \in PoolIds \ Served : written[p] = {}
      BY DEF ReportInv
    <3> QED
      BY <2>1, <3>1, <3>2 DEF WrittenRegions
  <2> DEFINE s == Cardinality(Served)
             u == Cardinality(PoolIds \ Served)
             n == Cardinality(Regions)
  <2>3. Cardinality(WrittenRegions) = s * n
    BY <2>2, PoolCounts, RegionCount, FS_Product
  <2>4. s \in Nat /\ u \in Nat /\ n \in Nat /\ s + u = PoolCount
    BY PoolCounts, RegionCount
  <2>5. XferSize * n = TotalSize + Excess /\ Excess \in Nat
    BY RegionCount, Options
  <2>6. reported = TotalSize * PoolCount
    BY DEF ReportInv
  <2> HIDE DEF s, u, n
  <2>7. XferSize * (s * n) = (XferSize * n) * s
    BY <2>4, Options
  <2>8. (TotalSize + Excess) * s = (TotalSize * s) + (s * Excess)
    BY <2>4, <2>5, Options
  <2>9. TotalSize * PoolCount = (TotalSize * s) + (TotalSize * u)
    BY <2>4, Options
  <2>10. TotalSize * s \in Nat /\ TotalSize * u \in Nat /\ s * Excess \in Nat
    BY <2>4, <2>5, Options
  <2>11. reported + (s * Excess) = (XferSize * (s * n)) + (TotalSize * u)
    BY <2>5, <2>6, <2>7, <2>8, <2>9, <2>10
  <2> QED
    BY <2>3, <2>11 DEF s, u
<1>2. Init => ReportInv
  BY DEF Init, ReportInv
<1>3. IInv => TypeOK
  BY DEF IInv
<1> QED
  BY <1>1, <1>2, <1>3, Inductive, EveryRegionWritten, ReportStep, PTL DEF Spec
=============================================================================
