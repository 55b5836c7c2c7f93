-------------------------- MODULE BwTransfer_proofs --------------------------
(***************************************************************************)
(* Proofs about BwTransfer for every number of workers, streams and rounds *)
(* and all sizes.                                                          *)
(***************************************************************************)
EXTENDS BwTransfer, TLAPS

(* The options make sense: a transfer fits in the buffer. *)
XferFits == XferSize <= BufSize

(* The lock is held exactly inside the critical section. *)
LockInv == \A w \in Workers : mutex = w <=> pc[w] \in Critical

(* What is between the loop test and the transfer occupies an ES. *)
RunInv == \A w \in Workers : pc[w] \in Critical \cup {"lock", "issue"} => Running(w)

SlotOffset(off) == \E k \in 0..(Slots - 1) : off = k * XferSize

(* Until the ring wraps for the first time the next ticket is that of slot *)
(* `taken'; afterwards it is some slot.                                    *)
OffsetInv ==
    /\ SlotOffset(NextOffset)
    /\ taken < Slots => NextOffset = taken * XferSize
    /\ \A w \in Workers : /\ pc[w] = "bump" => my_off[w] = cur_off
                          /\ pc[w] = "wrap" => cur_off = my_off[w] + XferSize
                          /\ pc[w] \in InFlight => SlotOffset(my_off[w])

(* No hole among the drawn slots. *)
CoverInv ==
    \A k \in 0..(Slots - 1) :
        k < taken => \/ k * XferSize \in moved
                     \/ \E w \in Workers : pc[w] \in InFlight /\ my_off[w] = k * XferSize

(* Workers are created and joined in the order of their index. *)
Joined == IF hpc = "create" THEN 0 ELSE IF hpc = "join" THEN i ELSE Concurrency

JoinInv ==
    /\ hpc = "create" => \A w \in Workers : w >= i => pc[w] = "none"
    /\ \A w \in Workers : w < Joined => pc[w] = "done"

(* What worker w has drawn, counting the transfer not yet in bytes_moved.  *)
Credit(w) ==
    bytes_moved[w] + IF pc[w] \in InFlight \cup {"woken"} THEN XferSize ELSE 0

(* p holds the partial sums of the credits: their total is what was drawn, *)
(* and the handler's sum is one of them.                                   *)
PartialSums(p) ==
    /\ p[0] = 0
    /\ \A w \in Workers : p[w + 1] = p[w] + Credit(w)
    /\ p[Concurrency] = XferSize * taken
    /\ p[Joined] = out

SumInv == \E p \in [0..Concurrency -> Nat] : PartialSums(p)

-----------------------------------------------------------------------------
(* The constants, as the proofs use them. *)
LEMMA Options ==
    /\ Concurrency \in Nat \ {0}
    /\ Threads \in Nat
    /\ XferSize \in Nat \ {0}
    /\ BufSize \in Nat \ {0}
    /\ MaxMoves \in Nat
  BY BwAssumption DEF OptionsAccepted

(* Slots whole transfers fit in the buffer, and one more does not. *)
LEMMA SlotsFit ==
    /\ Slots \in Nat
    /\ Slots * XferSize <= BufSize
    /\ BufSize < (Slots + 1) * XferSize
    /\ XferFits => Slots >= 1
  BY Options DEF Slots, XferFits

(* An offset of the ring lies inside the buffer, and the wrap test sends   *)
(* exactly the last one back to the start.                                 *)
LEMMA WrapStep ==
    ASSUME NEW k \in 0..(Slots - 1)
    PROVE  /\ k * XferSize \in Nat
           /\ Accepted(k * XferSize)
           /\ k = Slots - 1 => WrapAround(k * XferSize + XferSize) = 0
           /\ k # Slots - 1 => WrapAround(k * XferSize + XferSize) = (k + 1) * XferSize
<1>1. /\ k \in Nat /\ k + 1 <= Slots /\ Slots \in Nat
      /\ XferSize \in Nat /\ XferSize > 0 /\ BufSize \in Nat
  BY SlotsFit, Options
<1>2. k * XferSize \in Nat /\ (k + 1) * XferSize = k * XferSize + XferSize
  BY <1>1
<1>3. (k + 1) * XferSize <= Slots * XferSize
  BY <1>1
<1>4. Accepted(k * XferSize)
  BY <1>1, <1>2, <1>3, SlotsFit DEF Accepted
<1>5. ASSUME k = Slots - 1 PROVE WrapAround(k * XferSize + XferSize) = 0
  BY <1>1, <1>2, <1>5, SlotsFit DEF WrapAround
<1>6. ASSUME k # Slots - 1
      PROVE  WrapAround(k * XferSize + XferSize) = (k + 1) * XferSize
  <2>1. k + 2 <= Slots
    BY <1>1, <1>6
  <2>2. (k + 2) * XferSize <= Slots * XferSize
    BY <1>1, <2>1
  <2>3. (k + 2) * XferSize = k * XferSize + XferSize + XferSize
    BY <1>1
  <2> QED
    BY <1>1, <1>2, <2>2, <2>3, SlotsFit DEF WrapAround
<1> QED
  BY <1>2, <1>4, <1>5, <1>6

-----------------------------------------------------------------------------
(* Type correctness. *)

LEMMA TypeInit == Init => TypeOK
<1> SUFFICES ASSUME Init PROVE TypeOK
  OBVIOUS
<1>1. 0 \in Workers /\ ES = 0..Threads
  BY Options DEF Workers, ES
<1>2. on \in [ES -> Workers \cup {Handler, Nobody}]
  BY DEF Init
<1> QED
  BY <1>1, <1>2 DEF Init, TypeOK, WorkerPc

LEMMA TypeStep == TypeOK /\ [Next]_vars => TypeOK'
<1> SUFFICES ASSUME TypeOK, [Next]_vars PROVE TypeOK'
  OBVIOUS
<1> USE Options DEF TypeOK, WorkerPc, Critical, InFlight
<1>1. CASE Create
  <2>1. pc' \in [Workers -> WorkerPc]
    BY <1>1 DEF Create
  <2>2. i' \in Workers /\ hpc' \in {"create", "join", "respond"}
    BY <1>1 DEF Create, Workers
  <2> QED
    BY <1>1, <2>1, <2>2 DEF Create, workerVars
<1>2. CASE JoinWait
  BY <1>2 DEF JoinWait, workerVars, handlerVars
<1>3. CASE JoinWake
  BY <1>3 DEF JoinWake, workerVars, handlerVars
<1>4. CASE Join
  <2>1. out' \in Nat
    BY <1>4 DEF Join, JoinNoWait
  <2>2. on' \in [ES -> Workers \cup {Handler, Nobody}]
    BY <1>4 DEF Join, JoinNoWait, Vacate
  <2>3. i' \in Workers /\ hpc' \in {"create", "join", "respond"}
    BY <1>4 DEF Join, JoinNoWait, Workers
  <2> QED
    BY <1>4, <2>1, <2>2, <2>3 DEF Join, JoinNoWait, workerVars
<1>5. CASE Expire
  BY <1>5 DEF Expire, workerVars, handlerVars
<1>6. ASSUME NEW w \in Workers, Begin(w) PROVE TypeOK'
  BY <1>6 DEF Begin, LoopTest, NextRound, Finish, Vacate, workerVars, handlerVars
<1>7. ASSUME NEW w \in Workers, Acquire(w) PROVE TypeOK'
  BY <1>7 DEF Acquire, AcquireUnlocked, handlerVars
<1>8. ASSUME NEW w \in Workers, Fetch(w) PROVE TypeOK'
  BY <1>8 DEF Fetch, handlerVars
<1>9. ASSUME NEW w \in Workers, Bump(w) PROVE TypeOK'
  BY <1>9 DEF Bump, handlerVars
<1>10. ASSUME NEW w \in Workers, Wrap(w) PROVE TypeOK'
  BY <1>10 DEF Wrap, WrapAround, Unlock, handlerVars
<1>11. ASSUME NEW w \in Workers, Transfer(w) PROVE TypeOK'
  BY <1>11 DEF Transfer, Vacate, workerVars, handlerVars
<1>12. ASSUME NEW w \in Workers, Account(w) PROVE TypeOK'
  BY <1>12 DEF Account, LoopTest, NextRound, Finish, Vacate, handlerVars
<1>13. ASSUME NEW w \in Workers, Complete(w) PROVE TypeOK'
  BY <1>13 DEF Complete, handlerVars
<1>14. ASSUME NEW w \in Workers, NEW e \in TransferEs, Dispatch(e, w) PROVE TypeOK'
  BY <1>14 DEF Dispatch, workerVars, handlerVars
<1>15. CASE UNCHANGED vars
  BY <1>15 DEF vars, workerVars, handlerVars
<1> QED
  BY <1>1, <1>2, <1>3, <1>4, <1>5, <1>6, <1>7, <1>8, <1>9, <1>10, <1>11, <1>12,
     <1>13, <1>14, <1>15 DEF Next, HandlerStep, WorkerStep

(* Every variable stays in its type. *)
THEOREM TypeCorrect == Spec => []TypeOK
  BY TypeInit, TypeStep, PTL DEF Spec

-----------------------------------------------------------------------------
(* Creating and joining in order. *)

LEMMA JoinInit == Init => JoinInv
  BY Options DEF Init, JoinInv, Joined, Workers

LEMMA JoinStep == TypeOK /\ JoinInv /\ [Next]_vars => JoinInv'
<1> SUFFICES ASSUME TypeOK, JoinInv, [Next]_vars PROVE JoinInv'
  OBVIOUS
<1> USE Options DEF TypeOK, JoinInv, Joined, Workers
<1>1. CASE Create
  <2>1. /\ hpc = "create" /\ i' \in {0, i + 1} /\ hpc' \in {"create", "join"}
        /\ hpc' = "create" => i' = i + 1
        /\ hpc' = "join" => i' = 0
    BY <1>1 DEF Create
  <2>2. \A w \in Workers : w > i => pc'[w] = "none"
    BY <1>1, <2>1 DEF Create
  <2>3. Joined' = 0
    BY <2>1
  <2> QED
    BY <2>1, <2>2, <2>3
<1>2. CASE JoinWait
  BY <1>2 DEF JoinWait, handlerVars
<1>3. CASE JoinWake
  BY <1>3 DEF JoinWake, handlerVars
<1>4. CASE Join
  <2>1. pc' = pc /\ hpc = "join" /\ pc[i] = "done" /\ i \in 0..(Concurrency - 1)
    BY <1>4 DEF Join, JoinNoWait
  <2>2. \/ hpc' = "join" /\ i' = i + 1
        \/ hpc' = "respond" /\ ~(i + 1 < Concurrency)
    BY <1>4 DEF Join, JoinNoWait
  <2>3. \A w \in Workers : w < i + 1 => pc[w] = "done"
    <3>1. Joined = i
      BY <2>1
    <3>2. \A w \in Workers : w < i => pc[w] = "done"
      BY <3>1
    <3> HIDE DEF TypeOK, JoinInv, Joined
    <3> QED
      BY <2>1, <3>2
  <2>4. hpc' # "create" /\ Joined' \in {i + 1, Concurrency}
    BY <2>2
  <2>5. Joined' = i + 1 \/ ~(i + 1 < Concurrency)
    BY <2>2
  <2>6. \A w \in Workers : pc'[w] = "done" \/ ~(w < Joined')
    <3> HIDE DEF TypeOK, JoinInv, Joined
    <3> QED
      BY <2>1, <2>3, <2>4, <2>5
  <2> QED
    BY <2>4, <2>6
<1>5. CASE Expire
  BY <1>5 DEF Expire, handlerVars
<1>6. ASSUME NEW w \in Workers, WorkerStep(w) \/ Complete(w)
      PROVE  /\ UNCHANGED handlerVars
             /\ pc[w] \notin {"none", "done"}
             /\ \E c \in WorkerPc : pc' = [pc EXCEPT ![w] = c]
  BY <1>6 DEF WorkerStep, Begin, LoopTest, NextRound, Finish, Acquire, AcquireUnlocked,
              Fetch, Bump, Wrap, Transfer, Account, Complete, WorkerPc, Critical, InFlight
<1>7. ASSUME NEW w \in Workers, WorkerStep(w) \/ Complete(w) PROVE JoinInv'
  BY <1>6, <1>7 DEF handlerVars
<1>8. ASSUME NEW w \in Workers, NEW e \in TransferEs, Dispatch(e, w) PROVE JoinInv'
  BY <1>8 DEF Dispatch, handlerVars
<1>9. CASE UNCHANGED vars
  BY <1>9 DEF vars, handlerVars
<1> QED
  BY <1>1, <1>2, <1>3, <1>4, <1>5, <1>7, <1>8, <1>9 DEF Next, HandlerStep

-----------------------------------------------------------------------------
(* The lock and the execution streams. *)

LEMMA LockInit == Init => LockInv /\ RunInv
  BY Options DEF Init, LockInv, RunInv, Critical, Workers, Nobody

(* A ULT keeps its ES when another one gives up its own. *)
LEMMA VacateOther ==
    ASSUME TypeOK, NEW u, NEW v, u # v, v # Nobody, Running(v), Vacate(u)
    PROVE  Running(v)'
  BY DEF TypeOK, Running, Vacate


LEMMA LockStep == TypeOK /\ JoinInv /\ LockInv /\ RunInv /\ [Next]_vars => (LockInv /\ RunInv)'
<1> SUFFICES ASSUME TypeOK, JoinInv, LockInv, RunInv, [Next]_vars PROVE (LockInv /\ RunInv)'
  OBVIOUS
<1> USE DEF LockInv, RunInv, Critical
<1>1. CASE Create
  <2>1. pc[i] = "none"
    BY <1>1 DEF Create, JoinInv, TypeOK, Workers
  <2> QED
    BY <1>1, <2>1 DEF Create, workerVars, Running, TypeOK
<1>2. CASE JoinWait
  BY <1>2 DEF JoinWait, workerVars, Running, TypeOK, Handler, Workers
<1>3. CASE JoinWake
  BY <1>3 DEF JoinWake, workerVars, Running, TypeOK, Nobody, Workers
<1>4. CASE Join
  <2>1. UNCHANGED on \/ Vacate(Handler)
    BY <1>4 DEF Join, JoinNoWait
  <2>2. ASSUME NEW v \in Workers, Running(v) PROVE Running(v)'
    <3>1. CASE UNCHANGED on
      BY <2>2, <3>1 DEF Running
    <3>2. CASE Vacate(Handler)
      BY <2>2, <3>2, VacateOther DEF Workers, Handler, Nobody
    <3> QED
      BY <2>1, <3>1, <3>2
  <2> QED
    BY <1>4, <2>2 DEF Join, JoinNoWait, workerVars
<1>5. CASE Expire
  BY <1>5 DEF Expire, workerVars, Running
<1>6. ASSUME NEW w \in Workers, Finish(w), pc[w] \in {"ready", "woken"}, UNCHANGED mutex
      PROVE  (LockInv /\ RunInv)'
  <2>1. \A v \in Workers \ {w} : Running(v) => Running(v)'
    BY <1>6, VacateOther DEF Finish, Workers, Nobody
  <2> QED
    BY <1>6, <2>1 DEF Finish, TypeOK
<1>7. ASSUME NEW w \in Workers, NextRound(w), pc[w] \in {"ready", "woken"}, Running(w),
             UNCHANGED mutex
      PROVE  (LockInv /\ RunInv)'
  BY <1>7 DEF NextRound, TypeOK, Running
<1>8. ASSUME NEW w \in Workers, Begin(w) \/ Account(w) PROVE (LockInv /\ RunInv)'
  BY <1>6, <1>7, <1>8 DEF Begin, Account, LoopTest, workerVars
<1>9. ASSUME NEW w \in Workers, Acquire(w) PROVE (LockInv /\ RunInv)'
  BY <1>9 DEF Acquire, AcquireUnlocked, TypeOK, Running, Nobody, Workers
<1>10. ASSUME NEW w \in Workers, Fetch(w) PROVE (LockInv /\ RunInv)'
  BY <1>10 DEF Fetch, TypeOK, Running
<1>11. ASSUME NEW w \in Workers, Bump(w) PROVE (LockInv /\ RunInv)'
  BY <1>11 DEF Bump, TypeOK, Running
<1>12. ASSUME NEW w \in Workers, Wrap(w) PROVE (LockInv /\ RunInv)'
  BY <1>12 DEF Wrap, Unlock, TypeOK, Running, Nobody, Workers
<1>13. ASSUME NEW w \in Workers, Transfer(w) PROVE (LockInv /\ RunInv)'
  <2>1. \A v \in Workers \ {w} : Running(v) => Running(v)'
    BY <1>13, VacateOther DEF Transfer, Workers, Nobody
  <2> QED
    BY <1>13, <2>1 DEF Transfer, TypeOK, workerVars
<1>14. ASSUME NEW w \in Workers, Complete(w) PROVE (LockInv /\ RunInv)'
  BY <1>14 DEF Complete, TypeOK, Running
<1>15. ASSUME NEW w \in Workers, NEW e \in TransferEs, Dispatch(e, w)
       PROVE  (LockInv /\ RunInv)'
  BY <1>15 DEF Dispatch, TypeOK, Running, workerVars, Nobody, Workers
<1>16. CASE UNCHANGED vars
  BY <1>16 DEF vars, workerVars, Running
<1> QED
  BY <1>1, <1>2, <1>3, <1>4, <1>5, <1>8, <1>9, <1>10, <1>11, <1>12, <1>13, <1>14,
     <1>15, <1>16 DEF Next, HandlerStep, WorkerStep

(* At every moment the holder of cur_off_mutex is running on some ES: no   *)
(* worker ever spins on a lock whose owner waits for that worker's ES.     *)
THEOREM HolderNeverSuspended == Spec => []HolderRuns
<1>1. TypeOK /\ LockInv /\ RunInv => HolderRuns
  BY DEF TypeOK, LockInv, RunInv, HolderRuns
<1> QED
  BY <1>1, TypeInit, TypeStep, JoinInit, JoinStep, LockInit, LockStep, PTL DEF Spec

-----------------------------------------------------------------------------
(* The ring: offsets and coverage. *)

Outside == {"none", "ready", "lock", "woken", "done"}

(* A step that leaves the ring alone. *)
Quiet ==
    /\ UNCHANGED <<cur_off, mutex, my_off, moved, taken>>
    /\ pc' \in [Workers -> WorkerPc]
    /\ \A w \in Workers : \/ pc'[w] = pc[w]
                          \/ pc[w] \in Outside /\ pc'[w] \in Outside

RingStep(w) ==
    Acquire(w) \/ Fetch(w) \/ Bump(w) \/ Wrap(w) \/ Transfer(w) \/ Complete(w)

LEMMA StepKinds ==
    ASSUME TypeOK, JoinInv, [Next]_vars
    PROVE  Quiet \/ \E w \in Workers : RingStep(w)
<1> USE DEF Quiet, Outside, TypeOK, WorkerPc
<1>1. CASE Create
  <2>1. pc[i] = "none"
    BY <1>1 DEF Create, JoinInv, Workers
  <2> QED
    BY <1>1, <2>1 DEF Create, workerVars
<1>2. CASE JoinWait \/ JoinWake \/ Join
  BY <1>2 DEF JoinWait, JoinWake, Join, JoinNoWait, workerVars
<1>3. CASE Expire
  BY <1>3 DEF Expire, workerVars
<1>4. ASSUME NEW w \in Workers, Begin(w) \/ Account(w) PROVE Quiet
  BY <1>4 DEF Begin, Account, LoopTest, NextRound, Finish, workerVars
<1>5. ASSUME NEW w \in Workers, NEW e \in TransferEs, Dispatch(e, w) PROVE Quiet
  BY <1>5 DEF Dispatch, workerVars
<1>6. CASE UNCHANGED vars
  BY <1>6 DEF vars, workerVars
<1> QED
  BY <1>1, <1>2, <1>3, <1>4, <1>5, <1>6 DEF Next, HandlerStep, WorkerStep, RingStep

LEMMA OffsetInit == XferFits /\ Init => OffsetInv /\ CoverInv
<1> SUFFICES ASSUME XferFits, Init PROVE OffsetInv /\ CoverInv
  OBVIOUS
<1>1. NextOffset = 0 /\ taken = 0 /\ \A w \in Workers : pc[w] = "none"
  BY DEF Init, NextOffset, Nobody, Workers
<1>2. SlotOffset(0) /\ 0 * XferSize = 0
  BY SlotsFit, Options DEF SlotOffset
<1> QED
  BY <1>1, <1>2, SlotsFit DEF OffsetInv, CoverInv, InFlight

(* What drawing a ticket does to the next offset. *)
LEMMA WrapNext ==
    ASSUME XferFits, TypeOK, LockInv, OffsetInv, NEW w \in Workers, Wrap(w)
    PROVE  /\ my_off[w] = NextOffset
           /\ SlotOffset(my_off[w])
           /\ taken < Slots => my_off[w] = taken * XferSize
           /\ NextOffset' = IF NextOffset = (Slots - 1) * XferSize
                              THEN 0 ELSE NextOffset + XferSize
           /\ SlotOffset(NextOffset')
           /\ taken' < Slots => NextOffset' = taken' * XferSize
<1>1. mutex = w /\ NextOffset = my_off[w] /\ cur_off = my_off[w] + XferSize
  BY DEF Wrap, LockInv, Critical, NextOffset, OffsetInv
<1>2. NextOffset' = WrapAround(cur_off)
  BY DEF Wrap, Unlock, NextOffset, Nobody, Workers
<1>3. PICK k \in 0..(Slots - 1) : my_off[w] = k * XferSize
  BY <1>1 DEF OffsetInv, SlotOffset
<1>4. taken < Slots => my_off[w] = taken * XferSize
  BY <1>1 DEF OffsetInv
<1>5. /\ k \in Nat /\ Slots \in Nat /\ XferSize \in Nat \ {0} /\ taken \in Nat
      /\ taken' = taken + 1
  BY SlotsFit, Options DEF TypeOK, Wrap
<1>6. k = Slots - 1 <=> my_off[w] = (Slots - 1) * XferSize
  BY <1>3, <1>5
<1>7. taken < Slots => k = taken
  BY <1>3, <1>4, <1>5
<1>8. NextOffset' = IF k = Slots - 1 THEN 0 ELSE (k + 1) * XferSize
  BY <1>1, <1>2, <1>3, WrapStep
<1>9. (k + 1) * XferSize = my_off[w] + XferSize /\ 0 * XferSize = 0
  BY <1>3, <1>5
<1>10. SlotOffset(NextOffset')
  <2>1. CASE k = Slots - 1
    BY <1>5, <1>8, <1>9, <2>1, SlotsFit DEF SlotOffset
  <2>2. CASE k # Slots - 1
    <3>1. k + 1 \in 0..(Slots - 1)
      BY <1>5, <2>2
    <3> QED
      BY <1>8, <2>2, <3>1 DEF SlotOffset
  <2> QED
    BY <2>1, <2>2
<1>11. taken' < Slots => NextOffset' = taken' * XferSize
  BY <1>5, <1>7, <1>8
<1> QED
  BY <1>1, <1>3, <1>4, <1>6, <1>8, <1>9, <1>10, <1>11 DEF SlotOffset

RingInv == LockInv /\ OffsetInv

LEMMA OffsetStep ==
    ASSUME XferFits, TypeOK, JoinInv, RingInv, [Next]_vars
    PROVE  OffsetInv'
<1> USE DEF RingInv
<1>1. CASE Quiet
  <2>1. NextOffset' = NextOffset
    BY <1>1 DEF Quiet, NextOffset, Outside
  <2> QED
    BY <1>1, <2>1 DEF Quiet, OffsetInv, Outside, InFlight, SlotOffset
<1>2. ASSUME NEW w \in Workers, Acquire(w) PROVE OffsetInv'
  <2>1. NextOffset' = NextOffset
    BY <1>2 DEF Acquire, AcquireUnlocked, NextOffset, TypeOK, Nobody, Workers
  <2> QED
    BY <1>2, <2>1 DEF Acquire, AcquireUnlocked, OffsetInv, TypeOK, InFlight, SlotOffset
<1>3. ASSUME NEW w \in Workers, Fetch(w) PROVE OffsetInv'
  <2>1. mutex = w
    BY <1>3 DEF Fetch, LockInv, Critical
  <2>2. \A v \in Workers \ {w} : pc[v] \notin Critical
    BY <2>1 DEF LockInv
  <2>3. NextOffset' = NextOffset
    BY <1>3, <2>1 DEF Fetch, NextOffset, TypeOK
  <2> QED
    BY <1>3, <2>2, <2>3 DEF Fetch, OffsetInv, TypeOK, InFlight, SlotOffset, Critical
<1>4. ASSUME NEW w \in Workers, Bump(w) PROVE OffsetInv'
  <2>1. mutex = w
    BY <1>4 DEF Bump, LockInv, Critical
  <2>2. \A v \in Workers \ {w} : pc[v] \notin Critical
    BY <2>1 DEF LockInv
  <2>3. NextOffset' = NextOffset
    BY <1>4, <2>1 DEF Bump, NextOffset, TypeOK, OffsetInv
  <2> QED
    BY <1>4, <2>2, <2>3 DEF Bump, OffsetInv, TypeOK, InFlight, SlotOffset, Critical
<1>5. ASSUME NEW w \in Workers, Wrap(w) PROVE OffsetInv'
  <2>1. \A v \in Workers \ {w} : pc[v] \notin Critical
    BY <1>5 DEF Wrap, LockInv, Critical
  <2>2. /\ SlotOffset(NextOffset') /\ SlotOffset(my_off[w])
        /\ taken' < Slots => NextOffset' = taken' * XferSize
    BY <1>5, WrapNext
  <2>3. \A v \in Workers : /\ pc'[v] \notin {"bump", "wrap"}
                           /\ pc'[v] \in InFlight => SlotOffset(my_off[v])
    BY <1>5, <2>1, <2>2 DEF Wrap, TypeOK, Critical, OffsetInv
  <2> QED
    BY <1>5, <2>2, <2>3 DEF Wrap, OffsetInv, SlotOffset
<1>6. ASSUME NEW w \in Workers, Transfer(w) \/ Complete(w) PROVE OffsetInv'
  <2>1. NextOffset' = NextOffset
    BY <1>6 DEF Transfer, Complete, NextOffset, TypeOK, workerVars
  <2> QED
    BY <1>6, <2>1 DEF Transfer, Complete, workerVars, OffsetInv, TypeOK, InFlight, SlotOffset
<1> QED
  BY <1>1, <1>2, <1>3, <1>4, <1>5, <1>6, StepKinds DEF RingStep

LEMMA CoverStep ==
    ASSUME XferFits, TypeOK, JoinInv, RingInv, CoverInv, [Next]_vars
    PROVE  CoverInv'
<1> USE DEF RingInv
<1>1. CASE Quiet
  BY <1>1 DEF Quiet, CoverInv, Outside, InFlight
<1>2. ASSUME NEW w \in Workers, Acquire(w) \/ Bump(w) \/ Transfer(w) PROVE CoverInv'
  BY <1>2 DEF Acquire, AcquireUnlocked, Bump, Transfer, workerVars, CoverInv, TypeOK, InFlight
<1>3. ASSUME NEW w \in Workers, Fetch(w) PROVE CoverInv'
  BY <1>3 DEF Fetch, CoverInv, TypeOK, InFlight
<1>4. ASSUME NEW w \in Workers, Wrap(w) PROVE CoverInv'
  <2>1. taken < Slots => my_off[w] = taken * XferSize
    BY <1>4, WrapNext
  <2>2. /\ taken' = taken + 1 /\ moved' = moved /\ my_off' = my_off
        /\ pc'[w] \in InFlight
        /\ \A v \in Workers : pc[v] \in InFlight => pc'[v] \in InFlight
    BY <1>4 DEF Wrap, TypeOK, InFlight
  <2>3. ASSUME NEW k \in 0..(Slots - 1), k < taken + 1
        PROVE  \/ k * XferSize \in moved
               \/ \E v \in Workers : pc'[v] \in InFlight /\ my_off[v] = k * XferSize
    <3>1. CASE k < taken
      BY <2>2, <2>3, <3>1 DEF CoverInv
    <3>2. CASE ~(k < taken)
      <4>1. k = taken /\ taken < Slots
        BY <2>3, <3>2, SlotsFit DEF TypeOK
      <4> QED
        BY <2>1, <2>2, <4>1
    <3> QED
      BY <3>1, <3>2
  <2> QED
    BY <2>2, <2>3 DEF CoverInv
<1>5. ASSUME NEW w \in Workers, Complete(w) PROVE CoverInv'
  BY <1>5 DEF Complete, CoverInv, TypeOK, InFlight
<1> QED
  BY <1>1, <1>2, <1>3, <1>4, <1>5, StepKinds DEF RingStep

(* No transfer is ever issued outside the buffers, however many workers    *)
(* race for the offset.                                                    *)
THEOREM TransfersStayInside == XferFits => (Spec => []TransferAccepted)
<1> SUFFICES ASSUME XferFits PROVE Spec => []TransferAccepted
  OBVIOUS
<1>1. Init => OffsetInv
  BY OffsetInit
<1>2. TypeOK /\ JoinInv /\ LockInv /\ OffsetInv /\ [Next]_vars => OffsetInv'
  BY OffsetStep DEF RingInv
<1>3. OffsetInv => TransferAccepted
  BY WrapStep DEF OffsetInv, TransferAccepted, SlotOffset
<1> QED
  BY <1>1, <1>2, <1>3, TypeInit, TypeStep, JoinInit, JoinStep, LockInit, LockStep, PTL
     DEF Spec

-----------------------------------------------------------------------------
(* The sum the handler reports. *)

LEMMA SumInit == Init => SumInv
<1> SUFFICES ASSUME Init PROVE SumInv
  OBVIOUS
<1> DEFINE p == [j \in 0..Concurrency |-> 0]
<1>1. /\ Joined = 0 /\ out = 0 /\ taken = 0
      /\ \A w \in Workers : Credit(w) = 0
  BY DEF Init, Joined, Credit, InFlight
<1>2. /\ p \in [0..Concurrency -> Nat] /\ 0 \in 0..Concurrency
      /\ Concurrency \in 0..Concurrency /\ XferSize * 0 = 0
      /\ \A w \in Workers : w \in 0..Concurrency /\ w + 1 \in 0..Concurrency
  BY Options DEF Workers
<1>3. PartialSums(p)
  BY <1>1, <1>2 DEF PartialSums
<1> QED
  BY <1>2, <1>3 DEF SumInv

(* A step that draws nothing and sums nothing keeps every credit. *)
LEMMA CreditKept ==
    ASSUME TypeOK, JoinInv, [Next]_vars, ~ (\E w \in Workers : Wrap(w))
    PROVE  /\ taken' = taken
           /\ \A w \in Workers : Credit(w)' = Credit(w)
<1> USE Options DEF TypeOK, Credit, InFlight
<1>1. CASE Create
  <2>1. pc[i] = "none"
    BY <1>1 DEF Create, JoinInv, Workers
  <2> QED
    BY <1>1, <2>1 DEF Create, workerVars
<1>2. CASE JoinWait \/ JoinWake \/ Join
  BY <1>2 DEF JoinWait, JoinWake, Join, JoinNoWait, workerVars
<1>3. CASE Expire
  BY <1>3 DEF Expire, workerVars
<1>4. ASSUME NEW v \in Workers, Begin(v)
      PROVE  taken' = taken /\ \A w \in Workers : Credit(w)' = Credit(w)
  BY <1>4 DEF Begin, LoopTest, NextRound, Finish, workerVars
<1>5. ASSUME NEW v \in Workers, Account(v)
      PROVE  taken' = taken /\ \A w \in Workers : Credit(w)' = Credit(w)
  BY <1>5 DEF Account, LoopTest, NextRound, Finish
<1>6. ASSUME NEW v \in Workers, Acquire(v) \/ Fetch(v) \/ Bump(v)
      PROVE  taken' = taken /\ \A w \in Workers : Credit(w)' = Credit(w)
  BY <1>6 DEF Acquire, AcquireUnlocked, Fetch, Bump
<1>7. ASSUME NEW v \in Workers, Transfer(v) \/ Complete(v)
      PROVE  taken' = taken /\ \A w \in Workers : Credit(w)' = Credit(w)
  BY <1>7 DEF Transfer, Complete, workerVars
<1>8. ASSUME NEW v \in Workers, NEW e \in TransferEs, Dispatch(e, v)
      PROVE  taken' = taken /\ \A w \in Workers : Credit(w)' = Credit(w)
  BY <1>8 DEF Dispatch, workerVars
<1>9. CASE UNCHANGED vars
  BY <1>9 DEF vars, workerVars
<1> QED
  BY <1>1, <1>2, <1>3, <1>4, <1>5, <1>6, <1>7, <1>8, <1>9 DEF Next, HandlerStep, WorkerStep

(* The handler's sum moves only in Join, to the next partial sum. *)
LEMMA JoinedKept ==
    ASSUME TypeOK, JoinInv, [Next]_vars, ~ Join
    PROVE  Joined' = Joined /\ out' = out
<1> USE Options DEF TypeOK, Joined
<1>1. CASE Create
  BY <1>1 DEF Create
<1>2. CASE JoinWait \/ JoinWake \/ Expire
  BY <1>2 DEF JoinWait, JoinWake, Expire, handlerVars
<1>3. ASSUME NEW w \in Workers, WorkerStep(w) \/ Complete(w) PROVE UNCHANGED handlerVars
  BY <1>3 DEF WorkerStep, Begin, Acquire, AcquireUnlocked, Fetch, Bump, Wrap, Transfer,
              Account, Complete
<1>4. ASSUME NEW w \in Workers, NEW e \in TransferEs, Dispatch(e, w)
      PROVE  UNCHANGED handlerVars
  BY <1>4 DEF Dispatch
<1>5. CASE UNCHANGED vars
  BY <1>5 DEF vars, handlerVars
<1> QED
  BY <1>1, <1>2, <1>3, <1>4, <1>5 DEF Next, HandlerStep, handlerVars

LEMMA SumStep ==
    ASSUME TypeOK, JoinInv, SumInv, [Next]_vars
    PROVE  SumInv'
<1>1. PICK p \in [0..Concurrency -> Nat] : PartialSums(p)
  BY DEF SumInv
<1>2. CASE \E w \in Workers : Wrap(w)
  <2>1. PICK w \in Workers : Wrap(w)
    BY <1>2
  <2> DEFINE q == [j \in 0..Concurrency |-> IF j > w THEN p[j] + XferSize ELSE p[j]]
  <2>2. /\ w \in Nat /\ w < Concurrency /\ Concurrency \in Nat \ {0}
        /\ XferSize \in Nat /\ taken \in Nat
        /\ \A v \in Workers : v \in Nat /\ v < Concurrency
    BY Options DEF Workers, TypeOK
  <2>3. q \in [0..Concurrency -> Nat]
    BY <2>2
  <2>4. /\ Credit(w)' = Credit(w) + XferSize
        /\ \A v \in Workers \ {w} : Credit(v)' = Credit(v)
        /\ taken' = taken + 1 /\ UNCHANGED handlerVars
    BY <2>1, <2>2 DEF Wrap, Credit, TypeOK, InFlight
  <2>5. Joined' = Joined /\ out' = out /\ Joined \in 0..Concurrency /\ Joined <= w
    <3>1. pc[w] # "done"
      BY <2>1 DEF Wrap
    <3>2. Joined \in 0..Concurrency
      BY <2>2 DEF Joined, TypeOK
    <3>3. Joined <= w
      BY <2>2, <3>1, <3>2 DEF JoinInv
    <3> QED
      BY <2>4, <3>2, <3>3 DEF Joined, handlerVars
  <2>6. q[0] = 0 /\ q[Concurrency] = XferSize * taken'
    <3>1. XferSize * (taken + 1) = XferSize * taken + XferSize
      BY <2>2
    <3> QED
      BY <1>1, <2>2, <2>4, <3>1 DEF PartialSums
  <2>7. ASSUME NEW v \in Workers PROVE q[v + 1] = q[v] + Credit(v)'
    <3>1. p[v + 1] = p[v] + Credit(v) /\ Credit(v) \in Nat
      <4>1. bytes_moved[v] \in Nat
        BY DEF TypeOK
      <4>2. Credit(v) \in {bytes_moved[v], bytes_moved[v] + XferSize}
        BY <4>1, <2>2 DEF Credit
      <4>3. p[v + 1] = p[v] + Credit(v)
        BY <1>1, Zenon DEF PartialSums
      <4> QED
        BY <2>2, <4>1, <4>2, <4>3
    <3>2. v \in 0..Concurrency /\ v + 1 \in 0..Concurrency /\ p[v] \in Nat
      BY <2>2
    <3>3. CASE v = w
      BY <2>2, <2>4, <3>1, <3>2, <3>3
    <3>4. CASE v # w
      <4>1. Credit(v)' = Credit(v)
        BY <2>4, <3>4
      <4>2. v + 1 > w <=> v > w
        BY <2>2, <3>4
      <4> QED
        BY <2>2, <3>1, <3>2, <4>1, <4>2
    <3> QED
      BY <3>3, <3>4
  <2>8. q[Joined'] = out'
    BY <1>1, <2>2, <2>5 DEF PartialSums
  <2>9. PartialSums(q)'
    BY <2>6, <2>7, <2>8 DEF PartialSums
  <2> QED
    BY <2>3, <2>9 DEF SumInv
<1>3. CASE Join
  <2>1. taken' = taken /\ \A w \in Workers : Credit(w)' = Credit(w)
    BY <1>3 DEF Join, JoinNoWait, workerVars, Credit
  <2>2. /\ hpc = "join" /\ i \in Workers /\ i + 1 \in 1..Concurrency
        /\ Credit(i) = bytes_moved[i] /\ out' = out + bytes_moved[i]
    BY <1>3, Options DEF Join, JoinNoWait, Credit, InFlight, TypeOK, Workers
  <2>3. Joined = i /\ Joined' = i + 1
    <3>1. i \in 0..(Concurrency - 1) /\ Concurrency \in Nat
      BY <2>2, Options DEF Workers
    <3>2. CASE i + 1 < Concurrency
      BY <1>3, <2>2, <3>2 DEF Join, JoinNoWait, Joined
    <3>3. CASE ~(i + 1 < Concurrency)
      <4>1. i + 1 = Concurrency
        BY <3>1, <3>3
      <4> QED
        BY <1>3, <2>2, <3>3, <4>1 DEF Join, JoinNoWait, Joined
    <3> QED
      BY <3>2, <3>3
  <2>4. p[Joined'] = out'
    BY <1>1, <2>2, <2>3 DEF PartialSums
  <2> QED
    BY <1>1, <2>1, <2>4 DEF PartialSums, SumInv
<1>4. CASE ~ Join /\ ~ (\E w \in Workers : Wrap(w))
  <2>1. /\ taken' = taken /\ Joined' = Joined /\ out' = out
        /\ \A w \in Workers : Credit(w)' = Credit(w)
    BY <1>4, CreditKept, JoinedKept
  <2> QED
    BY <1>1, <2>1 DEF PartialSums, SumInv
<1> QED
  BY <1>2, <1>3, <1>4

(* The reported byte count is exactly what the drawn offsets stand for. *)
THEOREM ReportedBytesCorrect == Spec => []BytesAccounted
<1>1. TypeOK /\ SumInv => BytesAccounted
  BY Options DEF SumInv, PartialSums, BytesAccounted, Joined
<1>2. TypeOK /\ JoinInv /\ SumInv /\ [Next]_vars => SumInv'
  BY SumStep
<1> QED
  BY <1>1, <1>2, TypeInit, TypeStep, JoinInit, JoinStep, SumInit, PTL DEF Spec

(* When bw_ult responds, every byte the two pattern checks will read was   *)
(* moved, for every number of workers and streams and every interleaving.  *)
THEOREM CheckedPrefixMoved == XferFits => (Spec => []PrefixMoved)
<1> SUFFICES ASSUME XferFits PROVE Spec => []PrefixMoved
  OBVIOUS
<1>1. Init => OffsetInv /\ CoverInv
  BY OffsetInit
<1>2. TypeOK /\ JoinInv /\ LockInv /\ OffsetInv /\ [Next]_vars => OffsetInv'
  BY OffsetStep DEF RingInv
<1>3. TypeOK /\ JoinInv /\ LockInv /\ OffsetInv /\ CoverInv /\ [Next]_vars => CoverInv'
  BY CoverStep DEF RingInv
<1>4. TypeOK /\ JoinInv /\ SumInv /\ [Next]_vars => SumInv'
  BY SumStep
<1>5. TypeOK /\ JoinInv /\ CoverInv /\ SumInv => PrefixMoved
  <2> SUFFICES ASSUME TypeOK, JoinInv, CoverInv, SumInv, hpc = "respond",
                      NEW k \in 0..(Slots - 1), k * XferSize < BytesToCheck
               PROVE  k * XferSize \in moved
    BY DEF PrefixMoved
  <2>1. out = XferSize * taken
    BY Options DEF SumInv, PartialSums, Joined, TypeOK
  <2>2. /\ k \in Nat /\ taken \in Nat /\ Slots \in Nat /\ XferSize \in Nat \ {0}
        /\ Slots * XferSize \in Nat
    BY SlotsFit, Options DEF TypeOK
  <2>3. k * XferSize < XferSize * taken
    BY <2>1, <2>2 DEF BytesToCheck, TypeOK
  <2>4. k < taken
    <3> SUFFICES ASSUME taken <= k PROVE FALSE
      BY <2>2
    <3>1. taken * XferSize <= k * XferSize
      BY <2>2
    <3> QED
      BY <2>2, <2>3, <3>1
  <2>5. \A w \in Workers : pc[w] = "done"
    BY Options DEF JoinInv, Joined, Workers
  <2> QED
    BY <2>4, <2>5 DEF CoverInv, InFlight
<1> QED
  BY <1>1, <1>2, <1>3, <1>4, <1>5, TypeInit, TypeStep, JoinInit, JoinStep, LockInit,
     LockStep, SumInit, PTL DEF Spec

-----------------------------------------------------------------------------
(* Nobody is stuck.                                                        *)

(* Who may be on which ES: the handler only on the primary one, which it   *)
(* keeps until all workers exist, and a worker only where its next step is *)
(* its own.                                                                *)
StreamInv ==
    /\ hpc = "create" => on[Primary] = Handler
    /\ hpc = "create" => \A w \in Workers : w < i => pc[w] # "none"
    /\ hpc = "join" => \A w \in Workers : pc[w] # "none"
    /\ \A e \in ES : on[e] = Handler => e = Primary
    /\ \A e \in ES : \A w \in Workers :
           on[e] = w => pc[w] \in {"ready", "woken", "lock", "issue"} \cup Critical

LEMMA StreamInit == Init => StreamInv
<1> SUFFICES ASSUME Init PROVE StreamInv
  OBVIOUS
<1>1. Primary \in ES /\ \A w \in Workers : w \in Nat
  BY Options DEF Primary, ES, Workers
<1> QED
  BY <1>1 DEF Init, StreamInv, Handler, Nobody

LEMMA StreamStep == TypeOK /\ StreamInv /\ [Next]_vars => StreamInv'
<1> SUFFICES ASSUME TypeOK, StreamInv, [Next]_vars PROVE StreamInv'
  OBVIOUS
<1>1. /\ Primary \in ES /\ Concurrency \in Nat
      /\ \A w \in Workers : w \in Nat /\ w < Concurrency /\ w # Handler /\ w # Nobody
      /\ Handler # Nobody
  BY Options DEF Primary, ES, Workers, Handler, Nobody
<1> USE DEF StreamInv, TypeOK, Critical
<1>2. CASE Create
  <2>1. /\ \A w \in Workers : w < i => pc'[w] # "none"
        /\ pc'[i] = "ready" /\ i \in Workers
        /\ \A w \in Workers \ {i} : pc'[w] = pc[w]
    BY <1>2 DEF Create
  <2>2. \A w \in Workers : w < i + 1 => pc'[w] # "none"
    BY <1>1, <2>1
  <2>3. \/ hpc' = "create" /\ i' = i + 1
        \/ hpc' = "join" /\ \A w \in Workers : w < i + 1
    <3>1. \A w \in Workers : i + 1 < Concurrency \/ w < i + 1
      BY <1>1, <2>1
    <3> QED
      BY <1>2, <3>1 DEF Create
  <2>4. \A e \in ES : \A w \in Workers :
            on[e] = w => pc'[w] \in {"ready", "woken", "lock", "issue"} \cup Critical
    BY <2>1
  <2> QED
    BY <1>2, <2>2, <2>3, <2>4 DEF Create
<1>3. CASE JoinWait \/ JoinWake
  BY <1>1, <1>3 DEF JoinWait, JoinWake, workerVars, handlerVars
<1>4. CASE Join
  BY <1>1, <1>4 DEF Join, JoinNoWait, Vacate, workerVars
<1>5. CASE Expire
  BY <1>5 DEF Expire, workerVars, handlerVars
<1>6. ASSUME NEW w \in Workers, Begin(w) \/ Account(w) PROVE StreamInv'
  <2>1. NextRound(w) \/ Finish(w)
    BY <1>6 DEF Begin, Account, LoopTest
  <2>2. UNCHANGED handlerVars
    BY <1>6 DEF Begin, Account
  <2>3. CASE NextRound(w)
    BY <1>1, <2>2, <2>3 DEF NextRound, handlerVars
  <2>4. CASE Finish(w)
    BY <1>1, <2>2, <2>4 DEF Finish, Vacate, handlerVars
  <2> QED
    BY <2>1, <2>3, <2>4
<1>7. ASSUME NEW w \in Workers, Acquire(w) \/ Fetch(w) \/ Bump(w) \/ Wrap(w) PROVE StreamInv'
  BY <1>1, <1>7 DEF Acquire, AcquireUnlocked, Fetch, Bump, Wrap, handlerVars
<1>8. ASSUME NEW w \in Workers, Transfer(w) PROVE StreamInv'
  BY <1>1, <1>8 DEF Transfer, Vacate, handlerVars
<1>9. ASSUME NEW w \in Workers, Complete(w) PROVE StreamInv'
  BY <1>1, <1>9 DEF Complete, handlerVars
<1>10. ASSUME NEW w \in Workers, NEW e \in TransferEs, Dispatch(e, w) PROVE StreamInv'
  BY <1>1, <1>10 DEF Dispatch, workerVars, handlerVars
<1>11. CASE UNCHANGED vars
  BY <1>11 DEF vars, workerVars, handlerVars
<1> QED
  BY <1>2, <1>3, <1>4, <1>5, <1>6, <1>7, <1>8, <1>9, <1>10, <1>11
     DEF Next, HandlerStep, WorkerStep

(* The holder of the lock can always step. *)
LEMMA HolderSteps ==
    ASSUME TypeOK, LockInv, RunInv, mutex # Nobody
    PROVE  \E w \in Workers : CanStep(w)
<1>1. mutex \in Workers /\ pc[mutex] \in Critical /\ Running(mutex)
  BY DEF TypeOK, LockInv, RunInv
<1> QED
  BY <1>1 DEF CanStep

LEMMA SomebodyGoesOn ==
    ASSUME TypeOK, LockInv, RunInv, StreamInv, TransferAccepted
    PROVE  NeverStuck
<1> SUFFICES ASSUME hpc = "join", on[Primary] # Handler
             PROVE  \/ on[Primary] = Nobody /\ pc[i] = "done"
                    \/ \E w \in Workers : CanStep(w) \/ CanGoOn(w)
  BY DEF NeverStuck, StreamInv, TypeOK
<1>1. CASE \E e \in ES : on[e] \in Workers
  <2>1. PICK e \in ES : on[e] \in Workers
    BY <1>1
  <2> DEFINE w == on[e]
  <2>2. w \in Workers /\ Running(w)
    BY <2>1 DEF Running
  <2>3. pc[w] \in {"ready", "woken", "lock", "issue"} \cup Critical
    BY <2>1 DEF StreamInv
  <2>4. CASE pc[w] = "lock" /\ mutex # Nobody
    BY <2>4, HolderSteps
  <2>5. CASE pc[w] = "issue"
    BY <2>2, <2>5 DEF TransferAccepted, InFlight, CanStep
  <2>6. CASE pc[w] # "issue" /\ ~ (pc[w] = "lock" /\ mutex # Nobody)
    BY <2>2, <2>3, <2>6 DEF CanStep
  <2> QED
    BY <2>4, <2>5, <2>6
<1>2. CASE ~ (\E e \in ES : on[e] \in Workers)
  <2>1. \A e \in ES : on[e] = Nobody
    BY <1>2 DEF StreamInv, TypeOK
  <2>2. Primary \in ES /\ \E e \in TransferEs : e \in ES
    BY Options DEF Primary, ES, TransferEs
  <2>3. i \in Workers /\ pc[i] # "none" /\ pc[i] \in WorkerPc /\ ~Running(i)
    BY <1>2 DEF StreamInv, TypeOK, Running
  <2>4. pc[i] \in {"ready", "xfer", "woken", "done"}
    BY <2>3 DEF RunInv, WorkerPc, InFlight, Critical
  <2> QED
    BY <2>1, <2>2, <2>3, <2>4 DEF CanGoOn
<1> QED
  BY <1>1, <1>2

(* The transfer phase of a bw_rpc never deadlocks, with the workers on the *)
(* primary ES or on dedicated ones, however many they are: as long as      *)
(* bw_ult has not responded somebody can go on.                            *)
THEOREM SomebodyCanGoOn == XferFits => (Spec => []NeverStuck)
<1> SUFFICES ASSUME XferFits PROVE Spec => []NeverStuck
  OBVIOUS
<1>1. Spec => []TransferAccepted
  BY TransfersStayInside
<1> QED
  BY <1>1, SomebodyGoesOn, TypeInit, TypeStep, JoinInit, JoinStep, LockInit, LockStep,
     StreamInit, StreamStep, PTL DEF Spec

-----------------------------------------------------------------------------
(* The end comes.                                                          *)

(* How far a worker has come once the time is up: nobody starts another    *)
(* round.  Getting an ES is one more step of it.                           *)
Order ==
    [none |-> 0, ready |-> 1, lock |-> 3, fetch |-> 4, bump |-> 5, wrap |-> 6,
     issue |-> 7, xfer |-> 8, woken |-> 9, done |-> 11]

Stage(w) == Order[pc[w]] + IF pc[w] \in {"ready", "woken"} /\ Running(w) THEN 1 ELSE 0

(* How far the handler has come: per worker it creates one, and suspends,  *)
(* wakes up and adds up.                                                   *)
JoinStage ==
    IF on[Primary] = Handler THEN IF pc[i] = "done" THEN 2 ELSE 0 ELSE 1

HandlerStage ==
    IF hpc = "create" THEN i
      ELSE IF hpc = "join" THEN Concurrency + 3 * i + JoinStage ELSE 4 * Concurrency

LastStage == 11

(* One step ahead: nobody falls back, and somebody advances. *)
Ahead ==
    /\ \A w \in Workers : Stage(w)' >= Stage(w)
    /\ HandlerStage' >= HandlerStage
    /\ HandlerStage' > HandlerStage \/ \E w \in Workers : Stage(w)' > Stage(w)

(* Once the duration has passed every step brings bw_rpc nearer to its     *)
(* response: the workers' rounds, the spin lock and the suspensions hold   *)
(* no cycle.                                                               *)
WindsDown == [][timeup => Ahead]_vars

StagesBounded ==
    /\ \A w \in Workers : Stage(w) \in 0..LastStage
    /\ HandlerStage \in 0..(4 * Concurrency)

LEMMA StageBounds == TypeOK => StagesBounded
<1> SUFFICES ASSUME TypeOK PROVE StagesBounded
  OBVIOUS
<1>1. \A w \in Workers : Stage(w) \in 0..LastStage
  BY DEF TypeOK, WorkerPc, Critical, InFlight, Stage, Order, LastStage
<1>2. HandlerStage \in 0..(4 * Concurrency)
  <2>1. i \in Nat /\ i + 1 <= Concurrency /\ Concurrency \in Nat /\ JoinStage \in 0..2
    BY Options DEF TypeOK, Workers, JoinStage
  <2> HIDE DEF JoinStage
  <2> QED
    BY <2>1 DEF HandlerStage, TypeOK
<1> QED
  BY <1>1, <1>2 DEF StagesBounded

LEMMA StageBoundsNext == TypeOK' => StagesBounded'
  BY StageBounds, PTL

(* The stages are numbers, before and after the step. *)
LEMMA StageNumbers ==
    ASSUME TypeOK, TypeOK'
    PROVE  /\ \A w \in Workers : Stage(w) \in Int /\ Stage(w)' \in Int
           /\ HandlerStage \in Int /\ HandlerStage' \in Int
<1>1. 0..LastStage \subseteq Int
  BY DEF LastStage
<1>2. 0..(4 * Concurrency) \subseteq Int
  BY Options
<1> HIDE DEF LastStage
<1> QED
  BY <1>1, <1>2, StageBounds, StageBoundsNext DEF StagesBounded

(* A worker's step, or the report of its transfer, brings that worker one  *)
(* stage further and leaves the others where they are.                     *)
LEMMA WorkerAhead ==
    ASSUME TypeOK, NEW w \in Workers, timeup, WorkerStep(w) \/ Complete(w)
    PROVE  /\ Stage(w)' > Stage(w)
           /\ \A v \in Workers \ {w} : Stage(v)' = Stage(v)
<1>1. \A v \in Workers \ {w} : pc'[v] = pc[v]
  BY DEF TypeOK, WorkerStep, Begin, LoopTest, NextRound, Finish, Acquire, AcquireUnlocked,
         Fetch, Bump, Wrap, Transfer, Account, Complete
<1>2. \A v \in Workers \ {w} : Running(v)' <=> Running(v)
  <2>1. UNCHANGED on \/ Vacate(w)
    BY DEF WorkerStep, Begin, LoopTest, NextRound, Finish, Acquire, AcquireUnlocked,
           Fetch, Bump, Wrap, Transfer, Account, Complete
  <2>2. Nobody \notin Workers
    BY DEF Nobody, Workers
  <2> QED
    BY <2>1, <2>2 DEF TypeOK, Running, Vacate
<1>3. Stage(w)' > Stage(w)
  <2>1. \/ pc[w] \in {"ready", "woken"} /\ pc'[w] = "done"
        \/ pc[w] = "lock"  /\ pc'[w] = "fetch"
        \/ pc[w] = "fetch" /\ pc'[w] = "bump"
        \/ pc[w] = "bump"  /\ pc'[w] = "wrap"
        \/ pc[w] = "wrap"  /\ pc'[w] = "issue"
        \/ pc[w] = "issue" /\ pc'[w] = "xfer"
        \/ pc[w] = "xfer"  /\ pc'[w] = "woken"
    BY DEF TypeOK, WorkerStep, Begin, LoopTest, NextRound, Finish, Acquire, AcquireUnlocked,
           Fetch, Bump, Wrap, Transfer, Account, Complete
  <2> QED
    BY <2>1 DEF Stage, Order
<1> QED
  BY <1>1, <1>2, <1>3 DEF Stage

(* If one worker advances and no other moves, nobody falls back. *)
LEMMA OneAhead ==
    ASSUME TypeOK, TypeOK', NEW w \in Workers, Stage(w)' > Stage(w),
           \A v \in Workers \ {w} : Stage(v)' = Stage(v)
    PROVE  \A v \in Workers : Stage(v)' >= Stage(v)
<1> SUFFICES ASSUME NEW v \in Workers PROVE Stage(v)' >= Stage(v)
  OBVIOUS
<1>1. Stage(v) \in Int /\ Stage(w) \in Int /\ Stage(w)' \in Int
  BY StageNumbers
<1>2. CASE v = w
  BY <1>1, <1>2
<1>3. CASE v # w
  <2>1. Stage(v)' = Stage(v)
    BY <1>3
  <2> QED
    BY <1>1, <2>1
<1> QED
  BY <1>2, <1>3

(* Neither sets the handler back. *)
LEMMA HandlerNotBack ==
    ASSUME TypeOK, UNCHANGED handlerVars, on'[Primary] = Handler <=> on[Primary] = Handler,
           pc[i] = "done" => pc'[i] = "done"
    PROVE  HandlerStage' >= HandlerStage
<1>1. JoinStage' >= JoinStage /\ JoinStage \in 0..2 /\ JoinStage' \in 0..2
  BY DEF JoinStage, handlerVars
<1>2. i \in Nat /\ Concurrency \in Nat
  BY Options DEF TypeOK, Workers
<1>3. hpc' = hpc /\ i' = i
  BY DEF handlerVars
<1> HIDE DEF JoinStage
<1>4. CASE hpc = "create"
  BY <1>2, <1>3, <1>4 DEF HandlerStage
<1>5. CASE hpc = "join"
  <2>1. HandlerStage = Concurrency + 3 * i + JoinStage
    BY <1>5 DEF HandlerStage
  <2>2. HandlerStage' = Concurrency + 3 * i + JoinStage'
    BY <1>3, <1>5 DEF HandlerStage
  <2>3. Concurrency + 3 * i \in Int /\ JoinStage \in Int /\ JoinStage' \in Int
    BY <1>1, <1>2
  <2>4. \A x, a, b \in Int : a >= b => x + a >= x + b
    OBVIOUS
  <2> QED
    BY <1>1, <2>1, <2>2, <2>3, <2>4
<1>6. CASE hpc \notin {"create", "join"}
  <2>1. HandlerStage = 4 * Concurrency /\ HandlerStage' = 4 * Concurrency
    BY <1>3, <1>6 DEF HandlerStage
  <2> QED
    BY <1>2, <2>1
<1> QED
  BY <1>4, <1>5, <1>6

LEMMA HandlerAhead ==
    ASSUME TypeOK, TypeOK', JoinInv, HandlerStep
    PROVE  /\ HandlerStage' > HandlerStage
           /\ \A v \in Workers : Stage(v)' >= Stage(v)
<1>1. /\ Primary \in ES /\ Concurrency \in Nat /\ i \in Nat /\ i < Concurrency
      /\ \A w \in Workers : w # Handler /\ w # Nobody
      /\ Handler # Nobody
  BY Options DEF TypeOK, Primary, ES, Workers, Handler, Nobody
<1>2. CASE Create
  <2>1. PICK w \in Workers : w = i
    BY <1>1 DEF Workers, TypeOK
  <2>2. /\ \A v \in Workers \ {w} : pc'[v] = pc[v]
        /\ pc[w] = "none" /\ pc'[w] = "ready"
        /\ \A v \in Workers : Running(v)' <=> Running(v)
    BY <1>2, <2>1 DEF Create, JoinInv, TypeOK, Workers, Running
  <2>3. \A v \in Workers : Stage(v)' >= Stage(v)
    <3>1. Stage(w) = 0
      BY <2>2 DEF Stage, Order
    <3>2. Stage(w)' = 1 \/ Stage(w)' = 2
      BY <2>2 DEF Stage, Order
    <3>3. \A v \in Workers \ {w} : Stage(v)' = Stage(v)
      BY <2>2 DEF Stage
    <3>4. Stage(w)' > Stage(w)
      BY <3>1, <3>2
    <3> QED
      BY <3>3, <3>4, OneAhead
  <2>4. HandlerStage = i /\ HandlerStage' > i
    <3>1. CASE hpc' = "create"
      BY <1>1, <1>2, <3>1 DEF Create, HandlerStage
    <3>2. CASE hpc' = "join"
      <4>1. JoinStage' \in 0..2
        BY DEF JoinStage
      <4> QED
        BY <1>1, <1>2, <3>2, <4>1 DEF Create, HandlerStage
    <3> QED
      BY <1>2, <3>1, <3>2 DEF Create
  <2> QED
    BY <2>3, <2>4
<1>3. ASSUME JoinWait \/ JoinWake \/ Join
      PROVE  \A v \in Workers : Stage(v)' = Stage(v)
  <2>1. pc' = pc /\ \A v \in Workers : Running(v)' <=> Running(v)
    BY <1>1, <1>3 DEF JoinWait, JoinWake, Join, JoinNoWait, Vacate, TypeOK, Running, workerVars
  <2> QED
    BY <2>1 DEF Stage
<1>4. ASSUME JoinWait PROVE HandlerStage' > HandlerStage
  <2>1. JoinStage = 0 /\ JoinStage' = 1
    BY <1>1, <1>4 DEF JoinWait, JoinStage, TypeOK
  <2>2. HandlerStage = Concurrency + 3 * i /\ HandlerStage' = Concurrency + 3 * i + 1
    BY <1>1, <1>4, <2>1 DEF JoinWait, HandlerStage, handlerVars
  <2> QED
    BY <1>1, <2>2
<1>5. ASSUME JoinWake PROVE HandlerStage' > HandlerStage
  <2>1. JoinStage = 1 /\ JoinStage' = 2
    BY <1>1, <1>5 DEF JoinWake, JoinStage, handlerVars, workerVars, TypeOK
  <2>2. HandlerStage = Concurrency + 3 * i + 1 /\ HandlerStage' = Concurrency + 3 * i + 2
    BY <1>1, <1>5, <2>1 DEF JoinWake, HandlerStage, handlerVars
  <2> QED
    BY <1>1, <2>2
<1>6. ASSUME Join PROVE HandlerStage' > HandlerStage
  <2>1. hpc = "join" /\ on[Primary] = Handler /\ pc[i] = "done"
    BY <1>6 DEF Join, JoinNoWait
  <2>2. HandlerStage = Concurrency + 3 * i + 2
    BY <2>1 DEF HandlerStage, JoinStage
  <2>3. JoinStage' \in 0..2
    BY DEF JoinStage
  <2>4. \/ hpc' = "join" /\ i' = i + 1
        \/ hpc' = "respond" /\ ~(i + 1 < Concurrency)
    BY <1>6 DEF Join, JoinNoWait
  <2> HIDE DEF JoinStage
  <2>5. CASE hpc' = "join" /\ i' = i + 1
    <3>1. HandlerStage' = Concurrency + 3 * (i + 1) + JoinStage'
      BY <2>5 DEF HandlerStage
    <3>2. PICK j \in 0..2 : JoinStage' = j
      BY <2>3
    <3>3. HandlerStage' = Concurrency + 3 * (i + 1) + j
      BY <3>1, <3>2
    <3> QED
      BY <1>1, <2>2, <3>3
  <2>6. CASE hpc' = "respond" /\ ~(i + 1 < Concurrency)
    <3>1. HandlerStage' = 4 * Concurrency
      BY <2>6 DEF HandlerStage
    <3> QED
      BY <1>1, <2>2, <2>6, <3>1
  <2> QED
    BY <2>4, <2>5, <2>6
<1> QED
  <2>1. (\A v \in Workers : Stage(v)' = Stage(v)) => \A v \in Workers : Stage(v)' >= Stage(v)
    BY StageNumbers
  <2> QED
    BY <1>2, <1>3, <1>4, <1>5, <1>6, <2>1 DEF HandlerStep

(* The transfer phase winds down.  With SomebodyCanGoOn it follows that    *)
(* bw_ult responds after at most LastStage steps of each worker and four   *)
(* of the handler per worker: all that is left to fairness is that a step  *)
(* which can be taken is taken.                                            *)
THEOREM PhaseWindsDown == Spec => WindsDown
<1>1. TypeOK /\ JoinInv /\ [Next]_vars => [timeup => Ahead]_vars
  <2> SUFFICES ASSUME TypeOK, JoinInv, Next, timeup PROVE Ahead
    OBVIOUS
  <2>0. TypeOK'
    BY TypeStep
  <2>1. CASE HandlerStep
    <3>1. HandlerStage' > HandlerStage /\ \A v \in Workers : Stage(v)' >= Stage(v)
      BY <2>0, <2>1, HandlerAhead
    <3>2. HandlerStage' >= HandlerStage
      BY <2>0, <3>1, StageNumbers
    <3> QED
      BY <3>1, <3>2 DEF Ahead
  <2>2. CASE Expire
    BY <2>2 DEF Expire
  <2>3. ASSUME NEW w \in Workers, WorkerStep(w) \/ Complete(w) PROVE Ahead
    <3>1. /\ Stage(w)' > Stage(w)
          /\ \A v \in Workers \ {w} : Stage(v)' = Stage(v)
      BY <2>3, WorkerAhead
    <3>2. \A v \in Workers : Stage(v)' >= Stage(v)
      BY <2>0, <3>1, OneAhead
    <3>3. /\ UNCHANGED handlerVars
          /\ on' = on \/ Vacate(w)
          /\ pc[i] = "done" => pc'[i] = "done"
      BY <2>3 DEF TypeOK, WorkerStep, Begin, LoopTest, NextRound, Finish, Acquire,
         AcquireUnlocked, Fetch, Bump, Wrap, Transfer, Account, Complete
    <3>4. on'[Primary] = Handler <=> on[Primary] = Handler
      BY <3>3, Options DEF Vacate, TypeOK, Primary, ES, Handler, Nobody, Workers
    <3> QED
      BY <3>1, <3>2, <3>3, <3>4, HandlerNotBack DEF Ahead
  <2>4. ASSUME NEW w \in Workers, NEW e \in TransferEs, Dispatch(e, w) PROVE Ahead
    <3>1. /\ pc' = pc /\ UNCHANGED handlerVars
          /\ on' = [on EXCEPT ![e] = w] /\ on[e] = Nobody
          /\ pc[w] \in {"ready", "woken"} /\ ~Running(w)
      BY <2>4 DEF Dispatch, workerVars
    <3>2. e \in ES
      BY Options DEF TransferEs, ES, Primary
    <3>3. /\ \A v \in Workers \ {w} : Running(v)' <=> Running(v)
          /\ Running(w)'
      BY <3>1, <3>2 DEF TypeOK, Running, Nobody, Workers
    <3>4. \A v \in Workers \ {w} : Stage(v)' = Stage(v)
      BY <3>1, <3>3 DEF Stage
    <3>5. Stage(w)' > Stage(w)
      BY <3>1, <3>3 DEF Stage, Order
    <3>6. on'[Primary] = Handler <=> on[Primary] = Handler
      BY <3>1, <3>2 DEF TypeOK, Handler, Nobody, Workers
    <3>7. HandlerStage' >= HandlerStage
      BY <3>1, <3>6, HandlerNotBack
    <3>8. \A v \in Workers : Stage(v)' >= Stage(v)
      BY <2>0, <3>4, <3>5, OneAhead
    <3> QED
      BY <3>5, <3>7, <3>8 DEF Ahead
  <2> QED
    BY <2>1, <2>2, <2>3, <2>4 DEF Next
<1> QED
  BY <1>1, TypeInit, TypeStep, JoinInit, JoinStep, PTL DEF Spec, WindsDown

-----------------------------------------------------------------------------
(* The lock implements the atomic tickets of TransferRing. *)

RingStutter == UNCHANGED <<NextOffset, taken, Holds, moved>>

LEMMA RingInitMaps == Init => Ring!RingInit
  BY DEF Init, Ring!RingInit, Ring!None, NextOffset, Holds, InFlight, Nobody, Workers

LEMMA RingStepMaps ==
    ASSUME XferFits, TypeOK, JoinInv, RingInv, [Next]_vars
    PROVE  RingStutter \/ \E w \in Workers : Ring!Take(w) \/ Ring!Move(w)
<1> USE DEF RingInv
<1>1. CASE Quiet
  <2>1. NextOffset' = NextOffset
    BY <1>1 DEF Quiet, NextOffset, Outside
  <2>2. Holds' = Holds
    BY <1>1 DEF Quiet, Holds, Outside, InFlight
  <2> QED
    BY <1>1, <2>1, <2>2 DEF Quiet, RingStutter
<1>2. ASSUME NEW w \in Workers, Acquire(w) PROVE RingStutter
  <2>1. NextOffset' = NextOffset
    BY <1>2 DEF Acquire, AcquireUnlocked, NextOffset, TypeOK, Nobody, Workers
  <2>2. Holds' = Holds
    BY <1>2 DEF Acquire, AcquireUnlocked, Holds, TypeOK, InFlight
  <2> QED
    BY <1>2, <2>1, <2>2 DEF Acquire, AcquireUnlocked, RingStutter
<1>3. ASSUME NEW w \in Workers, Fetch(w) PROVE RingStutter
  <2>1. mutex = w
    BY <1>3 DEF Fetch, LockInv, Critical
  <2>2. NextOffset' = NextOffset
    BY <1>3, <2>1 DEF Fetch, NextOffset, TypeOK
  <2>3. Holds' = Holds
    BY <1>3 DEF Fetch, Holds, TypeOK, InFlight
  <2> QED
    BY <1>3, <2>2, <2>3 DEF Fetch, RingStutter
<1>4. ASSUME NEW w \in Workers, Bump(w) PROVE RingStutter
  <2>1. mutex = w
    BY <1>4 DEF Bump, LockInv, Critical
  <2>2. NextOffset' = NextOffset
    BY <1>4, <2>1 DEF Bump, NextOffset, TypeOK, OffsetInv
  <2>3. Holds' = Holds
    BY <1>4 DEF Bump, Holds, TypeOK, InFlight
  <2> QED
    BY <1>4, <2>2, <2>3 DEF Bump, RingStutter
<1>5. ASSUME NEW w \in Workers, Wrap(w) PROVE Ring!Take(w)
  <2>1. /\ my_off[w] = NextOffset
        /\ NextOffset' = IF NextOffset = (Slots - 1) * XferSize
                           THEN 0 ELSE NextOffset + XferSize
    BY <1>5, WrapNext
  <2>2. Holds[w] = -1 /\ Holds' = [Holds EXCEPT ![w] = my_off[w]]
    BY <1>5 DEF Wrap, Holds, TypeOK, InFlight
  <2>3. taken' = taken + 1 /\ moved' = moved
    BY <1>5 DEF Wrap
  <2> QED
    BY <2>1, <2>2, <2>3 DEF Ring!Take, Ring!None
<1>6. ASSUME NEW w \in Workers, Transfer(w) PROVE RingStutter
  <2>1. NextOffset' = NextOffset
    BY <1>6 DEF Transfer, NextOffset, TypeOK, workerVars
  <2>2. Holds' = Holds
    BY <1>6 DEF Transfer, Holds, TypeOK, InFlight, workerVars
  <2> QED
    BY <1>6, <2>1, <2>2 DEF Transfer, workerVars, RingStutter
<1>7. ASSUME NEW w \in Workers, Complete(w) PROVE Ring!Move(w)
  <2>1. NextOffset' = NextOffset
    BY <1>7 DEF Complete, NextOffset, TypeOK
  <2>2. Holds[w] = my_off[w] /\ my_off[w] \in Nat
    BY <1>7 DEF Complete, Holds, TypeOK, InFlight
  <2>3. Holds' = [Holds EXCEPT ![w] = -1]
    BY <1>7 DEF Complete, Holds, TypeOK, InFlight
  <2>4. moved' = moved \cup {my_off[w]} /\ taken' = taken
    BY <1>7 DEF Complete
  <2>5. Holds[w] # -1
    BY <2>2
  <2> QED
    BY <2>1, <2>2, <2>3, <2>4, <2>5 DEF Ring!Move, Ring!None
<1> QED
  BY <1>1, <1>2, <1>3, <1>4, <1>5, <1>6, <1>7, StepKinds DEF RingStep

(* bw_worker's locked update of cur_off behaves as one atomic ticket, and  *)
(* its transfer as one move of that ticket's bytes.                        *)
THEOREM ImplementsRing == XferFits => (Spec => RefinesRing)
<1> SUFFICES ASSUME XferFits PROVE Spec => RefinesRing
  OBVIOUS
<1>1. Init => OffsetInv
  BY OffsetInit
<1>2. TypeOK /\ JoinInv /\ LockInv /\ OffsetInv /\ [Next]_vars => OffsetInv'
  BY OffsetStep DEF RingInv
<1>3. TypeOK /\ JoinInv /\ LockInv /\ OffsetInv /\ [Next]_vars
         => [Ring!RingNext]_(Ring!ringVars)
  BY RingStepMaps DEF RingInv, RingStutter, Ring!RingNext, Ring!ringVars
<1> QED
  BY <1>1, <1>2, <1>3, TypeInit, TypeStep, JoinInit, JoinStep, LockInit, LockStep,
     RingInitMaps, PTL DEF Spec, RefinesRing, Ring!RingSpec
=============================================================================
