---------------------------- MODULE TransferRing ----------------------------
(***************************************************************************)
(* What the shared transfer offset of the point-to-point benchmarks        *)
(* promises, with the lock, the user-level threads and the execution       *)
(* streams left out.  Workers draw tickets from a ring of Slots offsets,   *)
(* one at a time and in order; a worker that holds a ticket moves the      *)
(* Step bytes at that offset and gives the ticket back.  The ring wraps,   *)
(* so after Slots tickets an offset is moved again while an earlier        *)
(* transfer of it may still be in flight.                                  *)
(***************************************************************************)
EXTENDS Integers

CONSTANTS
    Workers,    \* the threads that draw tickets
    Slots,      \* how many whole transfers fit in the buffer
    Step        \* the distance between two tickets: the transfer size

VARIABLES
    next,       \* the offset the next ticket will carry
    taken,      \* how many tickets were drawn so far
    holds,      \* the offset each worker is moving, or None
    moved       \* the offsets whose bytes were moved at least once

ringVars == <<next, taken, holds, moved>>

None == -1

Offsets == {k * Step : k \in 0..(Slots - 1)}

RingTypeOK ==
    /\ next \in Offsets
    /\ taken \in Nat
    /\ holds \in [Workers -> Offsets \cup {None}]
    /\ moved \subseteq Offsets

RingInit ==
    /\ next = 0
    /\ taken = 0
    /\ holds = [w \in Workers |-> None]
    /\ moved = {}

Take(w) ==
    /\ holds[w] = None
    /\ holds' = [holds EXCEPT ![w] = next]
    /\ next' = IF next = (Slots - 1) * Step THEN 0 ELSE next + Step
    /\ taken' = taken + 1
    /\ UNCHANGED moved

Move(w) ==
    /\ holds[w] # None
    /\ moved' = moved \cup {holds[w]}
    /\ holds' = [holds EXCEPT ![w] = None]
    /\ UNCHANGED <<next, taken>>

RingNext == \E w \in Workers : Take(w) \/ Move(w)

RingSpec == RingInit /\ [][RingNext]_ringVars

(***************************************************************************)
(* The promise the pattern checks of both ranks rest on: each of the first *)
(* `taken' slots was moved or is being moved, with no hole in between.     *)
(***************************************************************************)
Covered ==
    \A k \in 0..(Slots - 1) :
        k < taken => \/ k * Step \in moved
                     \/ \E w \in Workers : holds[w] = k * Step
=============================================================================
