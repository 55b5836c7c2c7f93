------------------------- MODULE EventualBench_proofs ------------------------
(***************************************************************************)
(* Proofs about EventualBench for every number of bench_threads and        *)
(* iterations.                                                             *)
(***************************************************************************)
EXTENDS EventualBench, FiniteSetTheorems, TLAPS

(* Where each thread can be. *)
PcInv == pc[Main] \in MainPc /\ \A u \in Ults : pc[u] \in UltPc

(* Between its creation and the end of its wait a bench_thread's eventual  *)
(* is there for the setter.                                                *)
SetterInv ==
    /\ SetterFindsEventual
    /\ \A u \in Ults : pc[u] = "spawn" => eventual[u] = "unset"

(* Main has the start time when it comes to the barrier; until then nobody *)
(* is behind it.                                                           *)
BarrierInv ==
    /\ pc[Main] \notin {"create", "start"} => started
    /\ ~started => \A u \in Ults : pc[u] \in {"none", "ready", "arrive", "held"}

(* Main creates and joins the bench_threads in order. *)
MainInv ==
    /\ pc[Main] = "create" => \A u \in Ults : u >= i => pc[u] = "none"
    /\ pc[Main] \in {"start", "arrive", "held", "released"} => i = 0
    /\ pc[Main] = "join" => \A u \in Ults : u < i => pc[u] = "done"
    /\ pc[Main] \in {"free", "exit"} => \A u \in Ults : pc[u] = "done"
    /\ freed => pc[Main] = "exit"

IInv == TypeOK /\ PcInv /\ SetterInv /\ BarrierInv /\ MainInv

-----------------------------------------------------------------------------
LEMMA Numbers ==
    /\ NumUlts \in Nat \ {0} /\ MaxOps \in Nat
    /\ Ults \subseteq Nat /\ 0 \in Ults
    /\ Main \notin Ults /\ Main \in Threads /\ Ults \subseteq Threads
    /\ Threads = Ults \cup {Main}
    /\ \A u \in Ults : u # Main
  BY EventualBenchAssumption DEF Ults, Threads, Main

(* The barrier opens only when main is one of those it held, or the last.  *)
LEMMA OpensWithMain ==
    ASSUME NEW t \in Threads, pc[t] = "arrive", Cardinality(Held) + 1 = BarrierCount
    PROVE  pc[Main] \in {"held", "arrive"}
<1> SUFFICES ASSUME t # Main, pc[Main] # "held" PROVE FALSE
  OBVIOUS
<1>1. t \in Ults /\ Held \subseteq Ults \ {t}
  BY Numbers DEF Held
<1>2. IsFiniteSet(Ults) /\ Cardinality(Ults) = NumUlts
  <2>1. 0 \in Int /\ NumUlts - 1 \in Int
    BY Numbers
  <2> QED
    BY <2>1, FS_Interval, Numbers DEF Ults
<1>3. IsFiniteSet(Ults \ {t}) /\ Cardinality(Ults \ {t}) = NumUlts - 1
  BY <1>1, <1>2, FS_RemoveElement
<1>4. Cardinality(Held) <= NumUlts - 1
  BY <1>1, <1>3, FS_Subset
<1>5. Cardinality(Held) \in Nat
  BY <1>1, <1>3, FS_Subset, FS_CardinalityType
<1> QED
  BY <1>4, <1>5, Numbers DEF BarrierCount

(* What Arrive does to the threads. *)
LEMMA ArriveStep ==
    ASSUME TypeOK, PcInv, NEW t \in Threads, Arrive(t)
    PROVE  /\ UNCHANGED <<argVars, mainVars, expired>>
           /\ running' \in {running, Idle}
           /\ pc' \in [Threads -> UltPc \cup MainPc]
           /\ \A v \in Threads :
                \/ pc'[v] = pc[v]
                \/ pc[v] = "arrive" /\ pc'[v] = "held"
                \/ /\ pc[v] \in {"arrive", "held"}
                   /\ pc'[v] = IF v = Main THEN "released" ELSE "loop"
                   /\ pc[Main] \in {"held", "arrive"}
<1> USE Numbers DEF TypeOK, UltPc, MainPc
<1>1. CASE Cardinality(Held) + 1 = BarrierCount
  <2>1. /\ pc' = [v \in Threads |->
                    IF v \in Held \cup {t} THEN IF v = Main THEN "released" ELSE "loop"
                                           ELSE pc[v]]
        /\ UNCHANGED <<running, argVars, mainVars, expired>>
        /\ pc[t] = "arrive"
    BY <1>1 DEF Arrive
  <2>2. pc[Main] \in {"held", "arrive"}
    BY <1>1, <2>1, OpensWithMain
  <2>3. \A v \in Held : pc[v] = "held"
    BY DEF Held
  <2>4. pc' \in [Threads -> UltPc \cup MainPc]
    BY <2>1
  <2> QED
    BY <2>1, <2>2, <2>3, <2>4
<1>2. CASE Cardinality(Held) + 1 # BarrierCount
  BY <1>2 DEF Arrive
<1> QED
  BY <1>1, <1>2

LEMMA InitIInv == Init => IInv
<1> SUFFICES ASSUME Init PROVE IInv
  OBVIOUS
<1>1. pc = [t \in Threads |-> IF t = Main THEN "create" ELSE "none"]
  BY DEF Init
<1>2. pc[Main] = "create" /\ \A u \in Ults : pc[u] = "none"
  BY <1>1, Numbers
<1>3. TypeOK
  <2>1. pc \in [Threads -> UltPc \cup MainPc]
    BY <1>1 DEF UltPc, MainPc
  <2> QED
    BY <2>1, Numbers DEF Init, TypeOK
<1>4. PcInv
  BY <1>2 DEF PcInv, UltPc, MainPc
<1>5. SetterInv
  BY <1>2 DEF Init, SetterInv, SetterFindsEventual
<1>6. BarrierInv
  BY <1>2 DEF BarrierInv
<1>7. MainInv
  BY <1>2 DEF Init, MainInv
<1> QED
  BY <1>3, <1>4, <1>5, <1>6, <1>7 DEF IInv

-----------------------------------------------------------------------------
(* One step per action. *)

LEMMA IInvStep == IInv /\ [Next]_vars => IInv'
<1> SUFFICES ASSUME IInv, [Next]_vars PROVE IInv'
  OBVIOUS
<1> USE Numbers DEF IInv
<1>1. CASE Create
  <2>1. /\ pc[Main] = "create" /\ i \in Ults /\ pc[i] = "none"
        /\ pc'[i] = "ready"
        /\ pc'[Main] = IF i + 1 < NumUlts THEN "create" ELSE "start"
        /\ \A u \in Ults \ {i} : pc'[u] = pc[u]
        /\ i' = IF i + 1 < NumUlts THEN i + 1 ELSE 0
        /\ UNCHANGED <<running, spc, eventual, completed, sets, total, freed, started, expired>>
    BY <1>1 DEF Create, TypeOK, MainInv, argVars
  <2>2. pc' \in [Threads -> UltPc \cup MainPc]
    BY <1>1 DEF Create, TypeOK, UltPc, MainPc
  <2>3. i' \in Ults
    BY <2>1 DEF Ults
  <2>4. TypeOK'
    BY <2>1, <2>2, <2>3 DEF TypeOK
  <2>5. PcInv'
    BY <2>1 DEF PcInv, UltPc, MainPc
  <2>6. SetterInv'
    BY <2>1 DEF SetterInv, SetterFindsEventual
  <2>7. BarrierInv'
    BY <2>1 DEF BarrierInv
  <2>8. MainInv'
    <3>1. \A u \in Ults : u >= i + 1 => pc'[u] = "none"
      BY <2>1 DEF MainInv
    <3> QED
      BY <2>1, <3>1 DEF MainInv
  <2> QED
    BY <2>4, <2>5, <2>6, <2>7, <2>8
<1>2. CASE Start
  <2>1. TypeOK'
    BY <1>2 DEF Start, TypeOK, Ults, UltPc, MainPc, argVars, mainVars
  <2>2. PcInv'
    BY <1>2 DEF Start, TypeOK, PcInv, UltPc, MainPc, argVars, mainVars
  <2>3. SetterInv'
    BY <1>2 DEF Start, TypeOK, PcInv, SetterInv, SetterFindsEventual, UltPc, MainPc, argVars, mainVars
  <2>4. BarrierInv'
    BY <1>2 DEF Start, TypeOK, PcInv, BarrierInv, Over, UltPc, MainPc, argVars, mainVars
  <2>5. MainInv'
    BY <1>2 DEF Start, TypeOK, PcInv, MainInv, UltPc, MainPc, Ults, argVars, mainVars
  <2> QED
    BY <2>1, <2>2, <2>3, <2>4, <2>5
<1>3. CASE GoOn
  <2>1. TypeOK'
    BY <1>3 DEF GoOn, TypeOK, Ults, UltPc, MainPc, argVars, mainVars
  <2>2. PcInv'
    BY <1>3 DEF GoOn, TypeOK, PcInv, UltPc, MainPc, argVars, mainVars
  <2>3. SetterInv'
    BY <1>3 DEF GoOn, TypeOK, PcInv, SetterInv, SetterFindsEventual, UltPc, MainPc, argVars, mainVars
  <2>4. BarrierInv'
    BY <1>3 DEF GoOn, TypeOK, PcInv, BarrierInv, Over, UltPc, MainPc, argVars, mainVars
  <2>5. MainInv'
    BY <1>3 DEF GoOn, TypeOK, PcInv, MainInv, UltPc, MainPc, Ults, argVars, mainVars
  <2> QED
    BY <2>1, <2>2, <2>3, <2>4, <2>5
<1>4. CASE JoinWait
  <2>1. TypeOK'
    BY <1>4 DEF JoinWait, TypeOK, Ults, UltPc, MainPc, argVars, mainVars
  <2>2. PcInv'
    BY <1>4 DEF JoinWait, TypeOK, PcInv, UltPc, MainPc, argVars, mainVars
  <2>3. SetterInv'
    BY <1>4 DEF JoinWait, TypeOK, PcInv, SetterInv, SetterFindsEventual, UltPc, MainPc, argVars, mainVars
  <2>4. BarrierInv'
    BY <1>4 DEF JoinWait, TypeOK, PcInv, BarrierInv, Over, UltPc, MainPc, argVars, mainVars
  <2>5. MainInv'
    BY <1>4 DEF JoinWait, TypeOK, PcInv, MainInv, UltPc, MainPc, Ults, argVars, mainVars
  <2> QED
    BY <2>1, <2>2, <2>3, <2>4, <2>5
<1>5. CASE Join
  <2>1. TypeOK'
    BY <1>5 DEF Join, JoinNoWait, TypeOK, Ults, UltPc, MainPc, argVars, mainVars
  <2>2. PcInv'
    BY <1>5 DEF Join, JoinNoWait, TypeOK, PcInv, UltPc, MainPc, argVars, mainVars
  <2>3. SetterInv'
    BY <1>5 DEF Join, JoinNoWait, TypeOK, PcInv, SetterInv, SetterFindsEventual, UltPc, MainPc, argVars, mainVars
  <2>4. BarrierInv'
    BY <1>5 DEF Join, JoinNoWait, TypeOK, PcInv, BarrierInv, Over, UltPc, MainPc, argVars, mainVars
  <2>5. MainInv'
    <3>1. \A u \in Ults : u <= i => pc[u] = "done"
      BY <1>5 DEF Join, JoinNoWait, MainInv, TypeOK
    <3>2. \A u \in Ults : pc'[u] = pc[u]
      BY <1>5 DEF Join, JoinNoWait, TypeOK
    <3>3. ~freed /\ freed' = freed
      BY <1>5 DEF Join, JoinNoWait, MainInv
    <3>4. CASE i + 1 < NumUlts
      BY <1>5, <3>1, <3>2, <3>3, <3>4 DEF Join, JoinNoWait, MainInv, TypeOK
    <3>5. CASE ~(i + 1 < NumUlts)
      <4>1. \A u \in Ults : u <= i
        BY <3>5 DEF Ults, TypeOK
      <4>2. pc'[Main] = "free"
        BY <1>5, <3>5 DEF Join, JoinNoWait, TypeOK
      <4> QED
        BY <3>1, <3>2, <3>3, <4>1, <4>2 DEF MainInv
    <3> QED
      BY <3>4, <3>5
  <2> QED
    BY <2>1, <2>2, <2>3, <2>4, <2>5
<1>6. CASE Free
  <2>1. TypeOK'
    BY <1>6 DEF Free, TypeOK, Ults, UltPc, MainPc, argVars, mainVars
  <2>2. PcInv'
    BY <1>6 DEF Free, TypeOK, PcInv, UltPc, MainPc, argVars, mainVars
  <2>3. SetterInv'
    BY <1>6 DEF Free, TypeOK, PcInv, SetterInv, SetterFindsEventual, UltPc, MainPc, argVars, mainVars
  <2>4. BarrierInv'
    BY <1>6 DEF Free, TypeOK, PcInv, BarrierInv, Over, UltPc, MainPc, argVars, mainVars
  <2>5. MainInv'
    BY <1>6 DEF Free, TypeOK, PcInv, MainInv, UltPc, MainPc, Ults, argVars, mainVars
  <2> QED
    BY <2>1, <2>2, <2>3, <2>4, <2>5
<1>7. CASE Clock
  <2>1. TypeOK'
    BY <1>7 DEF Clock, TypeOK, Ults, UltPc, MainPc, argVars, mainVars
  <2>2. PcInv'
    BY <1>7 DEF Clock, TypeOK, PcInv, UltPc, MainPc, argVars, mainVars
  <2>3. SetterInv'
    BY <1>7 DEF Clock, TypeOK, PcInv, SetterInv, SetterFindsEventual, UltPc, MainPc, argVars, mainVars
  <2>4. BarrierInv'
    BY <1>7 DEF Clock, TypeOK, PcInv, BarrierInv, Over, UltPc, MainPc, argVars, mainVars
  <2>5. MainInv'
    BY <1>7 DEF Clock, TypeOK, PcInv, MainInv, UltPc, MainPc, Ults, argVars, mainVars
  <2> QED
    BY <2>1, <2>2, <2>3, <2>4, <2>5
<1>8. ASSUME NEW u \in Ults, Begin(u) PROVE IInv'
  <2>1. TypeOK'
    BY <1>8 DEF Begin, TypeOK, Ults, UltPc, MainPc, argVars, mainVars
  <2>2. PcInv'
    BY <1>8 DEF Begin, TypeOK, PcInv, UltPc, MainPc, argVars, mainVars
  <2>3. SetterInv'
    BY <1>8 DEF Begin, TypeOK, PcInv, SetterInv, SetterFindsEventual, UltPc, MainPc, argVars, mainVars
  <2>4. BarrierInv'
    BY <1>8 DEF Begin, TypeOK, PcInv, BarrierInv, Over, UltPc, MainPc, argVars, mainVars
  <2>5. MainInv'
    BY <1>8 DEF Begin, TypeOK, PcInv, MainInv, UltPc, MainPc, Ults, argVars, mainVars
  <2> QED
    BY <2>1, <2>2, <2>3, <2>4, <2>5
<1>9. ASSUME NEW u \in Ults, Return(u) PROVE IInv'
  <2>1. TypeOK'
    BY <1>9 DEF Return, TypeOK, Ults, UltPc, MainPc, argVars, mainVars
  <2>2. PcInv'
    BY <1>9 DEF Return, TypeOK, PcInv, UltPc, MainPc, argVars, mainVars
  <2>3. SetterInv'
    BY <1>9 DEF Return, TypeOK, PcInv, SetterInv, SetterFindsEventual, UltPc, MainPc, argVars, mainVars
  <2>4. BarrierInv'
    BY <1>9 DEF Return, TypeOK, PcInv, BarrierInv, Over, UltPc, MainPc, argVars, mainVars
  <2>5. MainInv'
    BY <1>9 DEF Return, TypeOK, PcInv, MainInv, UltPc, MainPc, Ults, argVars, mainVars
  <2> QED
    BY <2>1, <2>2, <2>3, <2>4, <2>5
<1>10. ASSUME NEW u \in Ults, CreateEventual(u) PROVE IInv'
  <2>1. TypeOK'
    BY <1>10 DEF CreateEventual, TypeOK, Ults, UltPc, MainPc, argVars, mainVars
  <2>2. PcInv'
    BY <1>10 DEF CreateEventual, TypeOK, PcInv, UltPc, MainPc, argVars, mainVars
  <2>3. SetterInv'
    BY <1>10 DEF CreateEventual, TypeOK, PcInv, SetterInv, SetterFindsEventual, UltPc, MainPc, argVars, mainVars
  <2>4. BarrierInv'
    BY <1>10 DEF CreateEventual, TypeOK, PcInv, BarrierInv, Over, UltPc, MainPc, argVars, mainVars
  <2>5. MainInv'
    BY <1>10 DEF CreateEventual, TypeOK, PcInv, MainInv, UltPc, MainPc, Ults, argVars, mainVars
  <2> QED
    BY <2>1, <2>2, <2>3, <2>4, <2>5
<1>11. ASSUME NEW u \in Ults, Spawn(u) PROVE IInv'
  <2>1. TypeOK'
    BY <1>11 DEF Spawn, TypeOK, Ults, UltPc, MainPc, argVars, mainVars, SetterInv, SetterFindsEventual
  <2>2. PcInv'
    BY <1>11 DEF Spawn, TypeOK, PcInv, UltPc, MainPc, argVars, mainVars, SetterInv, SetterFindsEventual
  <2>3. SetterInv'
    BY <1>11 DEF Spawn, TypeOK, PcInv, SetterInv, SetterFindsEventual, UltPc, MainPc, argVars, mainVars
  <2>4. BarrierInv'
    BY <1>11 DEF Spawn, TypeOK, PcInv, BarrierInv, Over, UltPc, MainPc, argVars, mainVars, SetterInv, SetterFindsEventual
  <2>5. MainInv'
    BY <1>11 DEF Spawn, TypeOK, PcInv, MainInv, UltPc, MainPc, Ults, argVars, mainVars, SetterInv, SetterFindsEventual
  <2> QED
    BY <2>1, <2>2, <2>3, <2>4, <2>5
<1>12. ASSUME NEW u \in Ults, Wait(u) PROVE IInv'
  <2>1. TypeOK'
    <3>1. pc' \in [Threads -> UltPc \cup MainPc]
      BY <1>12 DEF Wait, TypeOK, UltPc, MainPc
    <3>2. running' \in {running, Idle}
      BY <1>12 DEF Wait
    <3> QED
      BY <1>12, <3>1, <3>2 DEF Wait, TypeOK, argVars, mainVars
  <2>2. PcInv'
    BY <1>12 DEF Wait, TypeOK, PcInv, UltPc, MainPc, argVars, mainVars, SetterInv, SetterFindsEventual
  <2>3. SetterInv'
    BY <1>12 DEF Wait, TypeOK, PcInv, SetterInv, SetterFindsEventual, UltPc, MainPc, argVars, mainVars
  <2>4. BarrierInv'
    BY <1>12 DEF Wait, TypeOK, PcInv, BarrierInv, Over, UltPc, MainPc, argVars, mainVars, SetterInv, SetterFindsEventual
  <2>5. MainInv'
    <3>1. pc'[Main] = pc[Main] /\ UNCHANGED <<i, freed>>
      BY <1>12 DEF Wait, TypeOK, mainVars
    <3>2. pc[u] = "wait" /\ \A v \in Ults \ {u} : pc'[v] = pc[v]
      BY <1>12 DEF Wait, TypeOK
    <3> QED
      BY <3>1, <3>2 DEF MainInv
  <2> QED
    BY <2>1, <2>2, <2>3, <2>4, <2>5
<1>13. ASSUME NEW u \in Ults, Complete(u) PROVE IInv'
  <2>1. TypeOK'
    BY <1>13 DEF Complete, TypeOK, Ults, UltPc, MainPc, argVars, mainVars, SetterInv, SetterFindsEventual
  <2>2. PcInv'
    BY <1>13 DEF Complete, TypeOK, PcInv, UltPc, MainPc, argVars, mainVars, SetterInv, SetterFindsEventual
  <2>3. SetterInv'
    BY <1>13 DEF Complete, TypeOK, PcInv, SetterInv, SetterFindsEventual, UltPc, MainPc, argVars, mainVars
  <2>4. BarrierInv'
    BY <1>13 DEF Complete, TypeOK, PcInv, BarrierInv, Over, UltPc, MainPc, argVars, mainVars, SetterInv, SetterFindsEventual
  <2>5. MainInv'
    BY <1>13 DEF Complete, TypeOK, PcInv, MainInv, UltPc, MainPc, Ults, argVars, mainVars, SetterInv, SetterFindsEventual
  <2> QED
    BY <2>1, <2>2, <2>3, <2>4, <2>5
<1>14. ASSUME NEW u \in Ults, Sleep(u) PROVE IInv'
  <2>1. TypeOK'
    BY <1>14 DEF Sleep, TypeOK, Ults, UltPc, MainPc, argVars, mainVars
  <2>2. PcInv'
    BY <1>14 DEF Sleep, TypeOK, PcInv, UltPc, MainPc, argVars, mainVars
  <2>3. SetterInv'
    BY <1>14 DEF Sleep, TypeOK, PcInv, SetterInv, SetterFindsEventual, UltPc, MainPc, argVars, mainVars
  <2>4. BarrierInv'
    BY <1>14 DEF Sleep, TypeOK, PcInv, BarrierInv, Over, UltPc, MainPc, argVars, mainVars
  <2>5. MainInv'
    BY <1>14 DEF Sleep, TypeOK, PcInv, MainInv, UltPc, MainPc, Ults, argVars, mainVars
  <2> QED
    BY <2>1, <2>2, <2>3, <2>4, <2>5
<1>15. ASSUME NEW u \in Ults, Set(u) PROVE IInv'
  <2>1. TypeOK'
    BY <1>15 DEF Set, TypeOK, Ults, UltPc, MainPc, argVars, mainVars, SetterInv, SetterFindsEventual
  <2>2. PcInv'
    BY <1>15 DEF Set, TypeOK, PcInv, UltPc, MainPc, argVars, mainVars, SetterInv, SetterFindsEventual
  <2>3. SetterInv'
    BY <1>15 DEF Set, TypeOK, PcInv, SetterInv, SetterFindsEventual, UltPc, MainPc, argVars, mainVars
  <2>4. BarrierInv'
    BY <1>15 DEF Set, TypeOK, PcInv, BarrierInv, Over, UltPc, MainPc, argVars, mainVars, SetterInv, SetterFindsEventual
  <2>5. MainInv'
    BY <1>15 DEF Set, TypeOK, PcInv, MainInv, UltPc, MainPc, Ults, argVars, mainVars, SetterInv, SetterFindsEventual
  <2> QED
    BY <2>1, <2>2, <2>3, <2>4, <2>5
<1>16. ASSUME NEW u \in Ults, RunSetter(u) PROVE IInv'
  <2>1. TypeOK'
    BY <1>16 DEF RunSetter, TypeOK, Ults, UltPc, MainPc, argVars, mainVars
  <2>2. PcInv'
    BY <1>16 DEF RunSetter, TypeOK, PcInv, UltPc, MainPc, argVars, mainVars
  <2>3. SetterInv'
    BY <1>16 DEF RunSetter, TypeOK, PcInv, SetterInv, SetterFindsEventual, UltPc, MainPc, argVars, mainVars
  <2>4. BarrierInv'
    BY <1>16 DEF RunSetter, TypeOK, PcInv, BarrierInv, Over, UltPc, MainPc, argVars, mainVars
  <2>5. MainInv'
    BY <1>16 DEF RunSetter, TypeOK, PcInv, MainInv, UltPc, MainPc, Ults, argVars, mainVars
  <2> QED
    BY <2>1, <2>2, <2>3, <2>4, <2>5
<1>17. ASSUME NEW u \in Ults, Expire(u) PROVE IInv'
  <2>1. TypeOK'
    BY <1>17 DEF Expire, TypeOK, Ults, UltPc, MainPc, argVars, mainVars
  <2>2. PcInv'
    BY <1>17 DEF Expire, TypeOK, PcInv, UltPc, MainPc, argVars, mainVars
  <2>3. SetterInv'
    BY <1>17 DEF Expire, TypeOK, PcInv, SetterInv, SetterFindsEventual, UltPc, MainPc, argVars, mainVars
  <2>4. BarrierInv'
    BY <1>17 DEF Expire, TypeOK, PcInv, BarrierInv, Over, UltPc, MainPc, argVars, mainVars
  <2>5. MainInv'
    BY <1>17 DEF Expire, TypeOK, PcInv, MainInv, UltPc, MainPc, Ults, argVars, mainVars
  <2> QED
    BY <2>1, <2>2, <2>3, <2>4, <2>5
<1>18. ASSUME NEW t \in Threads, Run(t) PROVE IInv'
  <2>1. TypeOK'
    BY <1>18 DEF Run, TypeOK, Ults, UltPc, MainPc, argVars, mainVars
  <2>2. PcInv'
    BY <1>18 DEF Run, TypeOK, PcInv, UltPc, MainPc, argVars, mainVars
  <2>3. SetterInv'
    BY <1>18 DEF Run, TypeOK, PcInv, SetterInv, SetterFindsEventual, UltPc, MainPc, argVars, mainVars
  <2>4. BarrierInv'
    BY <1>18 DEF Run, TypeOK, PcInv, BarrierInv, Over, UltPc, MainPc, argVars, mainVars
  <2>5. MainInv'
    BY <1>18 DEF Run, TypeOK, PcInv, MainInv, UltPc, MainPc, Ults, argVars, mainVars
  <2> QED
    BY <2>1, <2>2, <2>3, <2>4, <2>5
<1>19. ASSUME NEW t \in Threads, Arrive(t) PROVE IInv'
  <2>1. TypeOK'
    BY <1>19, ArriveStep DEF TypeOK, Ults, UltPc, MainPc, argVars, mainVars
  <2>2. PcInv'
    BY <1>19, ArriveStep DEF TypeOK, PcInv, UltPc, MainPc, argVars, mainVars
  <2>3. SetterInv'
    BY <1>19, ArriveStep DEF TypeOK, PcInv, SetterInv, SetterFindsEventual, UltPc, MainPc, argVars, mainVars
  <2>4. BarrierInv'
    BY <1>19, ArriveStep DEF TypeOK, PcInv, BarrierInv, Over, UltPc, MainPc, argVars, mainVars
  <2>5. MainInv'
    <3>1. UNCHANGED <<i, freed>>
      BY <1>19, ArriveStep DEF mainVars
    <3>2. \A v \in Ults : pc[v] \in {"none", "done"} => pc'[v] = pc[v]
      BY <1>19, ArriveStep
    <3>3. \/ pc'[Main] = pc[Main]
          \/ pc[Main] = "arrive" /\ pc'[Main] = "held"
          \/ pc[Main] \in {"arrive", "held"} /\ pc'[Main] = "released"
      BY <1>19, ArriveStep
    <3> QED
      BY <3>1, <3>2, <3>3 DEF MainInv
  <2> QED
    BY <2>1, <2>2, <2>3, <2>4, <2>5
<1>20. CASE UNCHANGED vars
  BY <1>20 DEF TypeOK, PcInv, SetterInv, SetterFindsEventual, BarrierInv, MainInv, vars, argVars, mainVars
<1> QED
  BY <1>1, <1>2, <1>3, <1>4, <1>5, <1>6, <1>7, <1>8, <1>9, <1>10, <1>11, <1>12, <1>13, <1>14, <1>15, <1>16, <1>17, <1>18, <1>19, <1>20
     DEF Next, MainStep, BenchStep, SetterStep

-----------------------------------------------------------------------------
LEMMA Invariance == Spec => []IInv
  BY InitIInv, IInvStep, PTL DEF Spec

(***************************************************************************)
(* Every variable of the two programs keeps its type.                      *)
(***************************************************************************)
THEOREM TypeCorrect == Spec => []TypeOK
<1>1. IInv => TypeOK
  BY DEF IInv
<1> QED
  BY <1>1, Invariance, PTL

(***************************************************************************)
(* No bench_thread passes the barrier before main has taken the start      *)
(* time, in whatever order they arrive.                                    *)
(***************************************************************************)
THEOREM StartBeforeWork == Spec => []StartTimeTaken
<1>1. IInv => StartTimeTaken
  BY DEF IInv, BarrierInv, StartTimeTaken
<1> QED
  BY <1>1, Invariance, PTL

(***************************************************************************)
(* A setter finds the eventual of the wait it was started for, however     *)
(* long it sleeps.                                                         *)
(***************************************************************************)
THEOREM SetterFindsItsEventual == Spec => []SetterFindsEventual
<1>1. IInv => SetterFindsEventual
  BY DEF IInv, SetterInv
<1> QED
  BY <1>1, Invariance, PTL

(***************************************************************************)
(* Barrier and arguments are freed when nobody is left to use them, though *)
(* nobody joins the setters.                                               *)
(***************************************************************************)
THEOREM FreedAfterUse == Spec => []NothingOutlivesArguments
<1>1. IInv => NothingOutlivesArguments
  <2> SUFFICES ASSUME IInv, freed, NEW u \in Ults
               PROVE  spc[u] = "none" /\ pc[u] = "done"
    BY DEF NothingOutlivesArguments
  <2>1. pc[u] = "done"
    BY DEF IInv, MainInv
  <2> QED
    BY <2>1 DEF IInv, SetterInv, SetterFindsEventual
<1> QED
  BY <1>1, Invariance, PTL

-----------------------------------------------------------------------------
(* The sum main reports. *)

(* What a bench_thread holds at each place, and what it has counted before *)
(* its first operation.                                                    *)
HoldsInv ==
    \A u \in Ults :
        /\ pc[u] \in {"none", "ready", "arrive", "held", "loop", "done"} => eventual[u] = "none"
        /\ pc[u] = "woken" => eventual[u] = "set"
        /\ pc[u] \in {"none", "ready"} => completed[u] = 0

(* The sets of a bench_thread: what it has counted, and the one it is      *)
(* about to count.                                                         *)
Counted(u) == completed[u] + (IF eventual[u] = "set" THEN 1 ELSE 0)

JoinedUpTo ==
    IF pc[Main] = "join" THEN i ELSE IF pc[Main] \in {"free", "exit"} THEN NumUlts ELSE 0

(* Sums over the first bench_threads: main's total is one, all sets the    *)
(* last.                                                                   *)
PartialSums(p) ==
    /\ p[0] = 0
    /\ p[NumUlts] = sets
    /\ p[JoinedUpTo] = total
    /\ \A u \in Ults : p[u + 1] = p[u] + Counted(u)

SumInv == \E p \in [0..NumUlts -> Nat] : PartialSums(p)

LEMMA HoldsInit == Init => HoldsInv
  BY Numbers DEF Init, HoldsInv

LEMMA HoldsStep ==
    ASSUME IInv, HoldsInv, [Next]_vars
    PROVE  HoldsInv'
<1> USE Numbers DEF IInv, TypeOK, HoldsInv
<1>1. CASE Create
  BY <1>1 DEF Create, MainInv, argVars
<1>2. CASE Start \/ GoOn \/ JoinWait \/ Join \/ Free \/ Clock
  BY <1>2 DEF Start, GoOn, JoinWait, Join, JoinNoWait, Free, Clock, argVars
<1>3. ASSUME NEW t \in Threads, Run(t) PROVE HoldsInv'
  BY <1>3 DEF Run, argVars
<1>4. ASSUME NEW t \in Threads, Arrive(t) PROVE HoldsInv'
  BY <1>4, ArriveStep DEF argVars
<1>5. ASSUME NEW u \in Ults, Begin(u) \/ Return(u) \/ CreateEventual(u) PROVE HoldsInv'
  BY <1>5 DEF Begin, Return, CreateEventual, argVars
<1>6. ASSUME NEW u \in Ults, Spawn(u) \/ Complete(u) PROVE HoldsInv'
  BY <1>6 DEF Spawn, Complete, argVars
<1>7. ASSUME NEW u \in Ults, Wait(u) PROVE HoldsInv'
  BY <1>7 DEF Wait, argVars
<1>8. ASSUME NEW u \in Ults, Sleep(u) \/ RunSetter(u) \/ Expire(u) PROVE HoldsInv'
  BY <1>8 DEF Sleep, RunSetter, Expire, argVars
<1>9. ASSUME NEW u \in Ults, Set(u) PROVE HoldsInv'
  BY <1>9 DEF Set, SetterInv, SetterFindsEventual
<1>10. CASE UNCHANGED vars
  BY <1>10 DEF vars, argVars
<1> QED
  BY <1>1, <1>2, <1>3, <1>4, <1>5, <1>6, <1>7, <1>8, <1>9, <1>10
     DEF Next, MainStep, BenchStep, SetterStep

(* Only a setter changes how many sets there are to count. *)
LEMMA CountedKept ==
    ASSUME IInv, HoldsInv, [Next]_vars, ~ (\E u \in Ults : Set(u))
    PROVE  sets' = sets /\ \A u \in Ults : Counted(u)' = Counted(u)
<1> DEFINE Kept == sets' = sets /\ \A u \in Ults : Counted(u)' = Counted(u)
<1> USE Numbers DEF IInv, TypeOK, HoldsInv, Counted
<1>1. CASE MainStep \/ Clock
  <2>1. UNCHANGED argVars
    BY <1>1 DEF MainStep, Create, Start, Arrive, GoOn, JoinWait, Join, JoinNoWait, Free, Clock
  <2> QED
    BY <2>1 DEF argVars
<1>2. ASSUME NEW t \in Threads, Run(t) PROVE Kept
  BY <1>2 DEF Run, argVars
<1>3. ASSUME NEW u \in Ults, Arrive(u) \/ Return(u) \/ Wait(u) PROVE Kept
  BY <1>3 DEF Arrive, Return, Wait, argVars
<1>4. ASSUME NEW u \in Ults, Begin(u) \/ CreateEventual(u) \/ Spawn(u) PROVE Kept
  BY <1>4 DEF Begin, CreateEventual, Spawn
<1>5. ASSUME NEW u \in Ults, Complete(u) PROVE Kept
  BY <1>5 DEF Complete
<1>6. ASSUME NEW u \in Ults, Sleep(u) \/ RunSetter(u) \/ Expire(u) PROVE Kept
  BY <1>6 DEF Sleep, RunSetter, Expire, argVars
<1>7. CASE UNCHANGED vars
  BY <1>7 DEF vars, argVars
<1> QED
  BY <1>1, <1>2, <1>3, <1>4, <1>5, <1>6, <1>7 DEF Next, BenchStep, SetterStep

(* Main's total moves only in Join, to the next partial sum. *)
LEMMA TotalKept ==
    ASSUME IInv, [Next]_vars, ~ Join
    PROVE  JoinedUpTo' = JoinedUpTo /\ total' = total
<1> DEFINE Kept == JoinedUpTo' = JoinedUpTo /\ total' = total
<1> USE Numbers DEF IInv, TypeOK, JoinedUpTo
<1>1. CASE Create \/ Start
  BY <1>1 DEF Create, Start, mainVars
<1>2. CASE GoOn
  BY <1>2 DEF GoOn, mainVars, MainInv
<1>3. CASE JoinWait \/ Free \/ Clock
  BY <1>3 DEF JoinWait, Free, Clock, mainVars
<1>4. ASSUME NEW t \in Threads, Arrive(t) PROVE Kept
  <2>1. UNCHANGED mainVars
    BY <1>4 DEF Arrive
  <2>2. \/ pc'[Main] = pc[Main]
        \/ pc[Main] \in {"arrive", "held"} /\ pc'[Main] \in {"held", "released"}
    BY <1>4, ArriveStep
  <2> QED
    BY <2>1, <2>2 DEF mainVars
<1>5. ASSUME NEW t \in Threads, Run(t) PROVE Kept
  BY <1>5 DEF Run, mainVars
<1>6. ASSUME NEW u \in Ults, BenchStep(u), ~ Arrive(u) PROVE Kept
  <2>1. UNCHANGED mainVars /\ pc'[Main] = pc[Main]
    BY <1>6 DEF BenchStep, Begin, Return, CreateEventual, Spawn, Wait, Complete
  <2> QED
    BY <2>1 DEF mainVars
<1>7. ASSUME NEW u \in Ults, SetterStep(u) \/ RunSetter(u) \/ Expire(u) PROVE Kept
  <2>1. UNCHANGED mainVars /\ pc'[Main] = pc[Main]
    BY <1>7 DEF SetterStep, Sleep, Set, RunSetter, Expire
  <2> QED
    BY <2>1 DEF mainVars
<1>8. CASE UNCHANGED vars
  BY <1>8 DEF vars, mainVars
<1> QED
  BY <1>1, <1>2, <1>3, <1>4, <1>5, <1>6, <1>7, <1>8 DEF Next, MainStep

LEMMA SumInit == Init => SumInv
<1> SUFFICES ASSUME Init PROVE SumInv
  OBVIOUS
<1> DEFINE p == [j \in 0..NumUlts |-> 0]
<1>1. JoinedUpTo = 0 /\ total = 0 /\ sets = 0 /\ \A u \in Ults : Counted(u) = 0
  BY Numbers DEF Init, JoinedUpTo, Counted
<1>2. /\ p \in [0..NumUlts -> Nat] /\ 0 \in 0..NumUlts /\ NumUlts \in 0..NumUlts
      /\ \A u \in Ults : u \in 0..NumUlts /\ u + 1 \in 0..NumUlts
  BY Numbers DEF Ults
<1>3. PartialSums(p)
  BY <1>1, <1>2 DEF PartialSums
<1> QED
  BY <1>2, <1>3 DEF SumInv

(* A set raises every partial sum beyond its bench_thread, which main has  *)
(* not joined.                                                             *)
LEMMA SumStep ==
    ASSUME IInv, HoldsInv, SumInv, [Next]_vars
    PROVE  SumInv'
<1>1. PICK p \in [0..NumUlts -> Nat] : PartialSums(p)
  BY DEF SumInv
<1>2. NumUlts \in Nat \ {0} /\ \A u \in Ults : u \in Nat /\ u < NumUlts
  BY Numbers DEF Ults
<1>3. CASE \E u \in Ults : Set(u)
  <2>1. PICK w \in Ults : Set(w)
    BY <1>3
  <2> DEFINE q == [j \in 0..NumUlts |-> IF j > w THEN p[j] + 1 ELSE p[j]]
  <2>2. q \in [0..NumUlts -> Nat]
    BY <1>2
  <2>3. eventual[w] = "unset" /\ pc[w] \in {"wait", "blocked"}
    BY <2>1 DEF Set, IInv, SetterInv, SetterFindsEventual
  <2>4. /\ eventual' = [eventual EXCEPT ![w] = "set"] /\ sets' = sets + 1
        /\ UNCHANGED completed /\ UNCHANGED mainVars
        /\ pc'[Main] = pc[Main]
    BY <2>1, <2>3, Numbers DEF Set, IInv, TypeOK
  <2>5. /\ Counted(w)' = Counted(w) + 1
        /\ \A v \in Ults \ {w} : Counted(v)' = Counted(v)
        /\ \A v \in Ults : Counted(v) \in Nat
    BY <2>3, <2>4 DEF Counted, IInv, TypeOK
  <2>6. /\ JoinedUpTo' = JoinedUpTo /\ total' = total
        /\ JoinedUpTo \in 0..NumUlts /\ JoinedUpTo <= w
    <3>1. JoinedUpTo' = JoinedUpTo /\ total' = total
      BY <2>4 DEF JoinedUpTo, mainVars
    <3>2. pc[Main] = "join" => i <= w
      <4>1. i \in Nat /\ w \in Nat
        BY <1>2 DEF IInv, TypeOK
      <4>2. pc[Main] = "join" /\ w < i => pc[w] = "done"
        BY DEF IInv, MainInv
      <4> QED
        BY <2>3, <4>1, <4>2
    <3>3. pc[Main] \notin {"free", "exit"}
      BY <2>3 DEF IInv, MainInv
    <3> QED
      BY <1>2, <3>1, <3>2, <3>3 DEF JoinedUpTo, IInv, TypeOK
  <2>7. q[0] = 0 /\ q[NumUlts] = sets'
    BY <1>1, <1>2, <2>4 DEF PartialSums
  <2>8. q[JoinedUpTo'] = total'
    BY <1>1, <1>2, <2>6 DEF PartialSums
  <2>9. ASSUME NEW v \in Ults PROVE q[v + 1] = q[v] + Counted(v)'
    <3>1. p[v + 1] = p[v] + Counted(v)
      BY <1>1, Zenon DEF PartialSums
    <3>2. v \in 0..NumUlts /\ v + 1 \in 0..NumUlts /\ p[v] \in Nat
      BY <1>2
    <3>3. CASE v = w
      BY <1>2, <2>5, <3>1, <3>2, <3>3
    <3>4. CASE v # w
      <4>1. v + 1 > w <=> v > w
        BY <1>2, <3>4
      <4> QED
        BY <1>2, <2>5, <3>1, <3>2, <3>4, <4>1
    <3> QED
      BY <3>3, <3>4
  <2>10. PartialSums(q)'
    BY <2>7, <2>8, <2>9 DEF PartialSums
  <2> QED
    BY <2>2, <2>10 DEF SumInv
<1>4. CASE Join
  <2>1. sets' = sets /\ \A u \in Ults : Counted(u)' = Counted(u)
    BY <1>4 DEF Join, JoinNoWait, argVars, Counted
  <2>2. /\ pc[Main] = "join" /\ i \in Ults /\ pc[i] = "done"
        /\ total' = total + completed[i]
    BY <1>4 DEF Join, JoinNoWait, IInv, TypeOK
  <2>3. Counted(i) = completed[i]
    BY <2>2 DEF Counted, HoldsInv, IInv, TypeOK
  <2>4. JoinedUpTo = i /\ JoinedUpTo' = i + 1
    <3>1. CASE i + 1 < NumUlts
      BY <1>4, <2>2, <3>1 DEF Join, JoinNoWait, JoinedUpTo
    <3>2. CASE ~(i + 1 < NumUlts)
      <4>1. i + 1 = NumUlts
        BY <1>2, <2>2, <3>2
      <4>2. pc'[Main] = "free"
        BY <1>4, <3>2, Numbers DEF Join, JoinNoWait, IInv, TypeOK
      <4> QED
        BY <2>2, <4>1, <4>2 DEF JoinedUpTo
    <3> QED
      BY <3>1, <3>2
  <2>5. p[JoinedUpTo'] = total'
    BY <1>1, <2>2, <2>3, <2>4 DEF PartialSums
  <2> QED
    BY <1>1, <2>1, <2>5 DEF PartialSums, SumInv
<1>5. CASE ~ Join /\ ~ (\E u \in Ults : Set(u))
  <2>1. /\ sets' = sets /\ JoinedUpTo' = JoinedUpTo /\ total' = total
        /\ \A u \in Ults : Counted(u)' = Counted(u)
    BY <1>5, CountedKept, TotalKept
  <2> QED
    BY <1>1, <2>1 DEF PartialSums, SumInv
<1> QED
  BY <1>3, <1>4, <1>5

(***************************************************************************)
(* The number of operations main prints is the number of times an          *)
(* eventual was set, for any number of bench_threads and whenever the      *)
(* duration ends.                                                          *)
(***************************************************************************)
THEOREM RateCountsEverySet == Spec => []EverySetCounted
<1>1. IInv /\ SumInv => EverySetCounted
  BY Numbers DEF SumInv, PartialSums, EverySetCounted, JoinedUpTo
<1>2. IInv /\ HoldsInv /\ [Next]_vars => HoldsInv'
  BY HoldsStep
<1>3. IInv /\ HoldsInv /\ SumInv /\ [Next]_vars => SumInv'
  BY SumStep
<1> QED
  BY <1>1, <1>2, <1>3, InitIInv, IInvStep, HoldsInit, SumInit, PTL DEF Spec
-----------------------------------------------------------------------------
(* Nobody is stuck.                                                        *)

(* Who has the primary ES can go on, and who would have to have it does.   *)
StreamInv ==
    /\ running = Main => pc[Main] \notin {"held", "exit"}
    /\ pc[Main] \in {"create", "start", "arrive", "free"} => running = Main
    /\ \A u \in Ults :
         /\ running = u => pc[u] \notin {"none", "held", "blocked", "done"}
         /\ pc[u] \in {"arrive", "spawn", "wait"} => running = u
         /\ running = SetterOf(u) => spc[u] \in {"ready", "awake"}
         /\ pc[u] \in {"wait", "blocked"} => spc[u] # "none"

(* Where the bench_threads are while main is at each of its places.  Until *)
(* the barrier opens it lacks somebody; behind it everybody is past it.    *)
PhaseInv ==
    /\ pc[Main] = "create" =>
          \A u \in Ults : pc[u] \in {"none", "ready"} /\ (u < i => pc[u] = "ready")
    /\ pc[Main] \in {"start", "arrive"} => \A u \in Ults : pc[u] = "ready"
    /\ pc[Main] = "held" => /\ \A u \in Ults : pc[u] \in {"ready", "arrive", "held"}
                            /\ \E u \in Ults : pc[u] # "held"
    /\ pc[Main] \in {"released", "join", "free", "exit"} =>
          \A u \in Ults : pc[u] \in {"loop", "spawn", "wait", "blocked", "woken", "done"}

PInv == IInv /\ StreamInv /\ PhaseInv

(* No two ULTs are the same. *)
LEMMA Names ==
    /\ Idle \notin Threads /\ Main # Idle
    /\ \A u \in Ults : /\ u # Idle /\ SetterOf(u) # Idle /\ SetterOf(u) \notin Threads
                        /\ SetterOf(u) # Main
                        /\ \A v \in Ults : SetterOf(u) # v /\ (SetterOf(u) = SetterOf(v) => u = v)
  BY Numbers DEF SetterOf, Idle, Main, Threads, Ults

(* The barrier opens for the last of all threads and holds every other.    *)
LEMMA ArriveOpens ==
    ASSUME TypeOK, NEW t \in Threads, Arrive(t)
    PROVE  \/ /\ running' = running
              /\ \A v \in Threads : /\ pc[v] = "held" \/ v = t
                                    /\ pc'[v] = IF v = Main THEN "released" ELSE "loop"
           \/ /\ running' = Idle
              /\ pc' = [pc EXCEPT ![t] = "held"]
              /\ \E v \in Threads : pc[v] # "held" /\ v # t
<1>1. IsFiniteSet(Ults) /\ Cardinality(Ults) = NumUlts
  <2>1. 0 \in Int /\ NumUlts - 1 \in Int
    BY Numbers
  <2> QED
    BY <2>1, FS_Interval, Numbers DEF Ults
<1>2. IsFiniteSet(Threads) /\ Cardinality(Threads) = NumUlts + 1
  BY <1>1, Numbers, FS_AddElement
<1>3. Held \subseteq Threads /\ t \notin Held
  BY DEF Held, Arrive
<1>4. IsFiniteSet(Held) /\ Cardinality(Held \cup {t}) = Cardinality(Held) + 1
  BY <1>2, <1>3, FS_Subset, FS_AddElement
<1>5. CASE Cardinality(Held) + 1 = BarrierCount
  <2>1. Held \cup {t} \subseteq Threads
    BY <1>3
  <2>2. Held \cup {t} = Threads
    BY <1>2, <1>4, <1>5, <2>1, FS_Subset DEF BarrierCount
  <2>3. /\ running' = running
        /\ pc' = [v \in Threads |->
                    IF v \in Held \cup {t} THEN IF v = Main THEN "released" ELSE "loop"
                                           ELSE pc[v]]
    BY <1>5 DEF Arrive
  <2> QED
    BY <2>2, <2>3 DEF Held
<1>6. CASE Cardinality(Held) + 1 # BarrierCount
  <2>1. Held \cup {t} # Threads
    BY <1>2, <1>4, <1>6 DEF BarrierCount
  <2>2. \E v \in Threads : v \notin Held /\ v # t
    BY <1>3, <2>1
  <2> QED
    BY <1>6, <2>2 DEF Arrive, Held
<1> QED
  BY <1>5, <1>6

LEMMA PInit == Init => PInv
<1> SUFFICES ASSUME Init PROVE PInv
  OBVIOUS
<1>1. pc = [t \in Threads |-> IF t = Main THEN "create" ELSE "none"] /\ i = 0 /\ running = Main
  BY DEF Init
<1>2. pc[Main] = "create" /\ \A u \in Ults : pc[u] = "none" /\ u \in Nat
  BY <1>1, Numbers
<1>3. StreamInv
  BY <1>1, <1>2, Names, Numbers DEF StreamInv
<1>4. PhaseInv
  BY <1>1, <1>2 DEF PhaseInv
<1> QED
  BY <1>3, <1>4, InitIInv DEF PInv

LEMMA StreamStep == PInv /\ [Next]_vars => StreamInv'
<1> SUFFICES ASSUME PInv, [Next]_vars PROVE StreamInv'
  OBVIOUS
<1> USE Numbers, Names DEF PInv, IInv, TypeOK, StreamInv
<1>1. CASE Create
  <2>1. \A u \in Ults : pc[u] \in {"none", "ready"} /\ pc'[u] \in {"none", "ready"}
    BY <1>1 DEF Create, PhaseInv
  <2>2. pc'[Main] \in {"create", "start"} /\ running = Main /\ running' = running /\ spc' = spc
    BY <1>1 DEF Create, argVars
  <2> QED
    BY <2>1, <2>2
<1>2. CASE Start \/ GoOn
  BY <1>2 DEF Start, GoOn, argVars
<1>3. CASE JoinWait
  BY <1>3 DEF JoinWait, argVars
<1>4. CASE Join
  BY <1>4 DEF Join, JoinNoWait, argVars
<1>5. CASE Free
  BY <1>5 DEF Free, argVars
<1>6. CASE Clock
  BY <1>6 DEF Clock, argVars
<1>7. ASSUME NEW t \in Threads, Run(t) PROVE StreamInv'
  <2>1. UNCHANGED <<pc, spc>> /\ running = Idle /\ running' = t /\ Runnable(t)
    BY <1>7 DEF Run, argVars
  <2>2. CASE t = Main
    BY <2>1, <2>2 DEF Runnable
  <2>3. CASE t \in Ults
    BY <2>1, <2>3 DEF Runnable
  <2> QED
    BY <2>2, <2>3
<1>8. ASSUME NEW t \in Threads, Arrive(t) PROVE StreamInv'
  <2>1. pc[t] = "arrive" /\ running = t /\ spc' = spc
    BY <1>8 DEF Arrive, argVars
  <2>2. CASE /\ running' = running
             /\ \A v \in Threads : /\ pc[v] = "held" \/ v = t
                                   /\ pc'[v] = IF v = Main THEN "released" ELSE "loop"
    BY <2>1, <2>2
  <2>3. CASE running' = Idle /\ pc' = [pc EXCEPT ![t] = "held"]
    BY <2>1, <2>3
  <2> QED
    BY <1>8, <2>2, <2>3, ArriveOpens
<1>9. ASSUME NEW u \in Ults, Begin(u) \/ Return(u) \/ CreateEventual(u) PROVE StreamInv'
  BY <1>9 DEF Begin, Return, CreateEventual, argVars
<1>10. ASSUME NEW u \in Ults, Spawn(u) PROVE StreamInv'
  BY <1>10 DEF Spawn
<1>11. ASSUME NEW u \in Ults, Complete(u) PROVE StreamInv'
  BY <1>11 DEF Complete
<1>12. ASSUME NEW u \in Ults, Wait(u) PROVE StreamInv'
  <2>1. /\ running = u /\ pc[u] = "wait" /\ spc' = spc
        /\ \/ pc' = [pc EXCEPT ![u] = "woken"] /\ running' = running
           \/ pc' = [pc EXCEPT ![u] = "blocked"] /\ running' = Idle
    BY <1>12 DEF Wait, argVars
  <2> QED
    BY <2>1
<1>13. ASSUME NEW u \in Ults, Sleep(u) \/ RunSetter(u) \/ Expire(u) PROVE StreamInv'
  BY <1>13 DEF Sleep, RunSetter, Expire, argVars
<1>14. ASSUME NEW u \in Ults, Set(u) PROVE StreamInv'
  <2>1. /\ running = SetterOf(u) /\ running' = Idle /\ spc' = [spc EXCEPT ![u] = "none"]
        /\ pc' = [pc EXCEPT ![u] = IF @ = "blocked" THEN "woken" ELSE @]
        /\ pc[u] = "blocked"
    BY <1>14 DEF Set, SetterInv, SetterFindsEventual
  <2> QED
    BY <2>1
<1>15. CASE UNCHANGED vars
  BY <1>15 DEF vars, argVars
<1> QED
  BY <1>1, <1>2, <1>3, <1>4, <1>5, <1>6, <1>7, <1>8, <1>9, <1>10, <1>11, <1>12, <1>13, <1>14,
     <1>15 DEF Next, MainStep, BenchStep, SetterStep

LEMMA PhaseStep == PInv /\ [Next]_vars => PhaseInv'
<1> SUFFICES ASSUME PInv, [Next]_vars PROVE PhaseInv'
  OBVIOUS
<1> USE Numbers, Names DEF PInv, IInv, TypeOK
<1>1. CASE Create
  <2>1. /\ \A u \in Ults : pc[u] \in {"none", "ready"} /\ (u < i => pc[u] = "ready")
        /\ i \in Ults /\ pc[Main] = "create"
        /\ pc'[i] = "ready" /\ \A u \in Ults \ {i} : pc'[u] = pc[u]
        /\ \/ pc'[Main] = "create" /\ i' = i + 1
           \/ pc'[Main] = "start" /\ ~(i + 1 < NumUlts)
    BY <1>1 DEF Create, PhaseInv
  <2>2. \A u \in Ults : pc'[u] \in {"none", "ready"} /\ (u < i + 1 => pc'[u] = "ready")
    BY <2>1
  <2>3. ~(i + 1 < NumUlts) => \A u \in Ults : u < i + 1
    BY <2>1 DEF Ults
  <2> QED
    BY <2>1, <2>2, <2>3 DEF PhaseInv
<1>2. CASE Start \/ GoOn
  BY <1>2 DEF Start, GoOn, PhaseInv
<1>3. CASE JoinWait \/ Clock
  BY <1>3 DEF JoinWait, Clock, PhaseInv, mainVars
<1>4. CASE Join \/ Free
  BY <1>4 DEF Join, JoinNoWait, Free, PhaseInv
<1>5. ASSUME NEW t \in Threads, Run(t) PROVE PhaseInv'
  BY <1>5 DEF Run, PhaseInv, mainVars
<1>6. ASSUME NEW t \in Threads, Arrive(t) PROVE PhaseInv'
  <2>1. pc[t] = "arrive" /\ i' = i
    BY <1>6 DEF Arrive, mainVars
  <2>2. CASE \A v \in Threads : /\ pc[v] = "held" \/ v = t
                                /\ pc'[v] = IF v = Main THEN "released" ELSE "loop"
    BY <2>2 DEF PhaseInv
  <2>3. CASE /\ pc' = [pc EXCEPT ![t] = "held"]
             /\ \E v \in Threads : pc[v] # "held" /\ v # t
    <3>1. CASE t = Main
      BY <2>1, <2>3, <3>1 DEF PhaseInv
    <3>2. CASE t \in Ults
      BY <2>1, <2>3, <3>2 DEF PhaseInv
    <3> QED
      BY <3>1, <3>2
  <2> QED
    BY <1>6, <2>2, <2>3, ArriveOpens
<1>7. ASSUME NEW u \in Ults, BenchStep(u) \/ SetterStep(u) \/ RunSetter(u) \/ Expire(u),
             ~Arrive(u)
      PROVE  /\ UNCHANGED <<i>> /\ pc'[Main] = pc[Main]
             /\ \A v \in Ults \ {u} : pc'[v] = pc[v]
             /\ \/ pc'[u] = pc[u]
                \/ pc[u] = "ready" /\ pc'[u] = "arrive" 
                \/ /\ pc[u] \in {"loop", "spawn", "wait", "blocked", "woken"}
                   /\ pc'[u] \in {"loop", "spawn", "wait", "blocked", "woken", "done"}
  BY <1>7 DEF BenchStep, Begin, Return, CreateEventual, Spawn, Complete, Wait, SetterStep,
              Sleep, Set, RunSetter, Expire, mainVars
<1>8. ASSUME NEW u \in Ults, Begin(u) PROVE pc[Main] \notin {"create", "start", "arrive"}
  BY <1>8 DEF Begin, StreamInv
<1>9. ASSUME NEW u \in Ults, BenchStep(u) \/ SetterStep(u) \/ RunSetter(u) \/ Expire(u),
             ~Arrive(u)
      PROVE  PhaseInv'
  <2>1. CASE pc'[u] = pc[u]
    BY <1>7, <1>9, <2>1 DEF PhaseInv
  <2>2. CASE pc[u] = "ready" /\ pc'[u] = "arrive"
    <3>1. Begin(u)
      BY <1>9, <2>2 DEF BenchStep, Return, CreateEventual, Spawn, Complete, Wait, SetterStep,
                        Sleep, Set, RunSetter, Expire
    <3> QED
      BY <1>7, <1>8, <1>9, <2>2, <3>1 DEF PhaseInv
  <2>3. CASE /\ pc[u] \in {"loop", "spawn", "wait", "blocked", "woken"}
             /\ pc'[u] \in {"loop", "spawn", "wait", "blocked", "woken", "done"}
    BY <1>7, <1>9, <2>3 DEF PhaseInv
  <2> QED
    BY <1>7, <1>9, <2>1, <2>2, <2>3
<1>10. CASE UNCHANGED vars
  BY <1>10 DEF vars, mainVars, PhaseInv
<1> QED
  BY <1>1, <1>2, <1>3, <1>4, <1>5, <1>6, <1>9, <1>10 DEF Next, MainStep

LEMMA PInvariance == Spec => []PInv
<1>1. PInv /\ [Next]_vars => PInv'
  BY IInvStep, StreamStep, PhaseStep DEF PInv
<1> QED
  BY <1>1, PInit, PTL DEF Spec

(* Main, a bench_thread or a setter can take its next step, or a sleep can *)
(* end.  The loop of a bench_thread never waits; only MaxOps keeps it from *)
(* creating another eventual in the model, until the time is over.         *)
NeverStuck ==
    pc[Main] # "exit" =>
        \/ running = Main /\ pc[Main] # "held"
        \/ running = Idle /\ Runnable(Main)
        \/ \E u \in Ults :
             \/ running = u /\ pc[u] \notin {"none", "held", "blocked", "done"}
             \/ running = SetterOf(u) /\ spc[u] \in {"ready", "awake"}
             \/ running = Idle /\ (Runnable(u) \/ spc[u] # "none")

(***************************************************************************)
(* The two programs never deadlock on their only stream, for any number of *)
(* bench_threads: the barrier is still reached by everyone it waits for,   *)
(* every wait has a setter on its way, and main joins threads that can     *)
(* still return.                                                           *)
(***************************************************************************)
THEOREM SomebodyCanGoOn == Spec => []NeverStuck
<1>1. PInv => NeverStuck
  <2> SUFFICES ASSUME PInv, pc[Main] # "exit" PROVE NeverStuck
    BY DEF NeverStuck
  <2> USE DEF PInv, IInv, TypeOK, StreamInv
  <2>1. CASE running = Idle
    <3>1. pc[Main] \in {"held", "released", "join"}
      BY <2>1, Names DEF PcInv, MainPc
    <3>2. CASE pc[Main] = "released"
      BY <2>1, <3>2 DEF NeverStuck, Runnable
    <3>3. CASE pc[Main] = "held"
      <4>1. PICK u \in Ults : pc[u] \in {"ready", "arrive"}
        BY <3>3 DEF PhaseInv
      <4>2. pc[u] = "ready" /\ u # Main
        BY <2>1, <4>1, Names, Numbers
      <4> QED
        BY <2>1, <4>2 DEF NeverStuck, Runnable
    <3>4. CASE pc[Main] = "join"
      <4>1. i \in Ults /\ i # Main /\ pc[i] \in {"loop", "spawn", "wait", "blocked", "woken", "done"}
        BY <3>4, Numbers DEF PhaseInv
      <4>2. pc[i] \in {"loop", "blocked", "woken", "done"}
        BY <2>1, <4>1, Names
      <4> QED
        BY <2>1, <3>4, <4>1, <4>2 DEF NeverStuck, Runnable
    <3> QED
      BY <3>1, <3>2, <3>3, <3>4
  <2>2. CASE running # Idle
    BY <2>2, Numbers DEF NeverStuck
  <2> QED
    BY <2>1, <2>2
<1> QED
  BY <1>1, PInvariance, PTL

-----------------------------------------------------------------------------
(* The end comes.                                                          *)

(* How far a bench_thread and its setter have come once the duration has   *)
(* passed.  While it is blocked the setter advances in its place.          *)
Order ==
    [none |-> 0, ready |-> 1, arrive |-> 3, held |-> 4, spawn |-> 5, wait |-> 6,
     blocked |-> 7, woken |-> 13, loop |-> 15, done |-> 17]

SetterOrder == [none |-> 0, ready |-> 0, asleep |-> 2, awake |-> 3]

Gain(u) ==
    IF pc[u] = "blocked" THEN SetterOrder[spc[u]] + IF running = SetterOf(u) THEN 1 ELSE 0
      ELSE IF pc[u] \in {"ready", "woken", "loop"} /\ running = u THEN 1 ELSE 0

Stage(u) == Order[pc[u]] + Gain(u)

(* How far main has come: per bench_thread it creates one, and suspends,   *)
(* gets the stream back and adds up.                                       *)
JoinStage == IF running = Main THEN IF pc[i] = "done" THEN 2 ELSE 0 ELSE 1

MainStage ==
    CASE pc[Main] = "create"   -> i
      [] pc[Main] = "start"    -> NumUlts
      [] pc[Main] = "arrive"   -> NumUlts + 1
      [] pc[Main] = "held"     -> NumUlts + 2
      [] pc[Main] = "released" -> NumUlts + 3 + (IF running = Main THEN 1 ELSE 0)
      [] pc[Main] = "join"     -> NumUlts + 5 + 3 * i + JoinStage
      [] pc[Main] = "free"     -> 4 * NumUlts + 5
      [] pc[Main] = "exit"     -> 4 * NumUlts + 6

(* One step ahead: nobody falls back, and somebody advances. *)
Ahead ==
    /\ \A u \in Ults : Stage(u)' >= Stage(u)
    /\ MainStage' >= MainStage
    /\ MainStage' > MainStage \/ \E u \in Ults : Stage(u)' > Stage(u)

(* Once the duration has passed every step brings main nearer to its exit: *)
(* no bench_thread goes round its loop again, and nothing is suspended and *)
(* resumed in a circle.                                                    *)
WindsDown == [][expired => Ahead]_vars

StagesBounded ==
    /\ \A u \in Ults : Stage(u) \in 0..17
    /\ MainStage \in 0..(4 * NumUlts + 6)

LEMMA SetterOrders == \A s \in {"none", "ready", "asleep", "awake"} : SetterOrder[s] \in 0..3
  BY DEF SetterOrder

LEMMA StageBounds == TypeOK /\ PcInv => StagesBounded
<1> SUFFICES ASSUME TypeOK, PcInv PROVE StagesBounded
  OBVIOUS
<1> USE Numbers DEF TypeOK, PcInv
<1>1. ASSUME NEW u \in Ults PROVE Stage(u) \in 0..17
  <2>1. SetterOrder[spc[u]] \in 0..3
    <3>1. spc[u] \in {"none", "ready", "asleep", "awake"}
      OBVIOUS
    <3> QED
      BY <3>1, SetterOrders
  <2>2. IF pc[u] = "blocked" THEN Gain(u) \in 0..4 ELSE Gain(u) \in 0..1
    BY <2>1 DEF Gain
  <2>3. Order[pc[u]] \in 0..17 /\ (pc[u] = "blocked" => Order[pc[u]] = 7)
        /\ (Gain(u) = 1 /\ pc[u] # "blocked" => Order[pc[u]] \in {1, 13, 15})
    BY DEF Order, Gain, UltPc
  <2> QED
    BY <2>2, <2>3 DEF Stage
<1>2. /\ i \in Nat /\ i < NumUlts /\ NumUlts \in Nat
      /\ JoinStage \in 0..2
  BY DEF Ults, JoinStage
<1>3. MainStage \in 0..(4 * NumUlts + 6)
  <2> HIDE DEF JoinStage
  <2> QED
    BY <1>2 DEF MainStage, MainPc
<1> QED
  BY <1>1, <1>3 DEF StagesBounded

LEMMA StageBoundsNext == (TypeOK /\ PcInv)' => StagesBounded'
  BY StageBounds, PTL

(* The stages are numbers, before and after the step. *)
LEMMA StageNumbers ==
    ASSUME TypeOK, PcInv, TypeOK', PcInv'
    PROVE  /\ \A u \in Ults : Stage(u) \in Int /\ Stage(u)' \in Int
           /\ MainStage \in Int /\ MainStage' \in Int
<1>1. 0..17 \subseteq Int /\ 0..(4 * NumUlts + 6) \subseteq Int
  BY Numbers
<1>2. StagesBounded /\ StagesBounded'
  BY StageBounds, StageBoundsNext
<1> QED
  BY <1>1, <1>2 DEF StagesBounded

LEMMA StageKept ==
    ASSUME NEW u \in Ults, pc'[u] = pc[u], spc'[u] = spc[u],
           running' = u <=> running = u, running' = SetterOf(u) <=> running = SetterOf(u)
    PROVE  Stage(u)' = Stage(u)
  BY DEF Stage, Gain

(* Main is not set back by the others. *)
LEMMA MainNotBack ==
    ASSUME TypeOK, PcInv, TypeOK', PcInv', pc'[Main] = pc[Main], i' = i,
           running' = Main <=> running = Main, pc[i] = "done" => pc'[i] = "done"
    PROVE  MainStage' >= MainStage
<1>1. PICK j \in 0..2, k \in 0..2 : JoinStage = j /\ JoinStage' = k /\ j <= k
  BY DEF JoinStage
<1>2. MainStage \in Int /\ i \in Int /\ NumUlts \in Int
  BY StageNumbers, Numbers DEF TypeOK
<1> HIDE DEF JoinStage
<1>3. CASE pc[Main] = "join"
  <2>1. MainStage = NumUlts + 5 + 3 * i + j
    BY <1>1, <1>3 DEF MainStage
  <2>2. MainStage' = NumUlts + 5 + 3 * i + k
    BY <1>1, <1>3 DEF MainStage
  <2> QED
    BY <1>1, <1>2, <2>1, <2>2
<1>4. CASE pc[Main] # "join"
  <2>1. MainStage' = MainStage
    BY <1>4 DEF MainStage, PcInv, MainPc
  <2> QED
    BY <1>2, <2>1
<1> QED
  BY <1>3, <1>4

(* A setter with work left has a bench_thread that is blocked for it,      *)
(* unless that one still has the stream.                                   *)
LEMMA SetterBlocks ==
    ASSUME PInv, NEW u \in Ults, spc[u] # "none", running # u
    PROVE  pc[u] = "blocked"
  BY DEF PInv, IInv, SetterInv, SetterFindsEventual, StreamInv

LEMMA UltAhead ==
    ASSUME PInv, expired, NEW u \in Ults,
           \/ BenchStep(u) /\ ~Arrive(u)
           \/ SetterStep(u) \/ RunSetter(u) \/ Expire(u) \/ Run(u)
    PROVE  Stage(u)' > Stage(u)
<1> USE Numbers, Names DEF PInv, IInv, TypeOK
<1>1. CASE Begin(u)
  BY <1>1 DEF Begin, Stage, Gain, Order
<1>2. CASE Return(u)
  BY <1>2 DEF Return, Stage, Gain, Order
<1>3. CASE Spawn(u)
  BY <1>3 DEF Spawn, Stage, Gain, Order
<1>4. CASE Wait(u)
  <2>1. Stage(u) = 6
    BY <1>4 DEF Wait, Stage, Gain, Order
  <2>2. \/ pc'[u] = "woken" /\ running' = u
        \/ pc'[u] = "blocked" /\ spc'[u] = spc[u] /\ running' = Idle
    BY <1>4 DEF Wait, argVars
  <2>3. CASE pc'[u] = "woken" /\ running' = u
    <3>1. Stage(u)' = 14
      BY <2>3 DEF Stage, Gain, Order
    <3> QED
      BY <2>1, <3>1
  <2>4. CASE pc'[u] = "blocked" /\ spc'[u] = spc[u] /\ running' = Idle
    <3>1. SetterOrder[spc[u]] \in 0..3
      BY DEF SetterOrder
    <3>2. Gain(u)' = SetterOrder[spc[u]] + 0
      BY <2>4 DEF Gain
    <3>3. Order[pc'[u]] = 7
      BY <2>4 DEF Order
    <3>4. Stage(u)' = 7 + SetterOrder[spc[u]]
      BY <3>1, <3>2, <3>3 DEF Stage
    <3> QED
      BY <2>1, <3>1, <3>4
  <2> QED
    BY <2>2, <2>3, <2>4
<1>5. CASE Complete(u)
  BY <1>5 DEF Complete, Stage, Gain, Order
<1>6. CASE Sleep(u)
  <2>1. pc[u] = "blocked"
    BY <1>6, SetterBlocks DEF Sleep
  <2> QED
    BY <1>6, <2>1 DEF Sleep, SetterOrder, Stage, Gain, Order
<1>7. CASE Set(u)
  <2>1. pc[u] = "blocked"
    BY <1>7, SetterBlocks DEF Set
  <2> QED
    BY <1>7, <2>1 DEF Set, SetterOrder, Stage, Gain, Order
<1>8. CASE RunSetter(u)
  <2>1. pc[u] = "blocked"
    BY <1>8, SetterBlocks DEF RunSetter
  <2> QED
    BY <1>8, <2>1 DEF RunSetter, SetterOrder, argVars, Stage, Gain, Order
<1>9. CASE Expire(u)
  <2>1. pc[u] = "blocked"
    BY <1>9, SetterBlocks DEF Expire
  <2> QED
    BY <1>9, <2>1 DEF Expire, SetterOrder, Stage, Gain, Order
<1>10. CASE Run(u)
  BY <1>10 DEF Run, Runnable, argVars, Stage, Gain, Order
<1>11. ~CreateEventual(u)
  BY DEF CreateEventual, Over
<1> QED
  BY <1>1, <1>2, <1>3, <1>4, <1>5, <1>6, <1>7, <1>8, <1>9, <1>10, <1>11
     DEF BenchStep, SetterStep

LEMMA OthersKept ==
    ASSUME PInv, expired, NEW u \in Ults,
           \/ BenchStep(u) /\ ~Arrive(u)
           \/ SetterStep(u) \/ RunSetter(u) \/ Expire(u) \/ Run(u)
    PROVE  /\ \A v \in Ults \ {u} : Stage(v)' = Stage(v)
           /\ pc'[Main] = pc[Main] /\ i' = i
           /\ running' = Main <=> running = Main
           /\ pc[i] = "done" => pc'[i] = "done"
<1> USE Numbers, Names DEF PInv, IInv, TypeOK
<1>1. /\ pc'[Main] = pc[Main] /\ i' = i
      /\ \A v \in Ults \ {u} : pc'[v] = pc[v] /\ spc'[v] = spc[v]
      /\ pc[u] = "done" => pc'[u] = "done"
      /\ running \in {u, SetterOf(u), Idle} /\ running' \in {u, SetterOf(u), Idle}
  <2>1. CASE BenchStep(u) /\ ~Arrive(u)
    BY <2>1 DEF BenchStep, Begin, Return, CreateEventual, Spawn, Complete, Wait, argVars, mainVars
  <2>2. CASE SetterStep(u)
    BY <2>2 DEF SetterStep, Sleep, Set, mainVars
  <2>3. CASE RunSetter(u) \/ Expire(u) \/ Run(u)
    BY <2>3 DEF RunSetter, Expire, Run, argVars, mainVars
  <2> QED
    BY <2>1, <2>2, <2>3
<1>2. ASSUME NEW v \in Ults \ {u} PROVE Stage(v)' = Stage(v)
  BY <1>1, <1>2, StageKept
<1> QED
  BY <1>1, <1>2

(* If a bench_thread's own step takes it further, that is a step ahead.    *)
LEMMA UltStepAhead ==
    ASSUME PInv, PInv', expired, NEW u \in Ults,
           \/ BenchStep(u) /\ ~Arrive(u)
           \/ SetterStep(u) \/ RunSetter(u) \/ Expire(u) \/ Run(u)
    PROVE  Ahead
<1>1. Stage(u)' > Stage(u) /\ \A v \in Ults \ {u} : Stage(v)' = Stage(v)
  BY UltAhead, OthersKept
<1>2. ASSUME NEW v \in Ults PROVE Stage(v)' >= Stage(v)
  <2>1. Stage(v) \in Int /\ Stage(u) \in Int /\ Stage(u)' \in Int
    BY StageNumbers DEF PInv, IInv
  <2>2. CASE v = u
    BY <1>1, <2>1, <2>2
  <2>3. CASE v # u
    <3>1. Stage(v)' = Stage(v)
      BY <1>1, <2>3
    <3> QED
      BY <2>1, <3>1
  <2> QED
    BY <2>2, <2>3
<1>3. MainStage' >= MainStage
  BY OthersKept, MainNotBack DEF PInv, IInv
<1> QED
  BY <1>1, <1>2, <1>3 DEF Ahead

LEMMA ArriveAhead ==
    ASSUME PInv, PInv', NEW t \in Threads, Arrive(t)
    PROVE  Ahead
<1> USE Numbers, Names DEF PInv, IInv, TypeOK
<1>1. pc[t] = "arrive" /\ running = t /\ i' = i /\ spc' = spc
  BY DEF Arrive, argVars, mainVars
<1>2. CASE /\ running' = running
           /\ \A v \in Threads : /\ pc[v] = "held" \/ v = t
                                 /\ pc'[v] = IF v = Main THEN "released" ELSE "loop"
  <2>1. ASSUME NEW u \in Ults PROVE Stage(u)' > Stage(u) /\ Stage(u)' >= Stage(u)
    <3>1. Stage(u) \in {3, 4}
      BY <1>1, <1>2 DEF Stage, Gain, Order
    <3>2. Stage(u)' \in {15, 16}
      BY <1>2 DEF Stage, Gain, Order
    <3> QED
      BY <3>1, <3>2
  <2>2. MainStage \in {NumUlts + 1, NumUlts + 2}
    BY <1>1, <1>2 DEF MainStage
  <2>3. MainStage' \in {NumUlts + 3, NumUlts + 4}
    BY <1>2 DEF MainStage
  <2>4. MainStage' > MainStage /\ MainStage' >= MainStage
    BY <2>2, <2>3
  <2> QED
    BY <2>1, <2>4 DEF Ahead
<1>3. CASE running' = Idle /\ pc' = [pc EXCEPT ![t] = "held"]
  <2>1. ASSUME NEW u \in Ults, u # t PROVE Stage(u)' = Stage(u)
    BY <1>1, <1>3, <2>1, StageKept
  <2>2. CASE t = Main
    <3>1. \A u \in Ults : Stage(u)' >= Stage(u)
      BY <2>1, <2>2, StageNumbers
    <3>2. MainStage = NumUlts + 1 /\ MainStage' = NumUlts + 2
      BY <1>1, <1>3, <2>2 DEF MainStage
    <3>3. MainStage' > MainStage /\ MainStage' >= MainStage
      BY <3>2
    <3> QED
      BY <3>1, <3>3 DEF Ahead
  <2>3. CASE t \in Ults
    <3>1. Stage(t) = 3 /\ Stage(t)' = 4
      BY <1>1, <1>3, <2>3 DEF Stage, Gain, Order
    <3>2. Stage(t)' > Stage(t)
      BY <3>1
    <3>3. ASSUME NEW u \in Ults PROVE Stage(u)' >= Stage(u)
      <4>1. CASE u = t
        BY <3>1, <4>1
      <4>2. CASE u # t
        <5>1. Stage(u)' = Stage(u) /\ Stage(u) \in Int
          BY <2>1, <4>2, StageNumbers
        <5> QED
          BY <5>1
      <4> QED
        BY <4>1, <4>2
    <3>4. MainStage' >= MainStage
      <4>1. pc'[Main] = pc[Main] /\ (running' = Main <=> running = Main)
        BY <1>1, <1>3, <2>3
      <4>2. pc[i] = "done" => pc'[i] = "done"
        BY <1>1, <1>3
      <4> QED
        BY <1>1, <4>1, <4>2, MainNotBack
    <3> QED
      BY <2>3, <3>2, <3>3, <3>4 DEF Ahead
  <2> QED
    BY <2>2, <2>3
<1> QED
  BY <1>2, <1>3, ArriveOpens

LEMMA MainAhead ==
    ASSUME PInv, PInv',
           \/ Create \/ Start \/ GoOn \/ JoinWait \/ Join \/ Free
           \/ Run(Main)
    PROVE  Ahead
<1> USE Numbers, Names DEF PInv, IInv, TypeOK
<1>1. i \in Nat /\ i < NumUlts /\ i \in Ults /\ NumUlts \in Nat /\ i + 1 <= NumUlts
  BY DEF Ults
<1>2. ASSUME MainStage' > MainStage, \A u \in Ults : Stage(u)' = Stage(u)
      PROVE  Ahead
  <2>1. MainStage' >= MainStage /\ \A u \in Ults : Stage(u)' >= Stage(u)
    BY <1>2, StageNumbers
  <2> QED
    BY <1>2, <2>1 DEF Ahead
<1>3. ASSUME ~Create PROVE \A u \in Ults : Stage(u)' = Stage(u)
  <2>1. ASSUME NEW u \in Ults
        PROVE  /\ pc'[u] = pc[u] /\ spc'[u] = spc[u]
               /\ running' = u <=> running = u
               /\ running' = SetterOf(u) <=> running = SetterOf(u)
    BY <1>3 DEF Start, GoOn, JoinWait, Join, JoinNoWait, Free, Run, argVars
  <2> QED
    BY <2>1, StageKept
<1>4. CASE Create
  <2>1. PICK w \in Ults : w = i
    BY <1>1
  <2>2. /\ pc[w] = "none" /\ pc'[w] = "ready" /\ running = Main /\ running' = running /\ spc' = spc
        /\ \A u \in Ults \ {w} : pc'[u] = pc[u]
    BY <1>4, <2>1 DEF Create, MainInv, argVars
  <2>3. Stage(w) = 0 /\ Stage(w)' = 1
    BY <2>2 DEF Stage, Gain, Order
  <2>4. ASSUME NEW u \in Ults PROVE Stage(u)' >= Stage(u)
    <3>1. CASE u = w
      BY <2>3, <3>1
    <3>2. CASE u # w
      <4>1. Stage(u)' = Stage(u) /\ Stage(u) \in Int
        BY <2>2, <3>2, StageKept, StageNumbers
      <4> QED
        BY <4>1
    <3> QED
      BY <3>1, <3>2
  <2>5. MainStage = i
    BY <1>4 DEF Create, MainStage
  <2>6. \/ pc'[Main] = "create" /\ i' = i + 1
        \/ pc'[Main] = "start"
    BY <1>4 DEF Create
  <2>7. MainStage' \in {i + 1, NumUlts}
    BY <2>6 DEF MainStage
  <2>8. MainStage' > MainStage /\ MainStage' >= MainStage
    BY <1>1, <2>5, <2>7
  <2> QED
    BY <2>4, <2>8 DEF Ahead
<1>5. CASE ~Create
  <2>1. CASE Start
    <3>1. MainStage = NumUlts /\ MainStage' = NumUlts + 1
      BY <2>1 DEF Start, MainStage
    <3>2. MainStage' > MainStage
      BY <3>1
    <3> QED
      BY <1>2, <1>3, <1>5, <3>2
  <2>2. CASE GoOn
    <3>1. MainStage = NumUlts + 3 + 1 /\ pc'[Main] = "join" /\ i' = i
      BY <2>2 DEF GoOn, MainStage, mainVars
    <3>2. PICK j \in 0..2 : JoinStage' = j
      BY DEF JoinStage
    <3>3. MainStage' = NumUlts + 5 + 3 * i + j
      BY <3>1, <3>2 DEF MainStage
    <3>4. MainStage' > MainStage
      BY <1>1, <3>1, <3>3
    <3> QED
      BY <1>2, <1>3, <1>5, <3>4
  <2>3. CASE JoinWait
    <3>1. /\ JoinStage = 0 /\ JoinStage' = 1 /\ i' = i
          /\ pc[Main] = "join" /\ pc'[Main] = "join"
      BY <2>3 DEF JoinWait, JoinStage, mainVars
    <3>2. MainStage = NumUlts + 5 + 3 * i + 0 /\ MainStage' = NumUlts + 5 + 3 * i + 1
      BY <3>1 DEF MainStage
    <3>3. MainStage' > MainStage
      BY <1>1, <3>2
    <3> QED
      BY <1>2, <1>3, <1>5, <3>3
  <2>4. CASE Join
    <3>1. JoinStage = 2 /\ pc[Main] = "join" /\ running' = Main /\ running = Main
      BY <2>4 DEF Join, JoinNoWait, JoinStage
    <3>2. MainStage = NumUlts + 5 + 3 * i + 2
      BY <3>1 DEF MainStage
    <3>3. CASE i + 1 < NumUlts
      <4>1. pc'[Main] = "join" /\ i' = i + 1
        BY <2>4, <3>1, <3>3 DEF Join, JoinNoWait
      <4>2. PICK j \in 0..2 : JoinStage' = j
        BY DEF JoinStage
      <4>3. MainStage' = NumUlts + 5 + 3 * (i + 1) + j
        BY <4>1, <4>2 DEF MainStage
      <4>4. MainStage' > MainStage
        BY <1>1, <3>2, <4>3
      <4> QED
        BY <1>2, <1>3, <1>5, <4>4
    <3>4. CASE ~(i + 1 < NumUlts)
      <4>1. pc'[Main] = "free"
        BY <2>4, <3>1, <3>4 DEF Join, JoinNoWait
      <4>2. MainStage' = 4 * NumUlts + 5
        BY <4>1 DEF MainStage
      <4>3. MainStage' > MainStage
        BY <1>1, <3>2, <3>4, <4>2
      <4> QED
        BY <1>2, <1>3, <1>5, <4>3
    <3> QED
      BY <3>3, <3>4
  <2>5. CASE Free
    <3>1. MainStage = 4 * NumUlts + 5 /\ MainStage' = 4 * NumUlts + 6
      BY <2>5 DEF Free, MainStage
    <3>2. MainStage' > MainStage
      BY <1>1, <3>1
    <3> QED
      BY <1>2, <1>3, <1>5, <3>2
  <2>6. CASE Run(Main)
    <3>1. /\ running = Idle /\ running' = Main /\ pc' = pc /\ i' = i
          /\ pc[Main] = "released" \/ (pc[Main] = "join" /\ pc[i] = "done")
      BY <2>6 DEF Run, Runnable, mainVars
    <3>2. CASE pc[Main] = "released"
      <4>1. MainStage = NumUlts + 3 + 0 /\ MainStage' = NumUlts + 3 + 1
        BY <3>1, <3>2 DEF MainStage
      <4>2. MainStage' > MainStage
        BY <1>1, <4>1
      <4> QED
        BY <1>2, <1>3, <1>5, <4>2
    <3>3. CASE pc[Main] = "join" /\ pc[i] = "done"
      <4>1. JoinStage = 1 /\ JoinStage' = 2
        BY <3>1, <3>3 DEF JoinStage
      <4>2. MainStage = NumUlts + 5 + 3 * i + 1 /\ MainStage' = NumUlts + 5 + 3 * i + 2
        BY <3>1, <3>3, <4>1 DEF MainStage
      <4>3. MainStage' > MainStage
        BY <1>1, <4>2
      <4> QED
        BY <1>2, <1>3, <1>5, <4>3
    <3> QED
      BY <3>1, <3>2, <3>3
  <2> QED
    BY <1>5, <2>1, <2>2, <2>3, <2>4, <2>5, <2>6
<1> QED
  BY <1>4, <1>5

(***************************************************************************)
(* The two programs wind down.  With SomebodyCanGoOn it follows that main  *)
(* exits: all that is left to fairness is that the duration passes and     *)
(* that some step is taken while one can be.                               *)
(***************************************************************************)
THEOREM ProgramWindsDown == Spec => WindsDown
<1>1. PInv /\ PInv' /\ [Next]_vars => [expired => Ahead]_vars
  <2> SUFFICES ASSUME PInv, PInv', Next, expired PROVE Ahead
    OBVIOUS
  <2>1. ~Clock
    BY DEF Clock
  <2>2. CASE MainStep
    BY <2>2, ArriveAhead, MainAhead, Numbers DEF MainStep
  <2>3. ASSUME NEW t \in Threads, Run(t) PROVE Ahead
    <3>1. CASE t = Main
      BY <2>3, <3>1, MainAhead
    <3>2. CASE t \in Ults
      BY <2>3, <3>2, UltStepAhead
    <3> QED
      BY <3>1, <3>2, Numbers
  <2>4. ASSUME NEW u \in Ults, BenchStep(u) \/ RunSetter(u) \/ Expire(u) \/ SetterStep(u)
        PROVE  Ahead
    <3>1. CASE Arrive(u)
      BY <3>1, ArriveAhead, Numbers
    <3>2. CASE ~Arrive(u)
      BY <2>4, <3>2, UltStepAhead
    <3> QED
      BY <3>1, <3>2
  <2> QED
    BY <2>1, <2>2, <2>3, <2>4 DEF Next
<1> QED
  BY <1>1, PInvariance, PTL DEF Spec, WindsDown

=============================================================================
