---------------------------- MODULE EventualBench ---------------------------
(***************************************************************************)
(* abt-eventual-bench.c and abt-future-bench.c.  Main starts num_ults      *)
(* bench_threads and releases them through a barrier.  Until the time is   *)
(* over each creates an eventual, starts a detached thread that sleeps and *)
(* sets it, waits for it and frees it.  The two programs differ only in    *)
(* the type of what is set: an eventual, or a future of one compartment.   *)
(*                                                                         *)
(* margo_init(.., 0, 0) starts no stream, so everything runs on the        *)
(* primary ES: `running' has it until it blocks or returns.                *)
(***************************************************************************)
EXTENDS Integers, FiniteSets

CONSTANTS
    NumUlts,    \* -n
    MaxOps      \* bound: iterations of one bench_thread

ASSUME EventualBenchAssumption ==
    /\ NumUlts \in Nat \ {0}
    /\ MaxOps \in Nat

VARIABLES
    running,    \* the ULT on the primary ES
    pc,         \* where main and each bench_thread is
    i,          \* main's loop index
    spc,        \* where the ev_thread of each bench_thread is
    eventual,   \* arg->eventual: "none" (not created or freed), "unset" or "set"
    started,    \* g_start_tm was taken
    expired,    \* the test duration has passed since
    completed,  \* arg->completed_ops
    total,      \* total_ops
    freed,      \* barrier and arg_array were freed
    sets        \* history: how often an ev_thread set an eventual

argVars  == <<spc, eventual, completed, sets>>
mainVars == <<i, total, freed, started>>
vars == <<running, pc, argVars, mainVars, expired>>

Ults == 0..(NumUlts - 1)
Main == -1
Idle == -2
Threads == Ults \cup {Main}
SetterOf(u) == NumUlts + u

BarrierForUlts == NumUlts

(* How many threads the barrier waits for. *)
BarrierCount == NumUlts + 1

Held == {t \in Threads : pc[t] = "held"}

(* Without a start time the difference to the clock is longer than any     *)
(* duration.                                                               *)
Over == ~started \/ expired

-----------------------------------------------------------------------------
(* The primary ES and the clock *)

Runnable(t) ==
    IF t = Main THEN pc[Main] = "released" \/ (pc[Main] = "join" /\ pc[i] = "done")
                ELSE pc[t] \in {"ready", "loop", "woken"}

Run(t) ==
    /\ running = Idle
    /\ Runnable(t)
    /\ running' = t
    /\ UNCHANGED <<pc, argVars, mainVars, expired>>

RunSetter(u) ==
    /\ running = Idle
    /\ spc[u] \in {"ready", "awake"}
    /\ running' = SetterOf(u)
    /\ UNCHANGED <<pc, argVars, mainVars, expired>>

(* The progress loop, a ULT like the others, ends the sleep of a setter. *)
Expire(u) ==
    /\ running = Idle
    /\ spc[u] = "asleep"
    /\ spc' = [spc EXCEPT ![u] = "awake"]
    /\ UNCHANGED <<running, pc, eventual, completed, sets, mainVars, expired>>

Clock ==
    /\ started
    /\ ~expired
    /\ expired' = TRUE
    /\ UNCHANGED <<running, pc, argVars, mainVars>>

(* The last to arrive lets everyone go on and itself does not block. *)
Arrive(t) ==
    /\ running = t
    /\ pc[t] = "arrive"
    /\ IF Cardinality(Held) + 1 = BarrierCount
         THEN /\ pc' = [v \in Threads |->
                          IF v \in Held \cup {t}
                            THEN IF v = Main THEN "released" ELSE "loop"
                            ELSE pc[v]]
              /\ UNCHANGED running
         ELSE pc' = [pc EXCEPT ![t] = "held"] /\ running' = Idle
    /\ UNCHANGED <<argVars, mainVars, expired>>

-----------------------------------------------------------------------------
(* main *)

CreateOneMore ==
    /\ running = Main /\ pc[Main] = "create"
    /\ pc' = [pc EXCEPT ![i] = "ready", ![Main] = IF i < NumUlts THEN "create" ELSE "start"]
    /\ i' = IF i < NumUlts THEN i + 1 ELSE 0
    /\ UNCHANGED <<running, argVars, total, freed, started, expired>>

Create ==
    /\ running = Main /\ pc[Main] = "create"
    /\ pc' = [pc EXCEPT ![i] = "ready",
                        ![Main] = IF i + 1 < NumUlts THEN "create" ELSE "start"]
    /\ i' = IF i + 1 < NumUlts THEN i + 1 ELSE 0
    /\ UNCHANGED <<running, argVars, total, freed, started, expired>>

StartUntimed ==
    /\ running = Main /\ pc[Main] = "start"
    /\ pc' = [pc EXCEPT ![Main] = "arrive"]
    /\ UNCHANGED <<running, argVars, mainVars, expired>>

Start ==
    /\ running = Main /\ pc[Main] = "start"
    /\ started' = TRUE
    /\ pc' = [pc EXCEPT ![Main] = "arrive"]
    /\ UNCHANGED <<running, argVars, i, total, freed, expired>>

GoOn ==
    /\ running = Main /\ pc[Main] = "released"
    /\ pc' = [pc EXCEPT ![Main] = "join"]
    /\ UNCHANGED <<running, argVars, mainVars, expired>>

(* ABT_thread_join on a thread that has not returned blocks main. *)
JoinWait ==
    /\ running = Main /\ pc[Main] = "join"
    /\ pc[i] # "done"
    /\ running' = Idle
    /\ UNCHANGED <<pc, argVars, mainVars, expired>>

JoinNoWait ==
    /\ running = Main /\ pc[Main] = "join"
    /\ total' = total + completed[i]
    /\ IF i + 1 < NumUlts THEN i' = i + 1 /\ UNCHANGED pc
                          ELSE pc' = [pc EXCEPT ![Main] = "free"] /\ UNCHANGED i
    /\ UNCHANGED <<running, argVars, freed, started, expired>>

Join == pc[i] = "done" /\ JoinNoWait

(* The rate is printed, barrier and arguments are freed, and margo ends.   *)
Free ==
    /\ running = Main /\ pc[Main] = "free"
    /\ freed' = TRUE
    /\ pc' = [pc EXCEPT ![Main] = "exit"]
    /\ running' = Idle
    /\ UNCHANGED <<argVars, i, total, started, expired>>

MainStep ==
    \/ Create \/ Start \/ Arrive(Main) \/ GoOn \/ JoinWait \/ Join \/ Free

-----------------------------------------------------------------------------
(* bench_thread *)

Begin(u) ==
    /\ running = u /\ pc[u] = "ready"
    /\ completed' = [completed EXCEPT ![u] = 0]
    /\ pc' = [pc EXCEPT ![u] = "arrive"]
    /\ UNCHANGED <<running, spc, eventual, sets, mainVars, expired>>

Return(u) ==
    /\ running = u /\ pc[u] = "loop"
    /\ Over
    /\ pc' = [pc EXCEPT ![u] = "done"]
    /\ running' = Idle
    /\ UNCHANGED <<argVars, mainVars, expired>>

CreateEventual(u) ==
    /\ running = u /\ pc[u] = "loop"
    /\ ~Over
    /\ completed[u] < MaxOps
    /\ eventual' = [eventual EXCEPT ![u] = "unset"]
    /\ pc' = [pc EXCEPT ![u] = "spawn"]
    /\ UNCHANGED <<running, spc, completed, sets, mainVars, expired>>

Spawn(u) ==
    /\ running = u /\ pc[u] = "spawn"
    /\ spc' = [spc EXCEPT ![u] = "ready"]
    /\ pc' = [pc EXCEPT ![u] = "wait"]
    /\ UNCHANGED <<running, eventual, completed, sets, mainVars, expired>>

WaitNot(u) ==
    /\ running = u /\ pc[u] = "wait"
    /\ pc' = [pc EXCEPT ![u] = "woken"]
    /\ running' = Idle
    /\ UNCHANGED <<argVars, mainVars, expired>>

(* ABT_eventual_wait returns at once if the eventual is set already. *)
Wait(u) ==
    /\ running = u /\ pc[u] = "wait"
    /\ IF eventual[u] = "set" THEN pc' = [pc EXCEPT ![u] = "woken"] /\ UNCHANGED running
                              ELSE pc' = [pc EXCEPT ![u] = "blocked"] /\ running' = Idle
    /\ UNCHANGED <<argVars, mainVars, expired>>

CompleteInTime(u) ==
    /\ running = u /\ pc[u] = "woken"
    /\ eventual' = [eventual EXCEPT ![u] = "none"]
    /\ completed' = [completed EXCEPT ![u] = IF Over THEN @ ELSE @ + 1]
    /\ pc' = [pc EXCEPT ![u] = "loop"]
    /\ UNCHANGED <<running, spc, sets, mainVars, expired>>

(* The eventual is freed and the operation counted. *)
Complete(u) ==
    /\ running = u /\ pc[u] = "woken"
    /\ eventual' = [eventual EXCEPT ![u] = "none"]
    /\ completed' = [completed EXCEPT ![u] = @ + 1]
    /\ pc' = [pc EXCEPT ![u] = "loop"]
    /\ UNCHANGED <<running, spc, sets, mainVars, expired>>

BenchStep(u) ==
    \/ Begin(u) \/ Arrive(u) \/ Return(u) \/ CreateEventual(u)
    \/ Spawn(u) \/ Wait(u) \/ Complete(u)

-----------------------------------------------------------------------------
(* ev_thread *)

Sleep(u) ==
    /\ running = SetterOf(u) /\ spc[u] = "ready"
    /\ spc' = [spc EXCEPT ![u] = "asleep"]
    /\ running' = Idle
    /\ UNCHANGED <<pc, eventual, completed, sets, mainVars, expired>>

(* It sets whatever arg->eventual is by now.  A handle that is none is     *)
(* refused, and nobody looks at the result.                                *)
Set(u) ==
    /\ running = SetterOf(u) /\ spc[u] = "awake"
    /\ IF eventual[u] = "none" THEN UNCHANGED <<eventual, sets>>
         ELSE eventual' = [eventual EXCEPT ![u] = "set"] /\ sets' = sets + 1
    /\ pc' = [pc EXCEPT ![u] = IF @ = "blocked" THEN "woken" ELSE @]
    /\ spc' = [spc EXCEPT ![u] = "none"]
    /\ running' = Idle
    /\ UNCHANGED <<completed, mainVars, expired>>

SetterStep(u) == Sleep(u) \/ Set(u)

-----------------------------------------------------------------------------
Init ==
    /\ running = Main
    /\ pc = [t \in Threads |-> IF t = Main THEN "create" ELSE "none"]
    /\ i = 0
    /\ spc = [u \in Ults |-> "none"]
    /\ eventual = [u \in Ults |-> "none"]
    /\ started = FALSE
    /\ expired = FALSE
    /\ completed = [u \in Ults |-> 0]
    /\ total = 0
    /\ freed = FALSE
    /\ sets = 0

Next ==
    \/ Clock
    \/ MainStep
    \/ \E t \in Threads : Run(t)
    \/ \E u \in Ults : BenchStep(u) \/ RunSetter(u) \/ Expire(u) \/ SetterStep(u)

(* Time passes, sleeps end, the running ULT runs, and a ULT that stays     *)
(* runnable while the ES stays idle gets it.                               *)
Fairness ==
    /\ WF_vars(Clock)
    /\ WF_vars(MainStep)
    /\ \A t \in Threads : WF_vars(Run(t))
    /\ \A u \in Ults : /\ WF_vars(BenchStep(u))
                       /\ WF_vars(RunSetter(u))
                       /\ WF_vars(Expire(u))
                       /\ WF_vars(SetterStep(u))

Spec == Init /\ [][Next]_vars

FairSpec == Spec /\ Fairness

-----------------------------------------------------------------------------
UltPc == {"none", "ready", "arrive", "held", "loop", "spawn", "wait", "blocked",
          "woken", "done"}
MainPc == {"create", "start", "arrive", "held", "released", "join", "free", "exit"}

TypeOK ==
    /\ running \in Threads \cup {Idle} \cup {SetterOf(u) : u \in Ults}
    /\ pc \in [Threads -> UltPc \cup MainPc]
    /\ i \in Ults
    /\ spc \in [Ults -> {"none", "ready", "asleep", "awake"}]
    /\ eventual \in [Ults -> {"none", "unset", "set"}]
    /\ started \in BOOLEAN
    /\ expired \in BOOLEAN
    /\ completed \in [Ults -> Nat]
    /\ total \in Nat
    /\ freed \in BOOLEAN
    /\ sets \in Nat

(***************************************************************************)
(* "set global start time and release barrier for threads to work": no     *)
(* bench_thread looks at the clock before main has taken the start time;   *)
(* it would see the time as over and do nothing.                           *)
(***************************************************************************)
StartTimeTaken ==
    \A u \in Ults : pc[u] \in {"loop", "spawn", "wait", "blocked", "woken"} => started

(***************************************************************************)
(* The detached ev_thread reads arg->eventual when its sleep is over.      *)
(* Until it has done so its bench_thread waits, so it finds the eventual   *)
(* it was started for, neither freed nor set.                              *)
(***************************************************************************)
SetterFindsEventual ==
    \A u \in Ults :
        spc[u] # "none" => eventual[u] = "unset" /\ pc[u] \in {"wait", "blocked"}

(***************************************************************************)
(* Nobody joins the ev_threads.  All the same none is left, and no         *)
(* bench_thread is inside the barrier, when main frees barrier and         *)
(* arguments.                                                              *)
(***************************************************************************)
NothingOutlivesArguments ==
    freed => \A u \in Ults : spc[u] = "none" /\ pc[u] = "done"

(***************************************************************************)
(* The rate main prints counts every set exactly once, the ones that came  *)
(* after the duration had passed included.                                 *)
(***************************************************************************)
EverySetCounted == pc[Main] = "exit" => total = sets

(***************************************************************************)
(* The barrier opens, every bench_thread returns and main ends.            *)
(***************************************************************************)
Termination == <>(pc[Main] = "exit")
=============================================================================
