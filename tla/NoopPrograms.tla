---------------------------- MODULE NoopPrograms ----------------------------
(***************************************************************************)
(* The three programs around NoopService with what each adds to it:        *)
(* margo-p2p-latency measures its calls and prints their statistics,       *)
(* margo-plus-non-margo runs the threads of MercuryHalf in the same two    *)
(* processes, and margo-calls-from-pthreads adds nothing.                  *)
(***************************************************************************)
EXTENDS NoopService, MercuryHalf, LatencyStats

CONSTANT
    Latencies   \* the values of tm2 - tm1

ASSUME LatenciesAssumption == Latencies \subseteq Nat

VARIABLES
    measured,   \* measurement_array, as far as it is written
    count,      \* how far that is
    finalized   \* the sides whose main went on to margo_finalize

ownVars == <<measured, count, finalized>>
programVars == <<vars, nmVars, ownVars>>

Measurements == Iters - Warmup

-----------------------------------------------------------------------------
(* margo-p2p-latency *)

(* Calls of the second loop are timed, those of the warm-up are not. *)
Measure(c) ==
    IF program = "latency" /\ left[c] <= Measurements
      THEN /\ \E m \in Latencies :
                measured' = [measured EXCEPT ![Measurements - left[c]] = m]
           /\ count' = count + 1
      ELSE UNCHANGED <<measured, count>>

TimedReceive(c) ==
    /\ Receive(c)
    /\ Measure(c)
    /\ UNCHANGED <<nmVars, finalized>>

-----------------------------------------------------------------------------
(* margo-plus-non-margo *)

(* The client's main creates its Mercury thread before its first call. *)
StartClient ==
    /\ program = "mixed"
    /\ StartThread("client")
    /\ UNCHANGED <<vars, ownVars>>

Call(c) ==
    /\ program = "mixed" => thread["client"] # "none"
    /\ Forward(c)
    /\ UNCHANGED <<nmVars, ownVars>>

(* The server's main creates the eventual, then the thread, and blocks     *)
(* after that.                                                             *)
CreateAndStart ==
    /\ CreateEventual
    /\ IF program = "mixed" THEN StartThread("server") ELSE UNCHANGED nmVars
    /\ UNCHANGED ownVars

(* A forward of the Mercury half that failed takes the client's main and   *)
(* its margo calls with it.                                                *)
ClientAborts ==
    /\ CallbackFails
    /\ \E c \in Callers : Abort(c)
    /\ UNCHANGED ownVars

FinalizeUnjoined(s) ==
    /\ program = "mixed"
    /\ s \notin finalized
    /\ IF s = "client" THEN \A c \in Callers : cpc[c] = "done" ELSE mpc = "leave"
    /\ finalized' = finalized \cup {s}
    /\ UNCHANGED <<vars, nmVars, measured, count>>

(* Main has made its calls, or was woken; it joins the Mercury thread and  *)
(* then finalizes margo, whose class the thread's context belongs to.      *)
Finalize(s) ==
    /\ thread[s] = "done"
    /\ FinalizeUnjoined(s)

-----------------------------------------------------------------------------
ProgramInit ==
    /\ Init
    /\ NmInit
    /\ measured = [k \in Indexes(Measurements) |-> 0]
    /\ count = 0
    /\ finalized = {}

ServiceStep ==
    \/ CreateAndStart
    \/ Wake /\ UNCHANGED <<nmVars, ownVars>>
    \/ Count /\ UNCHANGED <<nmVars, ownVars>>

HandlerStep(c) == Respond(c) /\ UNCHANGED <<nmVars, ownVars>>

TimeOut(c) == GiveUp(c) /\ UNCHANGED <<nmVars, ownVars>>

MercuryThread(s) == ThreadStep(s) /\ UNCHANGED <<vars, ownVars>>

MercuryLoop(s) == LoopStep(s) /\ UNCHANGED <<vars, ownVars>>

MercuryNetwork == (Deliver \/ Lose \/ SpuriousWakeup) /\ UNCHANGED <<vars, ownVars>>

ProgramNext ==
    \/ ServiceStep \/ StartClient \/ MercuryNetwork \/ ClientAborts
    \/ \E c \in Clients : HandlerStep(c) \/ Call(c) \/ TimedReceive(c) \/ TimeOut(c)
    \/ \E s \in Sides : MercuryThread(s) \/ MercuryLoop(s) \/ Finalize(s)

(* Threads run and the network delivers what it can; the callback of a     *)
(* failed forward is run like any other.  No time limit has to pass,       *)
(* nothing has to get lost and no wakeup is spurious.                      *)
ProgramFairness ==
    /\ WF_programVars(CreateAndStart)
    /\ WF_programVars(Wake /\ UNCHANGED <<nmVars, ownVars>>)
    /\ WF_programVars(Count /\ UNCHANGED <<nmVars, ownVars>>)
    /\ WF_programVars(StartClient)
    /\ WF_programVars(Deliver /\ UNCHANGED <<vars, ownVars>>)
    /\ WF_programVars(ClientAborts)
    /\ \A c \in Clients : /\ WF_programVars(HandlerStep(c))
                          /\ WF_programVars(Call(c))
                          /\ WF_programVars(TimedReceive(c))
    /\ \A s \in Sides : /\ WF_programVars(MercuryThread(s))
                        /\ WF_programVars(MercuryLoop(s))
                        /\ WF_programVars(Finalize(s))

ProgramSpec == ProgramInit /\ [][ProgramNext]_programVars

FairProgramSpec == ProgramSpec /\ ProgramFairness

-----------------------------------------------------------------------------
ProgramTypeOK ==
    /\ TypeOK
    /\ NmTypeOK
    /\ measured \in [Indexes(Measurements) -> Latencies \cup {0}]
    /\ count \in 0..Measurements
    /\ finalized \subseteq Sides

(***************************************************************************)
(* A context is destroyed only when the progress thread that uses it has   *)
(* ended, and margo, whose class the context lives in, is finalized only   *)
(* after that.                                                             *)
(***************************************************************************)
TornDownInOrder ==
    \A s \in Sides :
        /\ context[s] = "destroyed" => loop[s] = "ended"
        /\ s \in finalized => context[s] = "destroyed"

(***************************************************************************)
(* The header prints "<min> <q1> <med> <avg> <q3> <max>"; from four        *)
(* measurements on the values are in that order (without the mean).  With  *)
(* two or three they need not be, and with one the second bracket is       *)
(* behind the array.                                                       *)
(***************************************************************************)
StatisticsOrdered ==
    program = "latency" /\ (\A c \in Callers : cpc[c] = "done") =>
        /\ count = Measurements
        /\ \A k \in Indexes(Measurements) : measured[k] \in Latencies
        /\ Measurements >= 4 =>
             /\ Brackets(Measurements) \subseteq Indexes(Measurements)
             /\ Ordered(Sort(measured, Measurements), Measurements)

(* Both sides are through, but for a client one of whose forwards was      *)
(* never answered or was the end of it.                                    *)
BothThrough ==
    /\ "server" \in finalized
    /\ "client" \in finalized \/ forward \in {"sent", "arrived", "lost", "aborted"}

(* The client was ended before its last margo call, and the server has     *)
(* nothing left to do but wait for the rest.                               *)
ServerForsaken ==
    /\ forward = "aborted"
    /\ thread["server"] = "done"
    /\ mpc = "wait" /\ arrived = {} /\ suspended = 0 /\ serviced < Total

(***************************************************************************)
(* The server of margo-plus-non-margo ends whether or not the Mercury      *)
(* client was served, and so does the client unless one of its forwards    *)
(* was never answered.  Only an error in the Mercury half that ended the   *)
(* client before its last margo call makes the server wait for ever.       *)
(***************************************************************************)
MixedEnds == program = "mixed" ~> BothThrough \/ ServerForsaken
=============================================================================
