----------------------------- MODULE NoopService ----------------------------
(***************************************************************************)
(* The servers of margo-p2p-latency, margo-plus-non-margo (its margo half) *)
(* and margo-calls-from-pthreads: each counts the no-op RPCs it serviced   *)
(* and leaves when the expected number is reached.  The handler that gets  *)
(* there wakes main through an ABT_eventual.                               *)
(*                                                                         *)
(* The programs differ in where handlers run.  In the first two they are   *)
(* ULTs of the primary ES, like main, and run only where main blocks.  In  *)
(* the third, margo_init(.., 1, -1), they run on margo's progress thread,  *)
(* one at a time but in parallel with main.  All three create the eventual *)
(* after the broadcast that lets the clients start.                        *)
(***************************************************************************)
EXTENDS Integers, FiniteSets

CONSTANTS
    Clients,    \* the NTHREADS pthreads; the other programs have one client
    Iters,      \* RPCs of each: iterations + warmup_iterations, or ITERS
    Warmup      \* how many of them margo-p2p-latency does not measure

ASSUME NoopAssumption ==
    /\ IsFiniteSet(Clients)
    /\ Clients # {}
    /\ Iters \in Nat \ {0}
    /\ Warmup \in 0..(Iters - 1)

VARIABLES
    program,    \* which of the three runs (never changes)
    timed,      \* -T of margo-p2p-latency (never changes)
    mpc,        \* where the server's main is
    eventual,   \* rpcs_serviced_eventual: "null", "unset" or "set"
    arrived,    \* clients whose request waits for its handler to begin
    suspended,  \* handlers inside margo_respond
    serviced,   \* rpcs_serviced
    answers,    \* clients whose response is on its way
    cpc,        \* where each client is
    left        \* calls each client has still to make

serverVars == <<mpc, eventual, suspended, serviced>>
clientVars == <<cpc, left>>
options == <<program, timed>>
vars == <<options, serverVars, arrived, answers, clientVars>>

Programs == {"latency", "mixed", "pthreads"}

(* The threads that issue RPCs. *)
Callers == IF program = "pthreads" THEN Clients ELSE {CHOOSE c \in Clients : TRUE}

Total == Cardinality(Callers) * Iters

(* Handlers share the primary ES with main. *)
primary == program # "pthreads"

HandlersAlwaysRun == TRUE

(* Handlers run: on their own ES always, on main's when main blocks. *)
HandlersRun == primary => mpc # "setup"

-----------------------------------------------------------------------------
(* The server's main, from the broadcast on *)

CreateEventual ==
    /\ mpc = "setup"
    /\ eventual' = "unset"
    /\ mpc' = "wait"
    /\ UNCHANGED <<options, suspended, serviced, arrived, answers, clientVars>>

Wake ==
    /\ mpc = "wait"
    /\ eventual = "set"
    /\ mpc' = "leave"
    /\ UNCHANGED <<options, eventual, suspended, serviced, arrived, answers, clientVars>>

-----------------------------------------------------------------------------
(* noop_ult *)

(* The handler answers; margo_respond suspends it until the send is done.  *)
Respond(c) ==
    /\ c \in arrived
    /\ HandlersRun
    /\ arrived' = arrived \ {c}
    /\ answers' = answers \cup {c}
    /\ suspended' = suspended + 1
    /\ UNCHANGED <<options, mpc, eventual, serviced, clientVars>>

SignalWithoutWarmup ==
    eventual' = IF serviced' = Total - 1 /\ eventual # "null" THEN "set" ELSE eventual

(* ABT_eventual_set on a handle that is still null returns an error that   *)
(* nobody looks at.                                                        *)
Signal ==
    eventual' = IF serviced' = Total /\ eventual # "null" THEN "set" ELSE eventual

(* It resumes, counts itself and, if it is the last one, signals main.     *)
Count ==
    /\ suspended > 0
    /\ HandlersRun
    /\ suspended' = suspended - 1
    /\ serviced' = serviced + 1
    /\ Signal
    /\ UNCHANGED <<options, mpc, arrived, answers, clientVars>>

-----------------------------------------------------------------------------
(* run_benchmark, pthread_client_fn: one blocking call after the other *)

Forward(c) ==
    /\ cpc[c] = "call"
    /\ arrived' = arrived \cup {c}
    /\ cpc' = [cpc EXCEPT ![c] = "await"]
    /\ UNCHANGED <<options, serverVars, answers, left>>

ReceiveOneMore(c) ==
    /\ c \in answers
    /\ cpc[c] = "await"
    /\ answers' = answers \ {c}
    /\ left' = [left EXCEPT ![c] = @ - 1]
    /\ cpc' = [cpc EXCEPT ![c] = IF left[c] > 0 THEN "call" ELSE "done"]
    /\ UNCHANGED <<options, serverVars, arrived>>

Receive(c) ==
    /\ c \in answers
    /\ cpc[c] = "await"
    /\ answers' = answers \ {c}
    /\ left' = [left EXCEPT ![c] = @ - 1]
    /\ cpc' = [cpc EXCEPT ![c] = IF left[c] > 1 THEN "call" ELSE "done"]
    /\ UNCHANGED <<options, serverVars, arrived>>

(* margo_forward_timed, which only the measured calls use, runs out of     *)
(* time, and assert(ret == 0) ends the client.  The server is not told.    *)
GiveUp(c) ==
    /\ timed
    /\ cpc[c] = "await"
    /\ left[c] <= Iters - Warmup
    /\ cpc' = [cpc EXCEPT ![c] = "failed"]
    /\ UNCHANGED <<options, serverVars, arrived, answers, left>>

(* The client of margo-plus-non-margo is ended, wherever its main is, by   *)
(* an assertion of its Mercury half.  The server is not told, and a        *)
(* request on its way may be lost.                                         *)
Abort(c) ==
    /\ program = "mixed"
    /\ c \in Callers
    /\ cpc[c] # "failed"
    /\ cpc' = [cpc EXCEPT ![c] = "failed"]
    /\ arrived' \in {arrived, arrived \ {c}}
    /\ UNCHANGED <<options, serverVars, answers, left>>

-----------------------------------------------------------------------------
Init ==
    /\ program \in Programs
    /\ timed \in IF program = "latency" THEN BOOLEAN ELSE {FALSE}
    /\ mpc = "setup"
    /\ eventual = "null"
    /\ arrived = {}
    /\ suspended = 0
    /\ serviced = 0
    /\ answers = {}
    /\ cpc = [c \in Clients |-> IF c \in Callers THEN "call" ELSE "done"]
    /\ left = [c \in Clients |-> IF c \in Callers THEN Iters ELSE 0]

Next ==
    \/ CreateEventual \/ Wake \/ Count
    \/ \E c \in Clients : Respond(c) \/ Forward(c) \/ Receive(c) \/ GiveUp(c) \/ Abort(c)

(* Main, the handlers' ES, the clients and the network all make progress.  *)
Fairness ==
    /\ WF_vars(CreateEventual)
    /\ WF_vars(Wake)
    /\ WF_vars(Count)
    /\ \A c \in Clients : WF_vars(Respond(c)) /\ WF_vars(Forward(c)) /\ WF_vars(Receive(c))

Spec == Init /\ [][Next]_vars

FairSpec == Spec /\ Fairness

-----------------------------------------------------------------------------
TypeOK ==
    /\ program \in Programs
    /\ timed \in BOOLEAN
    /\ mpc \in {"setup", "wait", "leave"}
    /\ eventual \in {"null", "unset", "set"}
    /\ arrived \subseteq Clients
    /\ suspended \in Nat
    /\ serviced \in 0..Total
    /\ answers \subseteq Clients
    /\ cpc \in [Clients -> {"call", "await", "done", "failed"}]
    /\ left \in [Clients -> 0..Iters]

(***************************************************************************)
(* assert(rpcs_serviced == ...) after the wait, and what it is there for:  *)
(* main leaves only when no request waits for its handler, no handler is   *)
(* still at work and no client has a call left to make.                    *)
(***************************************************************************)
LeavesWhenServiced ==
    mpc = "leave" =>
        /\ serviced = Total
        /\ suspended = 0
        /\ arrived = {}
        /\ \A c \in Clients : cpc[c] # "call"

(* The server left and every client made its last call. *)
Finished == mpc = "leave" /\ \A c \in Clients : cpc[c] = "done"

GaveUp == \E c \in Clients : cpc[c] = "failed"

(* The last handler found no eventual to set. *)
SignalLost == serviced = Total /\ eventual # "set"

(***************************************************************************)
(* Server and clients all finish, unless an assertion ended a client (a    *)
(* measured call ran out of time, a Mercury forward failed) or, with       *)
(* handlers on a stream of their own, the last of them came before main    *)
(* had created the eventual.  Where handlers share main's ES that cannot   *)
(* happen.                                                                 *)
(***************************************************************************)
ServiceEnds == <>(Finished \/ GaveUp \/ (~primary /\ SignalLost))

(***************************************************************************)
(* "wait for for margo service stuff to finish": the wait of the pthreads  *)
(* program ends, though its handlers do not wait for main.                 *)
(***************************************************************************)
ServerFinishes == program = "pthreads" ~> Finished
=============================================================================
