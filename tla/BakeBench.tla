----------------------------- MODULE BakeBench ------------------------------
(***************************************************************************)
(* bake-p2p-bw.c: one server, which attaches a Bake target and serves it   *)
(* until it is told to stop, and the clients that write to it.  Every      *)
(* client has workers and an offset of its own; how they share it is       *)
(* RegionWriters, and here its abstraction RegionQueue with the clients    *)
(* as pools.  A region that is held is a write under way to the server.    *)
(*                                                                         *)
(* Margo runs handlers on its progress thread or on streams of their own,  *)
(* so they do not wait for main.                                           *)
(***************************************************************************)
EXTENDS RegionQueue

ASSUME BakeAssumption ==
    /\ PoolOf \in [Workers -> Pools]
    /\ \A c \in Pools : \E w \in Workers : PoolOf[w] = c   \* parse_args: -c is at least 1
    /\ Step \in Nat \ {0}
    /\ Total \in Nat

VARIABLES
    ranks,      \* the clients of this MPI job (never changes)
    slow,       \* set-up may take longer than the clients' sleep (never changes)
    mpc,        \* where the server's main is
    eventual,   \* bench_stop_eventual: "null", "unset" or "set"
    cpc,        \* where each client is
    stopping    \* clients whose stop handler has responded, not yet signalled

serverVars == <<mpc, eventual, stopping>>
vars == <<queueVars, ranks, slow, serverVars, cpc>>

Clients == Pools

SetUp == {"register", "attach", "create"}
Attached == mpc \in {"create", "wait", "linger", "detach"}

(* The workers of client c have found no region left and were joined.      *)
Joined(c) ==
    /\ next[c] >= Total
    /\ \A w \in Workers : PoolOf[w] = c => holds[w] = None

-----------------------------------------------------------------------------
(* The server's main *)

Broadcast ==
    /\ mpc = "boot"
    /\ mpc' = "register"
    /\ UNCHANGED <<queueVars, ranks, slow, eventual, stopping, cpc>>

(* The provider is registered, then the target attached. *)
Prepare ==
    /\ mpc \in {"register", "attach"}
    /\ mpc' = IF mpc = "register" THEN "attach" ELSE "create"
    /\ UNCHANGED <<queueVars, ranks, slow, eventual, stopping, cpc>>

CreateEventual ==
    /\ mpc = "create"
    /\ eventual' = "unset"
    /\ mpc' = "wait"
    /\ UNCHANGED <<queueVars, ranks, slow, stopping, cpc>>

(* The first set ends the wait; main then sleeps for two seconds.          *)
Wake ==
    /\ mpc = "wait"
    /\ eventual = "set"
    /\ mpc' = "linger"
    /\ UNCHANGED <<queueVars, ranks, slow, eventual, stopping, cpc>>

Linger ==
    /\ mpc = "linger"
    /\ mpc' = "detach"
    /\ UNCHANGED <<queueVars, ranks, slow, eventual, stopping, cpc>>

(* Targets are detached, the provider is deregistered, margo finalized.    *)
Detach ==
    /\ mpc = "detach"
    /\ mpc' = "exit"
    /\ UNCHANGED <<queueVars, ranks, slow, eventual, stopping, cpc>>

-----------------------------------------------------------------------------
(* bench_stop_ult *)

SignalFirst(c) ==
    /\ cpc[c] = "stop"
    /\ c \notin stopping
    /\ mpc # "exit"
    /\ stopping' = stopping \cup {c}
    /\ eventual' = IF eventual = "null" THEN "null" ELSE "set"
    /\ UNCHANGED <<queueVars, ranks, slow, mpc, cpc>>

(* The stop request is answered... *)
RespondStop(c) ==
    /\ cpc[c] = "stop"
    /\ mpc # "exit"
    /\ cpc' = [cpc EXCEPT ![c] = "done"]
    /\ stopping' = stopping \cup {c}
    /\ UNCHANGED <<queueVars, ranks, slow, mpc, eventual>>

SignalWhenAllStop(c) ==
    /\ c \in stopping
    /\ stopping' = stopping \ {c}
    /\ eventual' = IF eventual = "null" \/ stopping # Clients THEN eventual ELSE "set"
    /\ UNCHANGED <<queueVars, ranks, slow, mpc, cpc>>

(* ...and then main is signalled.  A second set is an error nobody looks   *)
(* at, like a set on a handle that is still null.                          *)
Signal(c) ==
    /\ c \in stopping
    /\ stopping' = stopping \ {c}
    /\ eventual' = IF eventual = "null" THEN "null" ELSE "set"
    /\ UNCHANGED <<queueVars, ranks, slow, mpc, cpc>>

-----------------------------------------------------------------------------
(* A client *)

(* The group id has arrived and the client sleeps for three seconds "for   *)
(* services to be ready".                                                  *)
Rest(c) ==
    /\ cpc[c] = "boot"
    /\ mpc # "boot"
    /\ slow \/ mpc \notin SetUp
    /\ cpc' = [cpc EXCEPT ![c] = "probe"]
    /\ UNCHANGED <<queueVars, ranks, slow, serverVars>>

Probe(c) ==
    /\ cpc[c] = "probe"
    /\ Attached
    /\ cpc' = [cpc EXCEPT ![c] = "work"]
    /\ UNCHANGED <<queueVars, ranks, slow, serverVars>>

Draw(w) ==
    /\ cpc[PoolOf[w]] = "work"
    /\ Hand(w)
    /\ UNCHANGED <<ranks, slow, serverVars, cpc>>

Write(w) ==
    /\ cpc[PoolOf[w]] # "failed"
    /\ Attached
    /\ Put(w)
    /\ UNCHANGED <<ranks, slow, serverVars, cpc>>

StopUnjoined(c) ==
    /\ cpc[c] = "work"
    /\ next[c] >= Total
    /\ cpc' = [cpc EXCEPT ![c] = "stop"]
    /\ UNCHANGED <<queueVars, ranks, slow, serverVars>>

Stop(c) ==
    /\ Joined(c)
    /\ StopUnjoined(c)

(* The server has no target for a request, or is gone: the call returns an *)
(* error and assert(ret == 0) ends the client.                             *)
Refused(c) ==
    /\ \/ cpc[c] = "probe" /\ ~Attached
       \/ cpc[c] = "stop" /\ mpc = "exit"
       \/ \E w \in Workers : PoolOf[w] = c /\ holds[w] # None /\ ~Attached
    /\ cpc' = [cpc EXCEPT ![c] = "failed"]
    /\ UNCHANGED <<queueVars, ranks, slow, serverVars>>

-----------------------------------------------------------------------------
Init ==
    /\ QueueInit
    /\ ranks \in (SUBSET Clients) \ {{}}
    /\ slow \in BOOLEAN
    /\ mpc = "boot"
    /\ eventual = "null"
    /\ cpc = [c \in Clients |-> IF c \in ranks THEN "boot" ELSE "absent"]
    /\ stopping = {}

MainStep == Broadcast \/ Prepare \/ CreateEventual \/ Wake \/ Linger \/ Detach

StopHandler(c) == RespondStop(c) \/ Signal(c)

ClientStep(c) == Rest(c) \/ Probe(c) \/ Stop(c)

WorkerStep(w) == Draw(w) \/ Write(w)

Next ==
    \/ MainStep
    \/ \E c \in Clients : ClientStep(c) \/ StopHandler(c) \/ Refused(c)
    \/ \E w \in Workers : WorkerStep(w)

(* The processes run and the server answers what it can.                   *)
Fairness ==
    /\ WF_vars(MainStep)
    /\ \A c \in Clients : WF_vars(ClientStep(c)) /\ WF_vars(StopHandler(c))
    /\ \A w \in Workers : WF_vars(WorkerStep(w))

Spec == Init /\ [][Next]_vars

FairSpec == Spec /\ Fairness

-----------------------------------------------------------------------------
TypeOK ==
    /\ QueueTypeOK
    /\ ranks \in (SUBSET Clients) \ {{}}
    /\ slow \in BOOLEAN
    /\ mpc \in {"boot", "wait", "linger", "detach", "exit"} \cup SetUp
    /\ eventual \in {"null", "unset", "set"}
    /\ cpc \in [Clients -> {"absent", "boot", "probe", "work", "stop", "done", "failed"}]
    /\ stopping \subseteq Clients

Regions == {o \in 0..(Total - 1) : \E k \in 0..o : o = k * Step}

(* One client, which sleeps long enough. *)
Alone == ~slow /\ \E c \in Clients : ranks = {c}

Failed == \E c \in Clients : cpc[c] = "failed"

(***************************************************************************)
(* The server takes its target down only when a client has written all it  *)
(* had to write and its stop request was answered.                         *)
(***************************************************************************)
DownAfterWork ==
    mpc \in {"linger", "detach", "exit"} =>
        \E c \in ranks : cpc[c] = "done" /\ written[c] = Regions

(***************************************************************************)
(* With one client that waits long enough no assertion on a return code    *)
(* fails.                                                                  *)
(***************************************************************************)
AloneServed == Alone => ~Failed

(* Nobody is left who could tell main to stop. *)
LeftWaiting ==
    /\ mpc = "wait" /\ eventual # "set" /\ stopping = {}
    /\ \A c \in ranks : cpc[c] \in {"done", "failed"}

(***************************************************************************)
(* A single client and its server end.  Only a set-up slower than the      *)
(* client's sleep may leave main waiting: the client was refused, or its   *)
(* stop handler came before the eventual.                                  *)
(***************************************************************************)
AloneFinishes ==
    (\E c \in Clients : ranks = {c}) ~>
        \/ mpc = "exit" /\ \A c \in ranks : cpc[c] = "done"
        \/ slow /\ LeftWaiting

(***************************************************************************)
(* "1 server, N clients": every client of the job is served, given that    *)
(* the sleep is long enough.                                               *)
(***************************************************************************)
AllServed == ~slow => ~Failed
=============================================================================
