---------------------------- MODULE BwBenchmark -----------------------------
(***************************************************************************)
(* A whole run of margo-p2p-bw.c: the client's main and run_benchmark, the *)
(* server's main, and the bw_ult handlers of all requests.  A round is one *)
(* PULL and one PUSH; the warm-up, when there is one, is a round before    *)
(* the measured one.  The PUSH of the last round carries the shutdown      *)
(* flag.  The transfer phase of a handler is the ring of TransferRing,     *)
(* which BwTransfer is shown to implement.                                 *)
(*                                                                         *)
(* Main, handlers and margo's progress loop of the server are ULTs of the  *)
(* primary ES: `running' names the one that has it.  Handlers begin and    *)
(* resume only when it is free.                                            *)
(***************************************************************************)
EXTENDS TransferRing

CONSTANTS
    Rounds,             \* calls of run_benchmark: 2 with a warm-up, else 1
    MaxTakes,           \* bound: tickets drawn in one transfer phase
    MmapBuffer,         \* -m: the server's buffer is a memory-mapped file
    PauseOutlastsSend   \* the client's 100 ms pause is longer than the server
                        \* needs to complete the send of its response

ASSUME BenchmarkAssumption ==
    /\ Slots \in Nat \ {0}
    /\ Step \in Nat \ {0}
    /\ Rounds \in Nat \ {0}
    /\ MaxTakes \in Nat
    /\ MmapBuffer \in BOOLEAN
    /\ PauseOutlastsSend \in BOOLEAN

VARIABLES
    cpc,        \* where the client is
    req,        \* the request the client is at
    clientBuf,  \* the client's g_buffer, one pattern per offset
    serverBuf,  \* the server's g_buffer
    mpc,        \* where the server's main is
    live,       \* what the server's main has set up and not yet released
    eventual,   \* g_bw_done_eventual was set
    released,   \* how each rank gave its buffer back
    running,    \* the ULT on the server's primary ES
    hpc,        \* where the handler of each request is
    out,        \* out.bytes_moved of each request, in transfers
    finished    \* the workers of the current phase that have returned

clientVars == <<cpc, req, clientBuf>>
mainVars   == <<mpc, live, released, running>>
hostVars   == <<serverBuf, eventual, hpc, out, finished>>
vars == <<ringVars, clientVars, mainVars, hostVars>>

Requests == 1..(2 * Rounds)
Pull(r) == r % 2 = 1
EarlyShutdown(r) == r >= 2 * Rounds - 1
Shutdown(r) == r = 2 * Rounds

Main == 0
Idle == -1

(* calloc's contents, the client's pattern x and the server's x + 1. *)
Pattern == {"zero", "base", "plus1"}
Prepared == {"buffer", "bulk", "pool", "eventual"}

(* The offsets below bytes_to_check, which both ranks compute alike. *)
Checked(moves) == {o \in Offsets : o < Step * moves}

(* Where a rank's buffer comes from: calloc or posix_memalign on the       *)
(* client, whatever the options.                                           *)
Allocated(rank) == IF rank = "server" /\ MmapBuffer THEN "mmap" ELSE "heap"

(* Both ranks run the same cleanup, which looks at the option alone. *)
GiveBack(rank) ==
    released' = [released EXCEPT ![rank] = IF MmapBuffer THEN "mmap" ELSE "heap"]

-----------------------------------------------------------------------------
(* The server's main *)

(* The broadcast of the group id lets the client go on; nothing of the     *)
(* benchmark is set up yet.                                                *)
Broadcast ==
    /\ mpc = "boot"
    /\ mpc' = "prep"
    /\ UNCHANGED <<ringVars, clientVars, live, released, running, hostVars>>

PrepareYielding ==
    /\ mpc = "prep"
    /\ \E p \in Prepared \ live : live' = live \cup {p}
    /\ mpc' = IF live' = Prepared THEN "wait" ELSE "prep"
    /\ running' = Idle
    /\ UNCHANGED <<ringVars, clientVars, released, hostVars>>

(* Bulk handle, transfer pool and eventual are set up in this order.  Main *)
(* keeps the primary ES until it blocks in ABT_eventual_wait.              *)
Prepare ==
    /\ mpc = "prep"
    /\ live' = live \cup
            {IF "bulk" \notin live THEN "bulk"
             ELSE IF "pool" \notin live THEN "pool" ELSE "eventual"}
    /\ IF live' = Prepared THEN mpc' = "wait" /\ running' = Idle
                           ELSE UNCHANGED <<mpc, running>>
    /\ UNCHANGED <<ringVars, clientVars, released, hostVars>>

Wake ==
    /\ mpc = "wait"
    /\ eventual
    /\ running = Idle
    /\ mpc' = "release"
    /\ running' = Main
    /\ UNCHANGED <<ringVars, clientVars, live, released, hostVars>>

(* The dedicated streams are joined, the bulk handle and then the buffer   *)
(* are freed, and margo is finalized.                                      *)
Release ==
    /\ mpc = "release"
    /\ live' = live \ {IF "pool" \in live THEN "pool"
                       ELSE IF "bulk" \in live THEN "bulk" ELSE "buffer"}
    /\ IF "buffer" \notin live'
         THEN mpc' = "exit" /\ running' = Idle /\ GiveBack("server")
         ELSE UNCHANGED <<mpc, running, released>>
    /\ UNCHANGED <<ringVars, clientVars, hostVars>>

-----------------------------------------------------------------------------
(* bw_ult, one handler per request *)

Begin(r) ==
    /\ hpc[r] = "sent"
    /\ running = Idle
    /\ mpc # "exit"
    /\ hpc' = [hpc EXCEPT ![r] = "transfer"]
    /\ next' = 0 /\ taken' = 0 /\ moved' = {}
    /\ holds' = [w \in Workers |-> None]
    /\ finished' = {}
    /\ UNCHANGED <<clientVars, mainVars, serverBuf, eventual, out>>

(* A worker whose duration has not passed draws an offset... *)
Draw(r, w) ==
    /\ hpc[r] = "transfer"
    /\ w \notin finished
    /\ taken < MaxTakes
    /\ Take(w)
    /\ UNCHANGED <<clientVars, mainVars, hostVars>>

(* ...and copies the bytes there from the client or to the client. *)
Copy(r, w) ==
    /\ hpc[r] = "transfer"
    /\ Move(w)
    /\ LET o == holds[w] IN
         IF Pull(r)
           THEN serverBuf' = [serverBuf EXCEPT ![o] = clientBuf[o]] /\ UNCHANGED clientBuf
           ELSE clientBuf' = [clientBuf EXCEPT ![o] = serverBuf[o]] /\ UNCHANGED serverBuf
    /\ UNCHANGED <<cpc, req, mainVars, eventual, hpc, out, finished>>

Return(r, w) ==
    /\ hpc[r] = "transfer"
    /\ holds[w] = None
    /\ w \notin finished
    /\ finished' = finished \cup {w}
    /\ UNCHANGED <<ringVars, clientVars, mainVars, serverBuf, eventual, hpc, out>>

RespondUnjoined(r) ==
    /\ hpc[r] = "transfer"
    /\ running = Idle
    /\ out' = [out EXCEPT ![r] = taken]
    /\ hpc' = [hpc EXCEPT ![r] = "responding"]
    /\ UNCHANGED <<ringVars, clientVars, mainVars, serverBuf, eventual, finished>>

(* All workers are joined; margo_respond suspends the handler until the    *)
(* send has completed, and the client may have its answer before that.     *)
Respond(r) ==
    /\ finished = Workers
    /\ RespondUnjoined(r)

ResumeAndSignal(r) ==
    /\ hpc[r] = "responding"
    /\ running = Idle
    /\ hpc' = [hpc EXCEPT ![r] = IF Pull(r) THEN "verify" ELSE "clean"]
    /\ eventual' = (eventual \/ Shutdown(r))
    /\ UNCHANGED <<ringVars, clientVars, mainVars, serverBuf, out, finished>>

(* The send has completed: the handler of a PULL goes on to look at the    *)
(* pattern, that of a PUSH to its cleanup.                                 *)
Resume(r) ==
    /\ hpc[r] = "responding"
    /\ running = Idle
    /\ hpc' = [hpc EXCEPT ![r] = IF Pull(r) THEN "verify" ELSE "clean"]
    /\ running' = r
    /\ UNCHANGED <<ringVars, clientVars, mpc, live, released, serverBuf, eventual, out, finished>>

Verify(r) ==
    /\ hpc[r] = "verify"
    /\ hpc' = [hpc EXCEPT ![r] = "fill"]
    /\ UNCHANGED <<ringVars, clientVars, mainVars, serverBuf, eventual, out, finished>>

FillFromOne(r) ==
    /\ hpc[r] = "fill"
    /\ serverBuf' = [o \in Offsets |-> IF o = 0 THEN serverBuf[o] ELSE "plus1"]
    /\ hpc' = [hpc EXCEPT ![r] = "clean"]
    /\ UNCHANGED <<ringVars, clientVars, mainVars, eventual, out, finished>>

(* The pattern for the return trip. *)
Fill(r) ==
    /\ hpc[r] = "fill"
    /\ serverBuf' = [o \in Offsets |-> "plus1"]
    /\ hpc' = [hpc EXCEPT ![r] = "clean"]
    /\ UNCHANGED <<ringVars, clientVars, mainVars, eventual, out, finished>>

(* The handler frees what is its own, sets the eventual if the request     *)
(* asked for shutdown, and returns.                                        *)
Clean(r) ==
    /\ hpc[r] = "clean"
    /\ hpc' = [hpc EXCEPT ![r] = "done"]
    /\ eventual' = (eventual \/ Shutdown(r))
    /\ running' = Idle
    /\ UNCHANGED <<ringVars, clientVars, mpc, live, released, serverBuf, out, finished>>

-----------------------------------------------------------------------------
(* The client: main and run_benchmark *)

(* The group id has arrived; the client sleeps for three seconds, which    *)
(* says nothing about where the server is.                                 *)
JoinGroup ==
    /\ cpc = "boot"
    /\ mpc # "boot"
    /\ cpc' = "fill"
    /\ UNCHANGED <<ringVars, req, clientBuf, mainVars, hostVars>>

FillOnce ==
    /\ cpc = "fill"
    /\ clientBuf' = IF req = 1 THEN [o \in Offsets |-> "base"] ELSE clientBuf
    /\ cpc' = "forward"
    /\ UNCHANGED <<ringVars, req, mainVars, hostVars>>

FillClient ==
    /\ cpc = "fill"
    /\ clientBuf' = [o \in Offsets |-> "base"]
    /\ cpc' = "forward"
    /\ UNCHANGED <<ringVars, req, mainVars, hostVars>>

Forward ==
    /\ cpc = "forward"
    /\ hpc' = [hpc EXCEPT ![req] = "sent"]
    /\ cpc' = "await"
    /\ UNCHANGED <<ringVars, req, clientBuf, mainVars, serverBuf, eventual, out, finished>>

(* margo_forward returns with the answer. *)
Answered ==
    /\ cpc = "await"
    /\ hpc[req] \in {"responding", "verify", "fill", "clean", "done"}
    /\ cpc' = IF Pull(req) THEN "pause" ELSE "check"
    /\ UNCHANGED <<ringVars, req, clientBuf, mainVars, hostVars>>

NoPause ==
    /\ cpc = "pause"
    /\ cpc' = "forward"
    /\ req' = req + 1
    /\ UNCHANGED <<ringVars, clientBuf, mainVars, hostVars>>

Pause ==
    /\ PauseOutlastsSend => hpc[req] # "responding"
    /\ NoPause

CheckRunsOn ==
    /\ cpc = "check"
    /\ IF req > 2 * Rounds THEN cpc' = "exit" /\ UNCHANGED req
                           ELSE cpc' = "fill" /\ req' = req + 1
    /\ UNCHANGED <<ringVars, clientBuf, mainVars, hostVars>>

Check ==
    /\ cpc = "check"
    /\ IF req = 2 * Rounds THEN cpc' = "cleanup" /\ UNCHANGED req
                           ELSE cpc' = "fill" /\ req' = req + 1
    /\ UNCHANGED <<ringVars, clientBuf, mainVars, hostVars>>

Cleanup ==
    /\ cpc = "cleanup"
    /\ cpc' = "exit"
    /\ GiveBack("client")
    /\ UNCHANGED <<ringVars, req, clientBuf, mpc, live, running, hostVars>>

-----------------------------------------------------------------------------
Init ==
    /\ RingInit
    /\ cpc = "boot"
    /\ req = 1
    /\ clientBuf = [o \in Offsets |-> "zero"]
    /\ serverBuf = [o \in Offsets |-> "zero"]
    /\ mpc = "boot"
    /\ live = {"buffer"}
    /\ eventual = FALSE
    /\ released = [rank \in {"client", "server"} |-> "no"]
    /\ running = Main
    /\ hpc = [r \in Requests |-> "none"]
    /\ out = [r \in Requests |-> 0]
    /\ finished = {}

MainStep == Broadcast \/ Prepare \/ Wake \/ Release

WorkerStep(w) ==
    \E r \in Requests : Draw(r, w) \/ Copy(r, w) \/ Return(r, w)

HandlerStep(r) ==
    Begin(r) \/ Respond(r) \/ Resume(r) \/ Verify(r) \/ Fill(r) \/ Clean(r)

ClientStep == JoinGroup \/ FillClient \/ Forward \/ Answered \/ Pause \/ Check \/ Cleanup

Next ==
    \/ MainStep
    \/ ClientStep
    \/ \E w \in Workers : WorkerStep(w)
    \/ \E r \in Requests : HandlerStep(r)

(* Both processes run, a handler that can run gets the primary ES (its     *)
(* pool is a FIFO queue), and the duration ends every worker's loop.       *)
Fairness ==
    /\ WF_vars(MainStep)
    /\ WF_vars(ClientStep)
    /\ \A w \in Workers : WF_vars(WorkerStep(w))
    /\ \A r \in Requests : WF_vars(HandlerStep(r))

Spec == Init /\ [][Next]_vars

FairSpec == Spec /\ Fairness

-----------------------------------------------------------------------------
TypeOK ==
    /\ RingTypeOK
    /\ cpc \in {"boot", "fill", "forward", "await", "pause", "check", "cleanup", "exit"}
    /\ req \in Requests
    /\ clientBuf \in [Offsets -> Pattern]
    /\ serverBuf \in [Offsets -> Pattern]
    /\ mpc \in {"boot", "prep", "wait", "release", "exit"}
    /\ live \subseteq Prepared
    /\ eventual \in BOOLEAN
    /\ released \in [{"client", "server"} -> {"no", "heap", "mmap"}]
    /\ running \in Requests \cup {Main, Idle}
    /\ hpc \in [Requests -> {"none", "sent", "transfer", "responding", "verify",
                             "fill", "clean", "done"}]
    /\ out \in [Requests -> Nat]
    /\ finished \subseteq Workers

(***************************************************************************)
(* assert(((hg_size_t* )g_buffer)[x] == x) in bw_ult: after a PULL the      *)
(* checked prefix of the server's buffer holds the client's pattern.       *)
(***************************************************************************)
ServerAssert ==
    \A r \in Requests :
        hpc[r] = "verify" => \A o \in Checked(out[r]) : serverBuf[o] = "base"

(***************************************************************************)
(* assert(((hg_size_t* )g_buffer)[i] == i + 1) in run_benchmark: after a    *)
(* PUSH the checked prefix of the client's buffer holds what the server    *)
(* wrote for the return trip.                                              *)
(***************************************************************************)
ClientAssert ==
    cpc = "check" => \A o \in Checked(out[req]) : clientBuf[o] = "plus1"

(***************************************************************************)
(* Neither rank's CPU touches its buffer while the network does: the       *)
(* client does not fill or check, the server does not verify or fill,      *)
(* while a transfer is in flight.                                          *)
(***************************************************************************)
BufferOwnership ==
    (\E w \in Workers : holds[w] # None)
        => /\ cpc \notin {"fill", "check", "cleanup", "exit"}
           /\ \A r \in Requests : hpc[r] \notin {"verify", "fill"}

(***************************************************************************)
(* No handler touches the bulk handle, the pool or the eventual before     *)
(* main has set them up.  The client's sleep does not ensure this ("this   *)
(* is a hack"); that main keeps the primary ES until it waits does.        *)
(***************************************************************************)
ServesWhenReady ==
    \A r \in Requests :
        hpc[r] \notin {"none", "sent"} => "eventual" \in live

(***************************************************************************)
(* When main releases pool, bulk handle and buffer, the requests that use  *)
(* them and the one that woke main are over.  What may still be pending is *)
(* the send of an earlier PUSH's response, which uses none of the three.   *)
(***************************************************************************)
NoUseAfterRelease ==
    mpc \in {"release", "exit"} =>
        \A r \in Requests :
            hpc[r] \in {"done"} \cup
                (IF Pull(r) \/ Shutdown(r) THEN {} ELSE {"responding", "clean"})

(***************************************************************************)
(* "On server side, optionally use an mmap'd buffer.  Always calloc on     *)
(* client."  Each rank gives its buffer back the way it got it.            *)
(***************************************************************************)
ReleasedAsAllocated ==
    \A rank \in {"client", "server"} : released[rank] \in {"no", Allocated(rank)}

(***************************************************************************)
(* The benchmark ends on both ranks: the shutdown flag reaches main, and   *)
(* no earlier request ends the server under the client.                    *)
(***************************************************************************)
Termination == <>(cpc = "exit" /\ mpc = "exit")
=============================================================================
