----------------------------- MODULE MercuryHalf ----------------------------
(***************************************************************************)
(* lib-nm.c, the part of margo-plus-non-margo that uses Mercury directly:  *)
(* on either side a pthread with a context of its own (NM_ID) in margo's   *)
(* class and a second pthread, progress_fn, that drives it.  The client    *)
(* has one handle; each forward is issued again from its own callback      *)
(* until Forwards of them were answered.  The server serves for a second   *)
(* and then stops, whatever the client does.  A forward that completes     *)
(* with an error ends the client's process, its margo half included.       *)
(***************************************************************************)
EXTENDS Integers

CONSTANT
    Forwards    \* how often the client forwards: 10

ASSUME ForwardsAssumption == Forwards \in Nat \ {0}

VARIABLES
    thread,         \* where nm_run_client and nm_run_server are
    loop,           \* progress_fn of each side: "none", "run" or "ended"
    shutdown_flag,  \* of each process
    context,        \* of each side: "none", "live" or "destroyed"
    forward,        \* where the forward of the client's handle is
    done_count      \* client_done_count

nmVars == <<thread, loop, shutdown_flag, context, forward, done_count>>

Sides == {"client", "server"}

(* Where a forward may be: the request on its way or lost, at the server,  *)
(* the answer on its way, or the callback between counting and forwarding  *)
(* again; completed with an error, and the callback's assertion failed.    *)
ForwardState == {"idle", "sent", "arrived", "answered", "counted", "lost", "failed", "aborted"}

ThreadState == {"none", "start", "forward", "wait", "blocked", "destroy", "serve",
                "join", "destroy_context", "done"}

(* The process of a side: the client's does not survive its assertion. *)
Alive(s) == s = "server" \/ forward # "aborted"

-----------------------------------------------------------------------------
(* progress_fn, the same on both sides *)

LoopEnd(s) ==
    /\ loop[s] = "run"
    /\ shutdown_flag[s]
    /\ loop' = [loop EXCEPT ![s] = "ended"]
    /\ UNCHANGED <<thread, shutdown_flag, context, forward, done_count>>

(* HG_Trigger on the server runs nm_noop_rpc_cb, which responds.  The loop *)
(* may still get here after the flag was set, before it looks at it again. *)
Answer ==
    /\ loop["server"] = "run"
    /\ forward = "arrived"
    /\ forward' = "answered"
    /\ UNCHANGED <<thread, loop, shutdown_flag, context, done_count>>

SignalNobody == thread' = thread

(* pthread_cond_signal *)
SignalClient ==
    thread' = IF thread["client"] = "blocked" THEN [thread EXCEPT !["client"] = "wait"]
                                              ELSE thread

(* nm_noop_forward_cb on the client, up to its unlock: the last forward    *)
(* signals the waiting thread and is not issued again.                     *)
Callback ==
    /\ loop["client"] = "run"
    /\ forward = "answered"
    /\ done_count' = done_count + 1
    /\ IF done_count' = Forwards THEN SignalClient /\ forward' = "idle"
                                 ELSE forward' = "counted" /\ UNCHANGED thread
    /\ UNCHANGED <<loop, shutdown_flag, context>>

(* Of a forward that failed, it is assert(callback_info->ret == ...) that  *)
(* ends the process.                                                       *)
CallbackFails ==
    /\ loop["client"] = "run"
    /\ forward = "failed"
    /\ forward' = "aborted"
    /\ UNCHANGED <<thread, loop, shutdown_flag, context, done_count>>

ForwardAgain ==
    /\ loop["client"] = "run"
    /\ forward = "counted"
    /\ forward' = "sent"
    /\ UNCHANGED <<thread, loop, shutdown_flag, context, done_count>>

-----------------------------------------------------------------------------
(* The network: a request gets to the server's context while there is one. *)
(* One that finds none, before or after, may be lost; so may one, or its   *)
(* answer, that the destroyed context still held.  The client's side may   *)
(* notice and complete the forward with an error.                          *)

Deliver ==
    /\ forward = "sent"
    /\ context["server"] = "live"
    /\ forward' = "arrived"
    /\ UNCHANGED <<thread, loop, shutdown_flag, context, done_count>>

Lose ==
    /\ \/ forward = "sent" /\ context["server"] # "live"
       \/ forward \in {"arrived", "answered"} /\ context["server"] = "destroyed"
    /\ forward' \in {"lost", "failed"}
    /\ UNCHANGED <<thread, loop, shutdown_flag, context, done_count>>

-----------------------------------------------------------------------------
(* nm_run_client and nm_run_server *)

(* The context is created and the progress thread started. *)
SetUp(s) ==
    /\ thread[s] = "start"
    /\ context' = [context EXCEPT ![s] = "live"]
    /\ loop' = [loop EXCEPT ![s] = "run"]
    /\ thread' = [thread EXCEPT ![s] = IF s = "client" THEN "forward" ELSE "serve"]
    /\ UNCHANGED <<shutdown_flag, forward, done_count>>

ForwardFirst ==
    /\ thread["client"] = "forward"
    /\ forward' = "sent"
    /\ thread' = [thread EXCEPT !["client"] = "wait"]
    /\ UNCHANGED <<loop, shutdown_flag, context, done_count>>

WaitOneLess ==
    /\ thread["client"] = "wait"
    /\ thread' = [thread EXCEPT !["client"] =
                    IF done_count < Forwards - 1 THEN "blocked" ELSE "destroy"]
    /\ UNCHANGED <<loop, shutdown_flag, context, forward, done_count>>

(* With the mutex held the count is tested, and pthread_cond_wait gives    *)
(* the mutex back and blocks.                                              *)
Wait ==
    /\ thread["client"] = "wait"
    /\ thread' = [thread EXCEPT !["client"] =
                    IF done_count < Forwards THEN "blocked" ELSE "destroy"]
    /\ UNCHANGED <<loop, shutdown_flag, context, forward, done_count>>

(* pthread_cond_wait may return without a signal. *)
SpuriousWakeup ==
    /\ thread["client"] = "blocked"
    /\ Alive("client")
    /\ thread' = [thread EXCEPT !["client"] = "wait"]
    /\ UNCHANGED <<loop, shutdown_flag, context, forward, done_count>>

(* The client destroys its handle when it has stopped waiting, the server  *)
(* has slept a second; then the progress thread is told to stop.           *)
Stop(s) ==
    /\ thread[s] \in {"destroy", "serve"}
    /\ shutdown_flag' = [shutdown_flag EXCEPT ![s] = TRUE]
    /\ thread' = [thread EXCEPT ![s] = "join"]
    /\ UNCHANGED <<loop, context, forward, done_count>>

JoinNoWait(s) ==
    /\ thread[s] = "join"
    /\ thread' = [thread EXCEPT ![s] = "destroy_context"]
    /\ UNCHANGED <<loop, shutdown_flag, context, forward, done_count>>

Join(s) ==
    /\ loop[s] = "ended"
    /\ JoinNoWait(s)

DestroyContext(s) ==
    /\ thread[s] = "destroy_context"
    /\ context' = [context EXCEPT ![s] = "destroyed"]
    /\ thread' = [thread EXCEPT ![s] = "done"]
    /\ UNCHANGED <<loop, shutdown_flag, forward, done_count>>

-----------------------------------------------------------------------------
NmInit ==
    /\ thread = [s \in Sides |-> "none"]
    /\ loop = [s \in Sides |-> "none"]
    /\ shutdown_flag = [s \in Sides |-> FALSE]
    /\ context = [s \in Sides |-> "none"]
    /\ forward = "idle"
    /\ done_count = 0

(* main creates the pthread. *)
StartThread(s) ==
    /\ thread[s] = "none"
    /\ thread' = [thread EXCEPT ![s] = "start"]
    /\ UNCHANGED <<loop, shutdown_flag, context, forward, done_count>>

ThreadStep(s) ==
    /\ Alive(s)
    /\ \/ SetUp(s) \/ Stop(s) \/ Join(s) \/ DestroyContext(s)
       \/ s = "client" /\ (ForwardFirst \/ Wait)

LoopStep(s) ==
    /\ Alive(s)
    /\ \/ LoopEnd(s)
       \/ s = "client" /\ (Callback \/ ForwardAgain)
       \/ s = "server" /\ Answer

NmNext ==
    \/ \E s \in Sides : ThreadStep(s) \/ LoopStep(s)
    \/ CallbackFails \/ Deliver \/ Lose \/ SpuriousWakeup

-----------------------------------------------------------------------------
NmTypeOK ==
    /\ thread \in [Sides -> ThreadState]
    /\ loop \in [Sides -> {"none", "run", "ended"}]
    /\ shutdown_flag \in [Sides -> BOOLEAN]
    /\ context \in [Sides -> {"none", "live", "destroyed"}]
    /\ forward \in ForwardState
    /\ done_count \in 0..Forwards

(***************************************************************************)
(* HG_Destroy on the client's handle, and then on its context, finds no    *)
(* forward in flight and none about to be issued again: thread and         *)
(* callback agree on the last one.                                         *)
(***************************************************************************)
HandleIdle ==
    thread["client"] \in {"destroy", "join", "destroy_context", "done"} =>
        forward = "idle" /\ done_count = Forwards
=============================================================================
