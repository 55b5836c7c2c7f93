------------------------------- MODULE GpuBw --------------------------------
(***************************************************************************)
(* gpu-margo-p2p-bw.cu: margo-p2p-bw with the registered buffer of one or  *)
(* both ranks in GPU memory.  Such a rank (use_cuda_buf) keeps its host    *)
(* buffer as a staging area: it fills and checks patterns there and copies *)
(* between the two with cudaMemcpy.  Transfers, requests, shutdown and     *)
(* release are those of margo-p2p-bw.c; clientBuf and serverBuf are the    *)
(* registered buffers, wherever they are.  With no rank on the GPU this is *)
(* margo-p2p-bw.c itself.                                                  *)
(***************************************************************************)
EXTENDS BwBenchmark

VARIABLES
    onGpu,      \* the ranks with use_cuda_buf set (never changes)
    host,       \* g_buffer of each of these ranks
    stage,      \* between filling and copying in, or copying out and checking
    refused     \* a rank's bulk registration failed and its assertion ended
                \* the job

gpuVars == <<onGpu, host, stage, refused>>
allVars == <<vars, gpuVars>>

Ranks == {"client", "server"}

(* -j leaves only the server's buffer on the GPU, -k only the client's,    *)
(* neither option both; both together are an error.                        *)
Modes == {Ranks, {"server"}, {"client"}}

Staged(rank) == rank \in onGpu /\ stage[rank] = "none"

(* The host buffer is filled... *)
FillStaging(rank, pattern) ==
    /\ Staged(rank)
    /\ host' = [host EXCEPT ![rank] = [o \in Offsets |-> pattern]]
    /\ stage' = [stage EXCEPT ![rank] = "filled"]
    /\ UNCHANGED <<vars, onGpu, refused>>

(* ...or overwritten with part of the registered buffer. *)
CopyOut(rank, part) ==
    /\ Staged(rank)
    /\ host' = [host EXCEPT ![rank] =
                  [o \in Offsets |-> IF o \in DOMAIN part THEN part[o] ELSE @[o]]]
    /\ stage' = [stage EXCEPT ![rank] = "copied"]
    /\ UNCHANGED <<vars, onGpu, refused>>

Unstage(rank) ==
    /\ stage' = [stage EXCEPT ![rank] = "none"]
    /\ UNCHANGED <<onGpu, host, refused>>

(* A rank whose buffer is in main memory leaves the mem_type of its bulk   *)
(* attributes uninitialized, and the registration may fail on it.          *)
Refuse(rank) ==
    /\ onGpu \notin {{}, Ranks}
    /\ rank \notin onGpu
    /\ refused' = TRUE
    /\ UNCHANGED <<vars, onGpu, host, stage>>

-----------------------------------------------------------------------------
(* bw_ult: the copy out stops at bytes_to_check, the copy in does not.     *)

SkipCopyOutServer(r) ==
    /\ hpc[r] = "verify"
    /\ CopyOut("server", <<>>)

CopyOutServer(r) ==
    /\ hpc[r] = "verify"
    /\ CopyOut("server", [o \in Checked(out[r]) \cap Offsets |-> serverBuf[o]])

GpuVerify(r) ==
    /\ Verify(r)
    /\ IF "server" \in onGpu THEN stage["server"] = "copied" /\ Unstage("server")
                             ELSE UNCHANGED gpuVars

FillStagingServer(r) ==
    /\ hpc[r] = "fill"
    /\ FillStaging("server", "plus1")

FillHost(r) ==
    /\ "server" \notin onGpu
    /\ Fill(r)
    /\ UNCHANGED gpuVars

CopyInPrefix(r) ==
    /\ hpc[r] = "fill"
    /\ stage["server"] = "filled"
    /\ serverBuf' = [o \in Offsets |->
                       IF o \in Checked(out[r]) THEN host["server"][o] ELSE serverBuf[o]]
    /\ hpc' = [hpc EXCEPT ![r] = "clean"]
    /\ UNCHANGED <<ringVars, clientVars, mainVars, eventual, out, finished>>
    /\ Unstage("server")

CopyInServer(r) ==
    /\ hpc[r] = "fill"
    /\ stage["server"] = "filled"
    /\ serverBuf' = host["server"]
    /\ hpc' = [hpc EXCEPT ![r] = "clean"]
    /\ UNCHANGED <<ringVars, clientVars, mainVars, eventual, out, finished>>
    /\ Unstage("server")

-----------------------------------------------------------------------------
(* run_benchmark *)

FillStagingClient ==
    /\ cpc = "fill"
    /\ FillStaging("client", "base")

FillClientHost ==
    /\ "client" \notin onGpu
    /\ FillClient
    /\ UNCHANGED gpuVars

CopyInClient ==
    /\ cpc = "fill"
    /\ stage["client"] = "filled"
    /\ clientBuf' = host["client"]
    /\ cpc' = "forward"
    /\ UNCHANGED <<ringVars, req, mainVars, hostVars>>
    /\ Unstage("client")

CopyOutClient ==
    /\ cpc = "check"
    /\ CopyOut("client", clientBuf)

GpuCheck ==
    /\ Check
    /\ IF "client" \in onGpu THEN stage["client"] = "copied" /\ Unstage("client")
                             ELSE UNCHANGED gpuVars

-----------------------------------------------------------------------------
GpuInit ==
    /\ Init
    /\ onGpu \in Modes \cup {{}}
    /\ host = [rank \in Ranks |-> [o \in Offsets |-> "zero"]]
    /\ stage = [rank \in Ranks |-> "none"]
    /\ refused = FALSE

RefuseServer == mpc = "prep" /\ "bulk" \notin live /\ Refuse("server")

GpuMainStep ==
    \/ Broadcast /\ UNCHANGED gpuVars
    \/ Prepare /\ UNCHANGED gpuVars
    \/ Wake /\ UNCHANGED gpuVars
    \/ Release /\ UNCHANGED gpuVars
    \/ RefuseServer

RefuseClient == cpc = "forward" /\ Pull(req) /\ Refuse("client")

GpuClientStep ==
    \/ JoinGroup /\ UNCHANGED gpuVars
    \/ FillStagingClient \/ CopyInClient \/ FillClientHost
    \/ Forward /\ UNCHANGED gpuVars
    \/ RefuseClient
    \/ Answered /\ UNCHANGED gpuVars
    \/ Pause /\ UNCHANGED gpuVars
    \/ CopyOutClient \/ GpuCheck
    \/ Cleanup /\ UNCHANGED gpuVars

GpuHandlerStep(r) ==
    \/ Begin(r) /\ UNCHANGED gpuVars
    \/ Respond(r) /\ UNCHANGED gpuVars
    \/ Resume(r) /\ UNCHANGED gpuVars
    \/ CopyOutServer(r) \/ GpuVerify(r)
    \/ FillStagingServer(r) \/ CopyInServer(r) \/ FillHost(r)
    \/ Clean(r) /\ UNCHANGED gpuVars

GpuWorkerStep(w) == WorkerStep(w) /\ UNCHANGED gpuVars

GpuNext ==
    /\ ~refused
    /\ \/ GpuMainStep
       \/ GpuClientStep
       \/ \E w \in Workers : GpuWorkerStep(w)
       \/ \E r \in Requests : GpuHandlerStep(r)

(* The threads of BwBenchmark and no other. *)
GpuFairness ==
    /\ WF_allVars(~refused /\ GpuMainStep)
    /\ WF_allVars(~refused /\ GpuClientStep)
    /\ \A w \in Workers : WF_allVars(~refused /\ GpuWorkerStep(w))
    /\ \A r \in Requests : WF_allVars(~refused /\ GpuHandlerStep(r))

GpuSpec == GpuInit /\ [][GpuNext]_allVars

GpuFairSpec == GpuSpec /\ GpuFairness

-----------------------------------------------------------------------------
GpuTypeOK ==
    /\ TypeOK
    /\ onGpu \subseteq Ranks
    /\ host \in [Ranks -> [Offsets -> Pattern]]
    /\ stage \in [Ranks -> {"none", "filled", "copied"}]
    /\ refused \in BOOLEAN

(***************************************************************************)
(* The two pattern assertions as a rank with its buffer on the GPU         *)
(* evaluates them: not on the registered buffer but on the staging area    *)
(* the last cudaMemcpy wrote, of which the server refreshes only the       *)
(* checked prefix.                                                         *)
(***************************************************************************)
StagedAsserts ==
    /\ stage["server"] = "copied" =>
         \A r \in Requests :
             hpc[r] = "verify" => \A o \in Checked(out[r]) : host["server"][o] = "base"
    /\ stage["client"] = "copied" =>
             cpc = "check" /\ \A o \in Checked(out[req]) : host["client"][o] = "plus1"

(***************************************************************************)
(* Staging adds nothing the other rank could notice: on the registered     *)
(* buffers and in every request the GPU program does what margo-p2p-bw     *)
(* does.  A copy in that left out part of the buffer, or a fill that       *)
(* reached the registered buffer at another time, would be a step          *)
(* margo-p2p-bw cannot take.                                               *)
(***************************************************************************)
RefinesBenchmark == Spec

(***************************************************************************)
(* Both ranks end, in every mode, unless a registration was refused.       *)
(***************************************************************************)
GpuTermination == <>(refused \/ (cpc = "exit" /\ mpc = "exit"))
=============================================================================
