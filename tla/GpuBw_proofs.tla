---------------------------- MODULE GpuBw_proofs ----------------------------
(***************************************************************************)
(* Proofs about GpuBw for every number of workers, slots and rounds.       *)
(***************************************************************************)
EXTENDS GpuBw, BwBenchmark_proofs

(* What is in a staging area that is filled is the pattern of its rank. *)
FillInv ==
    /\ host \in [Ranks -> [Offsets -> Pattern]]
    /\ stage \in [Ranks -> {"none", "filled", "copied"}]
    /\ \A rank \in Ranks : stage[rank] # "none" => rank \in onGpu
    /\ stage["client"] = "filled" => AllAre(host["client"], "base")
    /\ stage["server"] = "filled" => AllAre(host["server"], "plus1")

(* What is in one that was copied out is still in the registered buffer,   *)
(* and no CPU but the one about to check it has a use for either.          *)
ClientCopied ==
    stage["client"] = "copied" =>
        /\ cpc = "check"
        /\ \A o \in Offsets : host["client"][o] = clientBuf[o]

ServerCopied ==
    stage["server"] = "copied" =>
        \E r \in Requests :
            /\ hpc[r] = "verify"
            /\ \A o \in Checked(out[r]) : host["server"][o] = serverBuf[o]

-----------------------------------------------------------------------------
(* The refinement. *)

LEMMA RankTypes == Ranks = {"client", "server"}
  BY DEF Ranks

(* An array of one pattern. *)
LEMMA AllSame ==
    ASSUME NEW buf \in [Offsets -> Pattern], NEW p, AllAre(buf, p)
    PROVE  buf = [o \in Offsets |-> p]
  BY DEF AllAre

(* A rank on the GPU fills its staging area, or copies out to it. *)
Stages ==
    /\ UNCHANGED <<vars, refused>>
    /\ \E rank \in Ranks : stage[rank] = "none" /\ stage'[rank] # "none"

Refuses == UNCHANGED vars /\ ~refused /\ refused'

(* Every step of the GPU program is a step of margo-p2p-bw, or one of      *)
(* these two.                                                              *)
LEMMA Simulation == FillInv /\ GpuNext => Next \/ Stages \/ Refuses
<1> SUFFICES ASSUME FillInv, GpuNext PROVE Next \/ Stages \/ Refuses
  OBVIOUS
<1>1. CASE GpuMainStep
  BY <1>1 DEF GpuMainStep, Next, MainStep, RefuseServer, Refuse, Refuses, GpuNext
<1>2. ASSUME NEW w \in Workers, GpuWorkerStep(w) PROVE Next \/ Stages \/ Refuses
  BY <1>2 DEF GpuWorkerStep, Next
<1>3. CASE GpuClientStep
  <2>1. CASE CopyInClient
    <3>1. host["client"] = [o \in Offsets |-> "base"]
      BY <2>1, AllSame, RankTypes DEF CopyInClient, FillInv
    <3>2. FillClient
      BY <2>1, <3>1 DEF CopyInClient, FillClient
    <3> QED
      BY <3>2 DEF Next, ClientStep
  <2>2. CASE FillStagingClient \/ CopyOutClient
    BY <2>2, RankTypes DEF FillStagingClient, FillStaging, CopyOutClient, CopyOut, Staged,
       FillInv, Stages
  <2>4. CASE RefuseClient
    BY <2>4 DEF RefuseClient, Refuse, Refuses, GpuNext
  <2>3. CASE FillClientHost \/ GpuCheck
    BY <2>3 DEF FillClientHost, GpuCheck, Next, ClientStep
  <2> QED
    BY <1>3, <2>1, <2>2, <2>3, <2>4 DEF GpuClientStep, Next, ClientStep
<1>4. ASSUME NEW r \in Requests, GpuHandlerStep(r) PROVE Next \/ Stages \/ Refuses
  <2>1. CASE CopyInServer(r)
    <3>1. host["server"] = [o \in Offsets |-> "plus1"]
      BY <2>1, AllSame, RankTypes DEF CopyInServer, FillInv
    <3>2. Fill(r)
      BY <2>1, <3>1 DEF CopyInServer, Fill
    <3> QED
      BY <3>2 DEF Next, HandlerStep
  <2>2. CASE FillStagingServer(r) \/ CopyOutServer(r)
    BY <2>2, RankTypes DEF FillStagingServer, FillStaging, CopyOutServer, CopyOut, Staged,
       FillInv, Stages
  <2>3. CASE FillHost(r) \/ GpuVerify(r)
    BY <2>3 DEF FillHost, GpuVerify, Next, HandlerStep
  <2> QED
    BY <1>4, <2>1, <2>2, <2>3 DEF GpuHandlerStep, Next, HandlerStep
<1> QED
  BY <1>1, <1>2, <1>3, <1>4 DEF GpuNext

-----------------------------------------------------------------------------
(* The staging areas. *)

LEMMA FillInit == GpuInit => FillInv
  BY RankTypes DEF GpuInit, FillInv, Pattern

(* Filling and copying out, for either rank. *)
LEMMA FillStagingStep ==
    ASSUME FillInv, NEW rank \in Ranks, NEW p \in Pattern, FillStaging(rank, p),
           rank = "client" => p = "base", rank = "server" => p = "plus1"
    PROVE  FillInv'
<1>1. /\ host' \in [Ranks -> [Offsets -> Pattern]]
      /\ stage' \in [Ranks -> {"none", "filled", "copied"}]
  BY DEF FillStaging, FillInv
<1>2. /\ onGpu' = onGpu /\ rank \in onGpu
      /\ \A k \in Ranks \ {rank} : host'[k] = host[k] /\ stage'[k] = stage[k]
      /\ AllAre(host'[rank], p)
  BY DEF FillStaging, FillInv, Staged, AllAre
<1> QED
  BY <1>1, <1>2, RankTypes DEF FillInv, AllAre

LEMMA CopyOutStep ==
    ASSUME FillInv, NEW rank \in Ranks, NEW part, CopyOut(rank, part),
           \A o \in DOMAIN part : part[o] \in Pattern
    PROVE  FillInv'
<1>1. /\ host' \in [Ranks -> [Offsets -> Pattern]]
      /\ stage' \in [Ranks -> {"none", "filled", "copied"}]
  BY DEF CopyOut, FillInv
<1>2. /\ onGpu' = onGpu /\ rank \in onGpu /\ stage'[rank] = "copied"
      /\ \A k \in Ranks \ {rank} : host'[k] = host[k] /\ stage'[k] = stage[k]
  BY DEF CopyOut, FillInv, Staged
<1> QED
  BY <1>1, <1>2, RankTypes DEF FillInv, AllAre

LEMMA UnstageStep ==
    ASSUME FillInv, NEW rank \in Ranks, Unstage(rank)
    PROVE  FillInv'
  BY RankTypes DEF Unstage, FillInv, AllAre

LEMMA FillStep == TypeOK /\ FillInv /\ [GpuNext]_allVars => FillInv'
<1> SUFFICES ASSUME TypeOK, FillInv, [GpuNext]_allVars PROVE FillInv'
  OBVIOUS
<1> USE RankTypes
<1>1. CASE UNCHANGED gpuVars
  BY <1>1 DEF gpuVars, FillInv, AllAre
<1>2. CASE GpuMainStep
  BY <1>1, <1>2 DEF GpuMainStep, RefuseServer, Refuse, FillInv, AllAre
<1>3. CASE \E w \in Workers : GpuWorkerStep(w)
  BY <1>1, <1>3 DEF GpuWorkerStep
<1>4. CASE GpuClientStep
  <2>1. CASE FillStagingClient
    BY <2>1, FillStagingStep DEF FillStagingClient, Pattern
  <2>2. CASE CopyOutClient
    <3>1. \A o \in DOMAIN clientBuf : clientBuf[o] \in Pattern
      BY DEF TypeOK
    <3> QED
      BY <2>2, <3>1, CopyOutStep DEF CopyOutClient
  <2>3. CASE CopyInClient
    BY <2>3, UnstageStep DEF CopyInClient
  <2>4. CASE GpuCheck
    BY <1>1, <2>4, UnstageStep DEF GpuCheck
  <2>5. CASE RefuseClient
    BY <2>5 DEF RefuseClient, Refuse, FillInv, AllAre
  <2> QED
    BY <1>1, <1>4, <2>1, <2>2, <2>3, <2>4, <2>5 DEF GpuClientStep, FillClientHost
<1>5. ASSUME NEW r \in Requests, GpuHandlerStep(r) PROVE FillInv'
  <2>1. CASE FillStagingServer(r)
    BY <2>1, FillStagingStep DEF FillStagingServer, Pattern
  <2>2. CASE CopyOutServer(r)
    <3> DEFINE part == [o \in Checked(out[r]) \cap Offsets |-> serverBuf[o]]
    <3>1. \A o \in DOMAIN part : part[o] \in Pattern
      BY DEF TypeOK
    <3>2. CopyOut("server", part)
      BY <2>2 DEF CopyOutServer
    <3> HIDE DEF part
    <3> QED
      BY <3>1, <3>2, CopyOutStep
  <2>3. CASE CopyInServer(r)
    BY <2>3, UnstageStep DEF CopyInServer
  <2>4. CASE GpuVerify(r)
    BY <1>1, <2>4, UnstageStep DEF GpuVerify
  <2> QED
    BY <1>1, <1>5, <2>1, <2>2, <2>3, <2>4 DEF GpuHandlerStep, FillHost
<1> QED
  BY <1>1, <1>2, <1>3, <1>4, <1>5 DEF GpuNext, allVars

-----------------------------------------------------------------------------
(* What is copied out stays what is in the registered buffer. *)

(* A worker writes to neither buffer behind the back of a rank that checks. *)
LEMMA WorkerLeavesChecked ==
    ASSUME TypeOK, SequenceInv, NEW w \in Workers, WorkerStep(w)
    PROVE  /\ cpc = "check" => UNCHANGED clientBuf
           /\ PauseInv => \A r \in Requests : hpc[r] = "verify" => UNCHANGED serverBuf
<1> USE RequestTypes
<1>1. PICK r \in Requests : Draw(r, w) \/ Copy(r, w) \/ Return(r, w)
  BY DEF WorkerStep
<1>2. CASE Draw(r, w) \/ Return(r, w)
  BY <1>2 DEF Draw, Return, clientVars, hostVars
<1>3. CASE Copy(r, w)
  <2>1. r = req /\ cpc = "await" /\ hpc[req] = "transfer"
    BY <1>3, Current DEF Copy
  <2>2. ASSUME PauseInv, NEW q \in Requests, hpc[q] = "verify" PROVE serverBuf' = serverBuf
    <3>1. q < req /\ Pull(q)
      BY <2>1, <2>2 DEF SequenceInv, TypeOK
    <3>2. hpc[q] = "done"
      BY <2>1, <2>2, <3>1 DEF PauseInv, TypeOK
    <3> QED
      BY <2>2, <3>2
  <2> QED
    BY <2>1, <2>2
<1> QED
  BY <1>1, <1>2, <1>3

LEMMA ClientCopiedStep ==
    TypeOK /\ SequenceInv /\ FillInv /\ ClientCopied /\ [GpuNext]_allVars => ClientCopied'
<1> SUFFICES ASSUME TypeOK, SequenceInv, FillInv, ClientCopied, [GpuNext]_allVars
             PROVE  ClientCopied'
  OBVIOUS
<1> USE RankTypes
<1>1. CASE UNCHANGED <<stage, host, cpc, clientBuf>>
  BY <1>1 DEF ClientCopied
<1>2. CASE GpuMainStep
  <2>1. CASE RefuseServer
    BY <1>1, <2>1 DEF RefuseServer, Refuse, vars, clientVars
  <2>2. CASE MainStep /\ UNCHANGED gpuVars
    BY <1>1, <2>2, MainFrame DEF clientVars, gpuVars
  <2> QED
    BY <1>2, <2>1, <2>2 DEF GpuMainStep, MainStep
<1>3. ASSUME NEW w \in Workers, GpuWorkerStep(w) PROVE ClientCopied'
  <2>1. UNCHANGED <<cpc, host, stage>>
    BY <1>3, WorkerFrame DEF GpuWorkerStep, gpuVars
  <2>2. cpc = "check" => UNCHANGED clientBuf
    BY <1>3, WorkerLeavesChecked DEF GpuWorkerStep
  <2> QED
    BY <2>1, <2>2 DEF ClientCopied
<1>4. CASE GpuClientStep
  <2>1. CASE FillStagingClient \/ CopyInClient
    BY <2>1 DEF FillStagingClient, FillStaging, CopyInClient, Unstage, ClientCopied, FillInv
  <2>2. CASE CopyOutClient
    BY <2>2 DEF CopyOutClient, CopyOut, vars, clientVars, ClientCopied, FillInv, TypeOK
  <2>3. CASE GpuCheck
    <3>1. "client" \in onGpu => stage'["client"] = "none"
      BY <2>3 DEF GpuCheck, Unstage, FillInv
    <3>2. "client" \notin onGpu => stage'["client"] = "none"
      BY <2>3 DEF GpuCheck, FillInv, gpuVars
    <3> QED
      BY <3>1, <3>2 DEF ClientCopied
  <2>4. CASE RefuseClient
    BY <1>1, <2>4 DEF RefuseClient, Refuse, vars, clientVars
  <2>5. CASE FillClientHost
    BY <2>5 DEF FillClientHost, FillClient, gpuVars, ClientCopied
  <2>6. CASE (JoinGroup \/ Forward \/ Answered \/ Pause \/ Cleanup) /\ UNCHANGED gpuVars
    BY <2>6 DEF JoinGroup, Forward, Answered, Pause, NoPause, Cleanup, gpuVars, ClientCopied
  <2> QED
    BY <1>4, <2>1, <2>2, <2>3, <2>4, <2>5, <2>6 DEF GpuClientStep
<1>5. ASSUME NEW r \in Requests, GpuHandlerStep(r) PROVE ClientCopied'
  <2>1. CASE FillStagingServer(r)
    BY <2>1 DEF FillStagingServer, FillStaging, vars, clientVars, ClientCopied, FillInv
  <2>2. CASE CopyOutServer(r)
    BY <2>2 DEF CopyOutServer, CopyOut, vars, clientVars, ClientCopied, FillInv
  <2>3. CASE CopyInServer(r)
    BY <2>3 DEF CopyInServer, Unstage, clientVars, ClientCopied, FillInv
  <2>4. CASE GpuVerify(r)
    <3>1. UNCHANGED <<cpc, clientBuf, host>> /\ stage'["client"] = stage["client"]
      BY <2>4 DEF GpuVerify, Verify, Unstage, clientVars, gpuVars, FillInv
    <3> QED
      BY <3>1 DEF ClientCopied
  <2>5. CASE HandlerStep(r) /\ UNCHANGED gpuVars
    BY <1>1, <2>5, HandlerFrame DEF clientVars, gpuVars
  <2> QED
    BY <1>5, <2>1, <2>2, <2>3, <2>4, <2>5 DEF GpuHandlerStep, FillHost, HandlerStep
<1>6. CASE UNCHANGED allVars
  BY <1>1, <1>6 DEF allVars, vars, clientVars, gpuVars
<1> QED
  BY <1>2, <1>3, <1>4, <1>5, <1>6 DEF GpuNext

LEMMA ServerCopiedStep ==
    /\ TypeOK /\ SequenceInv /\ EsInv /\ PauseInv /\ FillInv /\ ServerCopied
    /\ [GpuNext]_allVars
    => ServerCopied'
<1> SUFFICES ASSUME TypeOK, SequenceInv, EsInv, PauseInv, FillInv, ServerCopied,
                    [GpuNext]_allVars
             PROVE  ServerCopied'
  OBVIOUS
<1> USE RankTypes
<1>1. CASE UNCHANGED <<stage, host, hpc, out, serverBuf>>
  BY <1>1 DEF ServerCopied, Checked
<1>2. CASE GpuMainStep
  <2>1. CASE RefuseServer
    BY <1>1, <2>1 DEF RefuseServer, Refuse, vars, hostVars
  <2>2. CASE MainStep /\ UNCHANGED gpuVars
    BY <1>1, <2>2, MainFrame DEF gpuVars
  <2> QED
    BY <1>2, <2>1, <2>2 DEF GpuMainStep, MainStep
<1>3. ASSUME NEW w \in Workers, GpuWorkerStep(w) PROVE ServerCopied'
  <2>1. UNCHANGED <<hpc, out, host, stage>>
    BY <1>3, WorkerFrame DEF GpuWorkerStep, gpuVars
  <2>2. \A r \in Requests : hpc[r] = "verify" => UNCHANGED serverBuf
    BY <1>3, WorkerLeavesChecked DEF GpuWorkerStep
  <2> QED
    BY <2>1, <2>2 DEF ServerCopied, Checked
<1>4. CASE GpuClientStep
  <2>1. CASE FillStagingClient
    BY <2>1 DEF FillStagingClient, FillStaging, vars, hostVars, ServerCopied, Checked, FillInv
  <2>2. CASE CopyOutClient
    BY <2>2 DEF CopyOutClient, CopyOut, vars, hostVars, ServerCopied, Checked, FillInv
  <2>3. CASE CopyInClient
    BY <2>3 DEF CopyInClient, Unstage, hostVars, ServerCopied, Checked, FillInv
  <2>4. CASE GpuCheck
    <3>1. UNCHANGED <<hpc, out, serverBuf, host>> /\ stage'["server"] = stage["server"]
      BY <2>4 DEF GpuCheck, Check, Unstage, hostVars, gpuVars, FillInv
    <3> QED
      BY <3>1 DEF ServerCopied, Checked
  <2>5. CASE RefuseClient
    BY <1>1, <2>5 DEF RefuseClient, Refuse, vars, hostVars
  <2>6. CASE (JoinGroup \/ FillClient \/ Answered \/ Pause \/ Cleanup) /\ UNCHANGED gpuVars
    BY <1>1, <2>6
       DEF JoinGroup, FillClient, Answered, Pause, NoPause, Cleanup, hostVars, gpuVars
  <2>7. CASE Forward /\ UNCHANGED gpuVars
    <3>1. hpc[req] = "none"
      BY <2>7 DEF Forward, SequenceInv
    <3>2. \A q \in Requests : hpc[q] = "verify" => hpc'[q] = "verify"
      BY <2>7, <3>1 DEF Forward, TypeOK
    <3>3. UNCHANGED <<stage, host, out, serverBuf>>
      BY <2>7 DEF Forward, gpuVars
    <3> QED
      BY <3>2, <3>3 DEF ServerCopied, Checked
  <2> QED
    BY <1>4, <2>1, <2>2, <2>3, <2>4, <2>5, <2>6, <2>7 DEF GpuClientStep, FillClientHost
<1>5. ASSUME NEW r \in Requests, GpuHandlerStep(r) PROVE ServerCopied'
  <2>1. CASE FillStagingServer(r)
    BY <2>1 DEF FillStagingServer, FillStaging, ServerCopied, FillInv
  <2>2. CASE CopyOutServer(r)
    <3>1. \A o \in Checked(out[r]) : host'["server"][o] = serverBuf[o]
      BY <2>2 DEF CopyOutServer, CopyOut, FillInv, Checked
    <3> QED
      BY <2>2, <3>1 DEF CopyOutServer, CopyOut, vars, hostVars, ServerCopied, Checked
  <2>3. CASE CopyInServer(r)
    BY <2>3 DEF CopyInServer, Unstage, ServerCopied, FillInv
  <2>4. CASE GpuVerify(r)
    <3>1. stage'["server"] # "copied"
      BY <2>4 DEF GpuVerify, Unstage, FillInv, gpuVars
    <3> QED
      BY <3>1 DEF ServerCopied
  <2>5. CASE (Fill(r) \/ Resume(r)) /\ UNCHANGED gpuVars
    <3>1. \A q \in Requests : hpc[q] # "verify"
      BY <2>5, RequestTypes DEF Fill, Resume, EsInv
    <3> QED
      BY <2>5, <3>1 DEF gpuVars, ServerCopied
  <2>7. CASE (Begin(r) \/ Clean(r)) /\ UNCHANGED gpuVars
    BY <2>7 DEF Begin, Clean, gpuVars, ServerCopied, Checked, TypeOK
  <2>8. CASE Respond(r) /\ UNCHANGED gpuVars
    BY <2>8 DEF Respond, RespondUnjoined, gpuVars, ServerCopied, Checked, TypeOK
  <2> QED
    BY <1>5, <2>1, <2>2, <2>3, <2>4, <2>5, <2>7, <2>8 DEF GpuHandlerStep, FillHost
<1>6. CASE UNCHANGED allVars
  BY <1>1, <1>6 DEF allVars, vars, hostVars, gpuVars
<1> QED
  BY <1>2, <1>3, <1>4, <1>5, <1>6 DEF GpuNext

-----------------------------------------------------------------------------
(* The theorems. *)

LEMMA FillInvariance == GpuSpec => Spec /\ []FillInv /\ []TypeOK
<1>1. GpuInit => Init /\ FillInv
  BY FillInit DEF GpuInit
<1>2. FillInv /\ [GpuNext]_allVars => [Next]_vars
  BY Simulation DEF Stages, Refuses, allVars
<1>3. TypeOK /\ FillInv /\ [GpuNext]_allVars => FillInv'
  BY FillStep
<1>4. Init => TypeOK /\ SequenceInv
  BY IInvInit DEF IInv
<1>5. TypeOK /\ SequenceInv /\ [Next]_vars => (TypeOK /\ SequenceInv)'
  BY TypeStep, SequenceStep
<1> QED
  BY <1>1, <1>2, <1>3, <1>4, <1>5, PTL DEF GpuSpec, Spec

(***************************************************************************)
(* On the registered buffers and in every request gpu-margo-p2p-bw does    *)
(* what margo-p2p-bw does, wherever its buffers are: every theorem about   *)
(* BwBenchmark holds for it.                                               *)
(***************************************************************************)
THEOREM ImplementsBenchmark == GpuSpec => RefinesBenchmark
  BY FillInvariance DEF RefinesBenchmark

(***************************************************************************)
(* Every variable keeps its type, those of the staging areas included.     *)
(***************************************************************************)
THEOREM GpuTypeCorrect == GpuSpec => []GpuTypeOK
<1>1. GpuInit => onGpu \subseteq Ranks /\ refused \in BOOLEAN
  BY DEF GpuInit, Modes, Ranks
<1>2. onGpu \subseteq Ranks /\ refused \in BOOLEAN /\ [GpuNext]_allVars
        => (onGpu \subseteq Ranks /\ refused \in BOOLEAN)'
  BY DEF GpuNext, GpuMainStep, RefuseServer, GpuClientStep, RefuseClient, Refuse,
         FillStagingClient, FillStaging, CopyInClient, Unstage, FillClientHost, CopyOutClient,
         CopyOut, GpuCheck, GpuWorkerStep, GpuHandlerStep, CopyOutServer, GpuVerify,
         FillStagingServer, CopyInServer, FillHost, allVars, gpuVars
<1>3. TypeOK /\ FillInv /\ onGpu \subseteq Ranks /\ refused \in BOOLEAN => GpuTypeOK
  BY DEF GpuTypeOK, FillInv
<1> QED
  BY <1>1, <1>2, <1>3, FillInvariance, PTL DEF GpuSpec

(***************************************************************************)
(* Both pattern assertions hold for a rank that evaluates them on its      *)
(* staging area, provided the pause outlasts the send of the response.     *)
(***************************************************************************)
THEOREM StagedAssertsHold == PauseOutlastsSend => (GpuSpec => []StagedAsserts)
<1> SUFFICES ASSUME PauseOutlastsSend PROVE GpuSpec => []StagedAsserts
  OBVIOUS
<1>1. GpuInit => ClientCopied /\ ServerCopied
  BY RankTypes DEF GpuInit, ClientCopied, ServerCopied
<1>2. /\ TypeOK /\ SequenceInv /\ EsInv /\ PauseInv /\ FillInv
      /\ ClientCopied /\ ServerCopied /\ [GpuNext]_allVars
      => (ClientCopied /\ ServerCopied)'
  BY ClientCopiedStep, ServerCopiedStep
<1>3. IInv /\ PausedInv => TypeOK /\ SequenceInv /\ EsInv /\ PauseInv
  BY DEF IInv, PausedInv
<1>4. EsInv /\ ServerAssert /\ ClientAssert /\ ClientCopied /\ ServerCopied => StagedAsserts
  <2> SUFFICES ASSUME EsInv, ServerAssert, ClientAssert, ClientCopied, ServerCopied
               PROVE  StagedAsserts
    OBVIOUS
  <2>1. ASSUME stage["server"] = "copied", NEW r \in Requests, hpc[r] = "verify",
               NEW o \in Checked(out[r])
        PROVE  host["server"][o] = "base"
    <3>1. PICK q \in Requests :
             /\ hpc[q] = "verify"
             /\ \A p \in Checked(out[q]) : host["server"][p] = serverBuf[p]
      BY <2>1 DEF ServerCopied
    <3>2. q = r
      BY <2>1, <3>1 DEF EsInv
    <3> QED
      BY <2>1, <3>1, <3>2 DEF ServerAssert
  <2>2. ASSUME stage["client"] = "copied"
        PROVE  cpc = "check" /\ \A o \in Checked(out[req]) : host["client"][o] = "plus1"
    BY <2>2 DEF ClientCopied, ClientAssert, Checked
  <2> QED
    BY <2>1, <2>2 DEF StagedAsserts
<1>5. Spec => []ServerAssert
  BY ServerAssertHolds
<1>6. Spec => []ClientAssert
  BY ClientAssertHolds
<1> QED
  BY <1>1, <1>2, <1>3, <1>4, <1>5, <1>6, FillInvariance, Invariance, PTL DEF GpuSpec

-----------------------------------------------------------------------------
(* Deadlock.  A staging area holds something only for the step that comes  *)
(* next: the copy in, or the check.                                        *)
StageInv ==
    /\ stage["client"] = "filled" => cpc = "fill"
    /\ stage["client"] = "copied" => cpc = "check"
    /\ stage["server"] = "filled" => \E r \in Requests : hpc[r] = "fill"
    /\ stage["server"] = "copied" => \E r \in Requests : hpc[r] = "verify"

LEMMA StageStep ==
    TypeOK /\ SequenceInv /\ EsInv /\ FillInv /\ StageInv /\ [GpuNext]_allVars => StageInv'
<1> SUFFICES ASSUME TypeOK, SequenceInv, EsInv, FillInv, StageInv, [GpuNext]_allVars
             PROVE  StageInv'
  OBVIOUS
<1> USE RankTypes
<1>1. CASE UNCHANGED <<stage, cpc, hpc>>
  BY <1>1 DEF StageInv
<1>2. CASE GpuMainStep
  <2>1. UNCHANGED <<stage, cpc, hpc>>
    BY <1>2, MainFrame DEF GpuMainStep, MainStep, RefuseServer, Refuse, vars, clientVars,
       hostVars, gpuVars
  <2> QED
    BY <1>1, <2>1
<1>3. ASSUME NEW w \in Workers, GpuWorkerStep(w) PROVE StageInv'
  <2>1. UNCHANGED <<stage, cpc, hpc>>
    BY <1>3, WorkerFrame DEF GpuWorkerStep, gpuVars
  <2> QED
    BY <1>1, <2>1
<1>4. CASE GpuClientStep
  <2>1. CASE FillStagingClient
    BY <2>1 DEF FillStagingClient, FillStaging, vars, clientVars, hostVars, StageInv, FillInv
  <2>2. CASE CopyOutClient
    BY <2>2 DEF CopyOutClient, CopyOut, vars, clientVars, hostVars, StageInv, FillInv
  <2>3. CASE CopyInClient
    BY <2>3 DEF CopyInClient, Unstage, hostVars, StageInv, FillInv
  <2>4. CASE GpuCheck
    <3>1. stage'["client"] = "none" /\ stage'["server"] = stage["server"] /\ UNCHANGED hpc
      <4>1. CASE "client" \in onGpu
        BY <2>4, <4>1 DEF GpuCheck, Check, Unstage, hostVars, FillInv
      <4>2. CASE "client" \notin onGpu
        BY <2>4, <4>2 DEF GpuCheck, Check, gpuVars, hostVars, FillInv
      <4> QED
        BY <4>1, <4>2
    <3> QED
      BY <3>1 DEF StageInv
  <2>5. CASE RefuseClient
    BY <1>1, <2>5 DEF RefuseClient, Refuse, vars, clientVars, hostVars
  <2>6. CASE FillClientHost
    BY <2>6 DEF FillClientHost, FillClient, gpuVars, hostVars, StageInv, FillInv
  <2>7. CASE (JoinGroup \/ Answered \/ Pause \/ Cleanup) /\ UNCHANGED gpuVars
    BY <2>7 DEF JoinGroup, Answered, Pause, NoPause, Cleanup, gpuVars, hostVars, StageInv
  <2>8. CASE Forward /\ UNCHANGED gpuVars
    <3>1. hpc[req] = "none"
      BY <2>8 DEF Forward, SequenceInv
    <3>2. \A q \in Requests : hpc[q] \in {"verify", "fill"} => hpc'[q] = hpc[q]
      BY <2>8, <3>1 DEF Forward, TypeOK
    <3>3. cpc = "forward" /\ UNCHANGED stage
      BY <2>8 DEF Forward, gpuVars
    <3> QED
      BY <3>2, <3>3 DEF StageInv
  <2> QED
    BY <1>4, <2>1, <2>2, <2>3, <2>4, <2>5, <2>6, <2>7, <2>8 DEF GpuClientStep
<1>5. ASSUME NEW r \in Requests, GpuHandlerStep(r) PROVE StageInv'
  <2>1. CASE FillStagingServer(r)
    BY <2>1 DEF FillStagingServer, FillStaging, vars, clientVars, hostVars, StageInv, FillInv
  <2>2. CASE CopyOutServer(r)
    BY <2>2 DEF CopyOutServer, CopyOut, vars, clientVars, hostVars, StageInv, FillInv
  <2>3. CASE CopyInServer(r)
    BY <2>3 DEF CopyInServer, Unstage, clientVars, StageInv, FillInv
  <2>4. CASE GpuVerify(r)
    <3>1. stage'["server"] = "none" /\ stage'["client"] = stage["client"] /\ UNCHANGED cpc
      <4>1. CASE "server" \in onGpu
        BY <2>4, <4>1 DEF GpuVerify, Verify, Unstage, clientVars, FillInv
      <4>2. CASE "server" \notin onGpu
        BY <2>4, <4>2 DEF GpuVerify, Verify, gpuVars, clientVars, FillInv
      <4> QED
        BY <4>1, <4>2
    <3> QED
      BY <3>1 DEF StageInv
  <2>5. CASE FillHost(r)
    BY <2>5 DEF FillHost, Fill, clientVars, gpuVars, StageInv, FillInv
  <2>6. CASE (Begin(r) \/ Respond(r) \/ Resume(r) \/ Clean(r)) /\ UNCHANGED gpuVars
    <3>1. \A q \in Requests : hpc[q] \in {"verify", "fill"} => hpc'[q] = hpc[q]
      BY <2>6 DEF Begin, Respond, RespondUnjoined, Resume, Clean, TypeOK
    <3>2. UNCHANGED <<cpc, stage>>
      BY <2>6 DEF Begin, Respond, RespondUnjoined, Resume, Clean, clientVars, gpuVars
    <3> QED
      BY <3>1, <3>2 DEF StageInv
  <2> QED
    BY <1>5, <2>1, <2>2, <2>3, <2>4, <2>5, <2>6 DEF GpuHandlerStep
<1>6. CASE UNCHANGED allVars
  BY <1>1, <1>6 DEF allVars, vars, clientVars, hostVars, gpuVars
<1> QED
  BY <1>2, <1>3, <1>4, <1>5, <1>6 DEF GpuNext

(* The guards of the client and of the handlers where a rank may be on the *)
(* GPU.                                                                    *)
GpuCanAsk ==
    \/ cpc \notin {"fill", "check"} /\ CanAsk
    \/ cpc = "fill" /\ ("client" \in onGpu => stage["client"] \in {"none", "filled"})
    \/ cpc = "check" /\ ("client" \in onGpu => stage["client"] \in {"none", "copied"})

GpuCanHandle(r) ==
    \/ hpc[r] \notin {"verify", "fill"} /\ CanHandle(r)
    \/ hpc[r] = "verify" /\ ("server" \in onGpu => stage["server"] \in {"none", "copied"})
    \/ hpc[r] = "fill" /\ ("server" \in onGpu => stage["server"] \in {"none", "filled"})

GpuNeverStuck ==
    \/ refused
    \/ cpc = "exit" /\ mpc = "exit"
    \/ CanMain \/ GpuCanAsk
    \/ \E w \in Workers : CanMove(w)
    \/ \E r \in Requests : GpuCanHandle(r)

(***************************************************************************)
(* Staging blocks nobody: whichever ranks have their buffer on the GPU,    *)
(* somebody can take a step until both have left or a registration was     *)
(* refused.                                                                *)
(***************************************************************************)
THEOREM GpuSomebodyCanGoOn == GpuSpec => []GpuNeverStuck
<1>1. GpuInit => StageInv
  BY RankTypes DEF GpuInit, StageInv
<1>2. TypeOK /\ SequenceInv /\ EsInv /\ FillInv /\ StageInv /\ NeverStuck => GpuNeverStuck
  <2> SUFFICES ASSUME TypeOK, EsInv, FillInv, StageInv, NeverStuck PROVE GpuNeverStuck
    OBVIOUS
  <2>1. CanAsk => GpuCanAsk
    BY RankTypes DEF CanAsk, GpuCanAsk, StageInv, FillInv
  <2>2. ASSUME NEW r \in Requests, CanHandle(r) PROVE GpuCanHandle(r)
    <3>1. CASE hpc[r] \notin {"verify", "fill"}
      BY <2>2, <3>1 DEF GpuCanHandle
    <3>2. CASE hpc[r] = "verify"
      <4>1. \A q \in Requests : hpc[q] # "fill"
        BY <3>2 DEF EsInv
      <4> QED
        BY <3>2, <4>1, RankTypes DEF GpuCanHandle, StageInv, FillInv
    <3>3. CASE hpc[r] = "fill"
      <4>1. \A q \in Requests : hpc[q] # "verify"
        BY <3>3 DEF EsInv
      <4> QED
        BY <3>3, <4>1, RankTypes DEF GpuCanHandle, StageInv, FillInv
    <3> QED
      BY <3>1, <3>2, <3>3
  <2> QED
    BY <2>1, <2>2 DEF NeverStuck, GpuNeverStuck
<1>3. IInv => TypeOK /\ SequenceInv /\ EsInv
  BY DEF IInv
<1> QED
  BY <1>1, <1>2, <1>3, StageStep, FillInvariance, Invariance, SomebodyCanGoOn, PTL DEF GpuSpec

(* A step of margo-p2p-bw brings the run nearer to its end, and between    *)
(* two of them each rank stages at most once.                              *)
GpuWindsDown == [][Ahead \/ Stages \/ Refuses]_allVars

(***************************************************************************)
(* Nor does staging go on for ever: gpu-margo-p2p-bw winds down like       *)
(* margo-p2p-bw.                                                           *)
(***************************************************************************)
THEOREM GpuRunWindsDown == GpuSpec => GpuWindsDown
<1>1. FillInv /\ [GpuNext]_allVars => [Next \/ Stages \/ Refuses]_allVars
  BY Simulation
<1>2. IInv /\ LiveInv /\ Next => Ahead
  BY NextAhead
<1>3. IInv /\ LiveInv /\ FillInv /\ [GpuNext]_allVars
        => [Ahead \/ Stages \/ Refuses]_allVars
  BY <1>1, <1>2
<1> QED
  BY <1>3, FillInvariance, Invariance, LiveInvariance, PTL DEF GpuSpec, GpuWindsDown
=============================================================================
