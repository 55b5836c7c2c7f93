------------------------- MODULE BwBenchmark_proofs -------------------------
(***************************************************************************)
(* Proofs about BwBenchmark for every number of workers, slots and rounds. *)
(***************************************************************************)
EXTENDS BwBenchmark, TLAPS

AnsweredPc == {"responding", "verify", "fill", "clean", "done"}

(* Who has the server's primary ES. *)
EsInv ==
    /\ running = Main <=> mpc \in {"boot", "prep", "release"}
    /\ \A r \in Requests : running = r <=> hpc[r] \in {"verify", "fill", "clean"}

(* Handlers wait for main's set-up, which ends with the eventual.          *)
ReadyInv ==
    /\ mpc \in {"boot", "prep"} => \A r \in Requests : hpc[r] \in {"none", "sent"}
    /\ mpc \notin {"boot", "prep"} => "eventual" \in live

(* Requests are made one after the other; PULLs are odd, PUSHes even.      *)
SequenceInv ==
    /\ \A q \in Requests : /\ q > req => hpc[q] = "none"
                           /\ q < req => hpc[q] \in AnsweredPc
                           /\ hpc[q] \in {"verify", "fill"} => Pull(q)
    /\ cpc \in {"boot", "fill", "forward"} => hpc[req] = "none"
    /\ cpc = "await" => hpc[req] # "none"
    /\ cpc \in {"pause", "check", "cleanup", "exit"} => hpc[req] \in AnsweredPc
    /\ cpc \in {"boot", "fill", "pause"} => Pull(req)
    /\ cpc = "check" => ~Pull(req)
    /\ cpc \in {"cleanup", "exit"} => req = 2 * Rounds

(* Offsets are held only by workers of the request in transfer. *)
HoldInv ==
    \A w \in Workers :
        holds[w] # None => w \notin finished /\ hpc[req] = "transfer"

(* The pause: the handler of a PULL is done when the next request begins.  *)
PauseInv ==
    \A q \in Requests :
        q < req /\ Pull(q) =>
            /\ hpc[q] # "responding"
            /\ hpc[req] \notin {"none", "sent"} => hpc[q] = "done"

(* The shutdown request is the last and has been handled when main wakes.  *)
ShutdownInv ==
    /\ eventual => hpc[2 * Rounds] = "done"
    /\ mpc \in {"release", "exit"} =>
           \A r \in Requests : Pull(r) \/ Shutdown(r) => hpc[r] = "done"

(* The tickets of the current transfer: the first one is 0, and those      *)
(* before the wrap follow each other without a hole.                       *)
TicketInv ==
    hpc[req] = "transfer" => Covered /\ (taken < Slots => next = taken * Step)

AllAre(buf, pattern) == \A o \in Offsets : buf[o] = pattern

(* What the transfers read: the client's pattern during a PULL, the        *)
(* server's fill from there to the end of the PUSH.                        *)
SourceInv ==
    /\ Pull(req) /\ cpc \in {"forward", "await"} => AllAre(clientBuf, "base")
    /\ \A q \in Requests :
           Pull(q) /\ hpc[q] \in {"clean", "done"} /\ (q = req \/ q + 1 = req)
               => AllAre(serverBuf, "plus1")

(* What they have written. *)
CopyInv ==
    hpc[req] = "transfer" =>
        \A o \in moved : IF Pull(req) THEN serverBuf[o] = "base" ELSE clientBuf[o] = "plus1"

(* It stays there until it is checked. *)
CheckedInv ==
    /\ \A r \in Requests :
           Pull(r) /\ hpc[r] \in {"responding", "verify"}
               => \A o \in Checked(out[r]) : serverBuf[o] = "base"
    /\ ~Pull(req) /\ hpc[req] \in AnsweredPc /\ cpc \in {"await", "check"}
           => \A o \in Checked(out[req]) : clientBuf[o] = "plus1"

-----------------------------------------------------------------------------
(* Requests and their parity. *)
LEMMA RequestTypes ==
    /\ Rounds \in Nat \ {0} /\ Slots \in Nat \ {0} /\ Step \in Nat \ {0}
    /\ MaxTakes \in Nat
    /\ 1 \in Requests /\ 2 * Rounds \in Requests
    /\ Requests \subseteq Nat \ {0}
    /\ Main \notin Requests /\ Idle \notin Requests /\ Main # Idle
  BY BenchmarkAssumption DEF Requests, Main, Idle

LEMMA Parity == ASSUME NEW r \in Nat PROVE Pull(r + 1) <=> ~Pull(r)
  BY DEF Pull

LEMMA LastIsPush == ~Pull(2 * Rounds)
<1>1. Rounds \in Nat
  BY RequestTypes
<1>2. ASSUME NEW n \in Nat PROVE (2 * n) % 2 = 0
  OBVIOUS
<1> QED
  BY <1>1, <1>2 DEF Pull

LEMMA FirstIsPull == Pull(1)
  BY DEF Pull

(* A PULL is followed by a PUSH. *)
LEMMA PullHasNext ==
    ASSUME NEW r \in Requests, Pull(r) PROVE r + 1 \in Requests /\ ~Pull(r + 1)
<1>1. r # 2 * Rounds
  BY LastIsPush
<1> QED
  BY <1>1, Parity, RequestTypes DEF Requests

-----------------------------------------------------------------------------
(* Type correctness. *)

(* The next ticket stays in the ring. *)
LEMMA NextOffsetType ==
    ASSUME NEW o \in Offsets, o # (Slots - 1) * Step
    PROVE  o + Step \in Offsets
<1>1. PICK k \in 0..(Slots - 1) : o = k * Step
  BY DEF Offsets
<1>2. k # Slots - 1
  BY <1>1
<1>3. k + 1 \in 0..(Slots - 1) /\ o + Step = (k + 1) * Step
  BY <1>1, <1>2, RequestTypes
<1> QED
  BY <1>3 DEF Offsets

LEMMA OffsetsAreNat == Offsets \subseteq Nat /\ 0 \in Offsets
<1>1. ASSUME NEW o \in Offsets PROVE o \in Nat
  <2>1. PICK k \in 0..(Slots - 1) : o = k * Step
    BY DEF Offsets
  <2> QED
    BY <2>1, RequestTypes
<1>2. 0 \in 0..(Slots - 1) /\ 0 * Step = 0
  BY RequestTypes
<1>3. 0 \in Offsets
  BY <1>2 DEF Offsets
<1> QED
  BY <1>1, <1>3

LEMMA TypeInit == Init => TypeOK
<1> SUFFICES ASSUME Init PROVE TypeOK
  OBVIOUS
<1>1. RingTypeOK
  BY OffsetsAreNat DEF Init, RingInit, RingTypeOK
<1> QED
  BY <1>1, RequestTypes DEF Init, TypeOK, Pattern, Prepared

(* What each step leaves alone, by who takes it. *)
LEMMA MainFrame ==
    ASSUME MainStep
    PROVE  UNCHANGED <<ringVars, clientVars, serverBuf, eventual, hpc, out, finished>>
  BY DEF MainStep, Broadcast, Prepare, Wake, Release, hostVars

LEMMA ClientFrame ==
    ASSUME ClientStep
    PROVE  UNCHANGED <<ringVars, mpc, live, running, serverBuf, eventual, out, finished>>
  BY DEF ClientStep, JoinGroup, FillClient, Forward, Answered, Pause, NoPause, Check, Cleanup,
         mainVars, hostVars, GiveBack

LEMMA WorkerFrame ==
    ASSUME NEW w \in Workers, WorkerStep(w)
    PROVE  UNCHANGED <<cpc, req, mainVars, eventual, hpc, out>>
  BY DEF WorkerStep, Draw, Copy, Return, clientVars, hostVars

LEMMA HandlerFrame ==
    ASSUME NEW r \in Requests, HandlerStep(r)
    PROVE  UNCHANGED <<clientVars, mpc, live, released>>
  BY DEF HandlerStep, Begin, Respond, RespondUnjoined, Resume, Verify, Fill, Clean, mainVars

LEMMA TypeStep == TypeOK /\ SequenceInv /\ [Next]_vars => TypeOK'
<1> SUFFICES ASSUME TypeOK, SequenceInv, [Next]_vars PROVE TypeOK'
  OBVIOUS
<1> USE RequestTypes DEF TypeOK, Pattern, Prepared
<1>1. CASE MainStep
  <2>1. RingTypeOK'
    BY <1>1, MainFrame DEF RingTypeOK, ringVars
  <2>2. /\ UNCHANGED <<cpc, req, clientBuf, serverBuf, eventual, hpc, out, finished>>
    BY <1>1, MainFrame DEF clientVars
  <2>3. CASE Broadcast \/ Wake
    BY <2>1, <2>2, <2>3 DEF Broadcast, Wake
  <2>4. CASE Prepare
    BY <2>1, <2>2, <2>4 DEF Prepare
  <2>5. CASE Release
    BY <2>1, <2>2, <2>5 DEF Release, GiveBack
  <2> QED
    BY <1>1, <2>3, <2>4, <2>5 DEF MainStep
<1>2. CASE ClientStep
  <2>1. RingTypeOK'
    BY <1>2, ClientFrame DEF RingTypeOK, ringVars
  <2>2. req' \in Requests
    <3>1. CASE Pause
      BY <3>1, PullHasNext DEF Pause, NoPause, SequenceInv
    <3>2. CASE Check
      BY <3>2 DEF Check, Requests
    <3>3. CASE JoinGroup \/ FillClient \/ Forward \/ Answered \/ Cleanup
      BY <3>3 DEF JoinGroup, FillClient, Forward, Answered, Cleanup
    <3> QED
      BY <1>2, <3>1, <3>2, <3>3 DEF ClientStep
  <2>3. /\ cpc' \in {"boot", "fill", "forward", "await", "pause", "check", "cleanup", "exit"}
        /\ clientBuf' \in [Offsets -> Pattern]
        /\ hpc' \in [Requests -> {"none", "sent", "transfer", "responding", "verify",
                             "fill", "clean", "done"}]
        /\ released' \in [{"client", "server"} -> {"no", "heap", "mmap"}]
    BY <1>2 DEF ClientStep, JoinGroup, FillClient, Forward, Answered, Pause, NoPause, Check,
                Cleanup, GiveBack, mainVars, hostVars
  <2> QED
    BY <1>2, <2>1, <2>2, <2>3, ClientFrame
<1>3. ASSUME NEW w \in Workers, WorkerStep(w) PROVE TypeOK'
  <2>1. ASSUME NEW r \in Requests, Draw(r, w) PROVE TypeOK'
    <3>1. RingTypeOK'
      BY <2>1, NextOffsetType, OffsetsAreNat DEF Draw, Take, RingTypeOK
    <3> QED
      BY <2>1, <3>1 DEF Draw, clientVars, mainVars, hostVars
  <2>2. ASSUME NEW r \in Requests, Copy(r, w) PROVE TypeOK'
    <3>1. RingTypeOK' /\ holds[w] \in Offsets
      BY <2>2 DEF Copy, Move, RingTypeOK
    <3> QED
      BY <2>2, <3>1 DEF Copy, mainVars
  <2>3. ASSUME NEW r \in Requests, Return(r, w) PROVE TypeOK'
    <3>1. RingTypeOK'
      BY <2>3 DEF Return, RingTypeOK, ringVars
    <3> QED
      BY <2>3, <3>1 DEF Return, clientVars, mainVars
  <2> QED
    BY <1>3, <2>1, <2>2, <2>3 DEF WorkerStep
<1>4. ASSUME NEW r \in Requests, HandlerStep(r) PROVE TypeOK'
  <2>1. CASE Begin(r)
    <3>1. RingTypeOK'
      BY <2>1, OffsetsAreNat DEF Begin, RingTypeOK
    <3> QED
      BY <2>1, <3>1 DEF Begin, clientVars, mainVars
  <2>2. CASE ~Begin(r)
    <3>1. RingTypeOK'
      BY <1>4, <2>2 DEF HandlerStep, Respond, RespondUnjoined, Resume, Verify, Fill, Clean,
                        RingTypeOK, ringVars
    <3>2. UNCHANGED <<cpc, req, clientBuf, mpc, live, released>>
      BY <1>4, HandlerFrame DEF clientVars
    <3>3. CASE Respond(r)
      <4>1. taken \in Nat
        BY DEF RingTypeOK
      <4> QED
        BY <3>1, <3>2, <3>3, <4>1 DEF Respond, RespondUnjoined, mainVars
    <3>4. CASE Resume(r)
      BY <3>1, <3>2, <3>4 DEF Resume
    <3>5. CASE Verify(r)
      BY <3>1, <3>2, <3>5 DEF Verify, mainVars
    <3>6. CASE Fill(r)
      BY <3>1, <3>2, <3>6 DEF Fill, mainVars
    <3>7. CASE Clean(r)
      BY <3>1, <3>2, <3>7 DEF Clean
    <3> QED
      BY <1>4, <2>2, <3>3, <3>4, <3>5, <3>6, <3>7 DEF HandlerStep
  <2> QED
    BY <2>1, <2>2
<1>5. CASE UNCHANGED vars
  <2>1. RingTypeOK'
    BY <1>5 DEF vars, ringVars, RingTypeOK
  <2> QED
    BY <1>5, <2>1 DEF vars, clientVars, mainVars, hostVars
<1> QED
  BY <1>1, <1>2, <1>3, <1>4, <1>5 DEF Next

-----------------------------------------------------------------------------
(* Control: each part of the invariant, step by step. *)

(* Only the request the client waits for can be in transfer or just sent. *)
LEMMA Current ==
    ASSUME TypeOK, SequenceInv, NEW r \in Requests, hpc[r] \in {"sent", "transfer"}
    PROVE  r = req /\ cpc = "await"
<1>1. r = req
  BY RequestTypes DEF SequenceInv, TypeOK, AnsweredPc
<1> QED
  BY <1>1 DEF SequenceInv, TypeOK, AnsweredPc

LEMMA EsStep ==
    TypeOK /\ SequenceInv /\ EsInv /\ [Next]_vars => EsInv'
<1> SUFFICES ASSUME TypeOK, SequenceInv, EsInv, [Next]_vars PROVE EsInv'
  OBVIOUS
<1> USE RequestTypes DEF TypeOK, EsInv
<1>1. CASE MainStep
  <2>1. UNCHANGED hpc
    BY <1>1, MainFrame
  <2> QED
    BY <1>1, <2>1 DEF MainStep, Broadcast, Prepare, Wake, Release
<1>2. CASE Forward
  BY <1>2 DEF Forward, mainVars, SequenceInv
<1>3. CASE ClientStep /\ ~Forward
  <2>1. UNCHANGED <<hpc, mpc, running>>
    BY <1>3, ClientFrame DEF ClientStep, JoinGroup, FillClient, Answered, Pause, NoPause,
       Check, Cleanup, hostVars
  <2> QED
    BY <2>1
<1>4. ASSUME NEW w \in Workers, WorkerStep(w) PROVE EsInv'
  BY <1>4, WorkerFrame DEF mainVars
<1>5. ASSUME NEW r \in Requests, Begin(r) \/ Respond(r) PROVE EsInv'
  BY <1>5 DEF Begin, Respond, RespondUnjoined, mainVars
<1>6. ASSUME NEW r \in Requests, Resume(r) PROVE EsInv'
  BY <1>6 DEF Resume
<1>7. ASSUME NEW r \in Requests, Verify(r) \/ Fill(r) PROVE EsInv'
  BY <1>7 DEF Verify, Fill, mainVars
<1>8. ASSUME NEW r \in Requests, Clean(r) PROVE EsInv'
  BY <1>8 DEF Clean
<1>9. CASE UNCHANGED vars
  BY <1>9 DEF vars, mainVars, hostVars
<1> QED
  BY <1>1, <1>2, <1>3, <1>4, <1>5, <1>6, <1>7, <1>8, <1>9 DEF Next, HandlerStep

LEMMA ReadyStep ==
    TypeOK /\ SequenceInv /\ EsInv /\ ReadyInv /\ [Next]_vars => ReadyInv'
<1> SUFFICES ASSUME TypeOK, SequenceInv, EsInv, ReadyInv, [Next]_vars PROVE ReadyInv'
  OBVIOUS
<1> USE RequestTypes DEF TypeOK, ReadyInv
<1>1. CASE MainStep
  <2>1. UNCHANGED hpc
    BY <1>1, MainFrame
  <2> QED
    BY <1>1, <2>1 DEF MainStep, Broadcast, Prepare, Wake, Release, Prepared
<1>2. CASE ClientStep
  <2>1. UNCHANGED <<mpc, live>> /\ \A r \in Requests : hpc'[r] = hpc[r] \/ hpc'[r] = "sent"
    BY <1>2, ClientFrame DEF ClientStep, JoinGroup, FillClient, Forward, Answered, Pause,
       NoPause, Check, Cleanup, hostVars
  <2> QED
    BY <2>1
<1>3. ASSUME NEW w \in Workers, WorkerStep(w) PROVE ReadyInv'
  BY <1>3, WorkerFrame DEF mainVars
<1>4. ASSUME NEW r \in Requests, HandlerStep(r) PROVE ReadyInv'
  <2>1. mpc \notin {"boot", "prep"}
    BY <1>4 DEF HandlerStep, Begin, Respond, RespondUnjoined, Resume, Verify, Fill, Clean, EsInv
  <2> QED
    BY <1>4, <2>1, HandlerFrame
<1>5. CASE UNCHANGED vars
  BY <1>5 DEF vars, mainVars, hostVars
<1> QED
  BY <1>1, <1>2, <1>3, <1>4, <1>5 DEF Next

LEMMA SequenceStep == TypeOK /\ SequenceInv /\ [Next]_vars => SequenceInv'
<1> SUFFICES ASSUME TypeOK, SequenceInv, [Next]_vars PROVE SequenceInv'
  OBVIOUS
<1> USE RequestTypes DEF TypeOK, SequenceInv, AnsweredPc
<1>1. CASE MainStep
  BY <1>1, MainFrame DEF clientVars
<1>2. CASE JoinGroup \/ FillClient \/ Forward \/ Answered
  BY <1>2 DEF JoinGroup, FillClient, Forward, Answered, hostVars
<1>3. CASE Pause
  <2>1. /\ req' = req + 1 /\ cpc' = "forward" /\ UNCHANGED hpc
        /\ Pull(req) /\ hpc[req] \in AnsweredPc
    BY <1>3 DEF Pause, NoPause, hostVars
  <2>2. req' \in Requests
    BY <2>1, PullHasNext
  <2> QED
    BY <2>1, <2>2
<1>4. CASE Check
  <2>1. /\ UNCHANGED hpc /\ ~Pull(req) /\ hpc[req] \in AnsweredPc
    BY <1>4 DEF Check, hostVars
  <2>2. CASE req = 2 * Rounds
    BY <1>4, <2>1, <2>2 DEF Check
  <2>3. CASE req # 2 * Rounds
    <3>1. req' = req + 1 /\ cpc' = "fill"
      BY <1>4, <2>3 DEF Check
    <3>2. req' \in Requests /\ Pull(req')
      BY <2>1, <2>3, <3>1, Parity DEF Requests
    <3> QED
      BY <2>1, <3>1, <3>2
  <2> QED
    BY <2>2, <2>3
<1>5. CASE Cleanup
  BY <1>5 DEF Cleanup, hostVars
<1>6. ASSUME NEW w \in Workers, WorkerStep(w) PROVE SequenceInv'
  BY <1>6, WorkerFrame
<1>7. ASSUME NEW r \in Requests, HandlerStep(r) PROVE SequenceInv'
  <2>1. UNCHANGED <<cpc, req>>
    BY <1>7, HandlerFrame DEF clientVars
  <2>2. CASE Begin(r)
    <3>1. r = req /\ cpc = "await"
      BY <2>2, Current DEF Begin
    <3> QED
      BY <2>1, <2>2, <3>1 DEF Begin
  <2>3. CASE Respond(r)
    <3>1. r = req /\ cpc = "await"
      BY <2>3, Current DEF Respond, RespondUnjoined
    <3> QED
      BY <2>1, <2>3, <3>1 DEF Respond, RespondUnjoined
  <2>4. CASE Resume(r)
    BY <2>1, <2>4 DEF Resume
  <2>5. CASE Verify(r) \/ Fill(r) \/ Clean(r)
    BY <2>1, <2>5 DEF Verify, Fill, Clean
  <2> QED
    BY <1>7, <2>2, <2>3, <2>4, <2>5 DEF HandlerStep
<1>8. CASE UNCHANGED vars
  BY <1>8 DEF vars, clientVars, hostVars
<1> QED
  BY <1>1, <1>2, <1>3, <1>4, <1>5, <1>6, <1>7, <1>8 DEF Next, ClientStep

LEMMA HoldStep ==
    TypeOK /\ SequenceInv /\ HoldInv /\ [Next]_vars => HoldInv'
<1> SUFFICES ASSUME TypeOK, SequenceInv, HoldInv, [Next]_vars PROVE HoldInv'
  OBVIOUS
<1> USE RequestTypes DEF TypeOK, RingTypeOK, HoldInv
<1>1. CASE MainStep
  BY <1>1, MainFrame DEF clientVars, ringVars
<1>2. CASE ClientStep
  <2>1. UNCHANGED <<holds, finished>>
    BY <1>2, ClientFrame DEF ringVars
  <2>2. CASE hpc[req] = "transfer"
    <3>1. cpc = "await"
      BY <2>2, Current
    <3>2. UNCHANGED <<req, hpc>>
      BY <1>2, <3>1 DEF ClientStep, JoinGroup, FillClient, Forward, Answered, Pause, NoPause,
                        Check, Cleanup, hostVars
    <3> QED
      BY <2>1, <3>2
  <2>3. CASE hpc[req] # "transfer"
    BY <2>1, <2>3
  <2> QED
    BY <2>2, <2>3
<1>3. ASSUME NEW w \in Workers, WorkerStep(w) PROVE HoldInv'
  <2>1. UNCHANGED <<req, hpc>>
    BY <1>3, WorkerFrame
  <2>2. ASSUME NEW r \in Requests, Draw(r, w) PROVE HoldInv'
    <3>1. hpc[req] = "transfer"
      BY <2>2, Current DEF Draw
    <3> QED
      BY <2>1, <2>2, <3>1 DEF Draw, Take, hostVars
  <2>3. ASSUME NEW r \in Requests, Copy(r, w) PROVE HoldInv'
    BY <2>1, <2>3 DEF Copy, Move
  <2>4. ASSUME NEW r \in Requests, Return(r, w) PROVE HoldInv'
    BY <2>1, <2>4 DEF Return, ringVars
  <2> QED
    BY <1>3, <2>2, <2>3, <2>4 DEF WorkerStep
<1>4. ASSUME NEW r \in Requests, HandlerStep(r) PROVE HoldInv'
  <2>1. UNCHANGED req
    BY <1>4, HandlerFrame DEF clientVars
  <2>2. CASE Begin(r)
    BY <2>2 DEF Begin
  <2>3. CASE Respond(r)
    <3>1. \A w \in Workers : holds[w] = None
      BY <2>3 DEF Respond
    <3> QED
      BY <2>3, <3>1 DEF Respond, RespondUnjoined, ringVars
  <2>4. CASE Resume(r) \/ Verify(r) \/ Fill(r) \/ Clean(r)
    BY <2>1, <2>4 DEF Resume, Verify, Fill, Clean, ringVars
  <2> QED
    BY <1>4, <2>2, <2>3, <2>4 DEF HandlerStep
<1>5. CASE UNCHANGED vars
  BY <1>5 DEF vars, clientVars, hostVars, ringVars
<1> QED
  BY <1>1, <1>2, <1>3, <1>4, <1>5 DEF Next

LEMMA PauseStep ==
    /\ PauseOutlastsSend
    /\ TypeOK /\ SequenceInv /\ EsInv /\ PauseInv
    /\ [Next]_vars
    => PauseInv'
<1> SUFFICES ASSUME PauseOutlastsSend, TypeOK, SequenceInv, EsInv, PauseInv, [Next]_vars
             PROVE  PauseInv'
  OBVIOUS
<1> USE RequestTypes DEF TypeOK, PauseInv
<1>1. CASE MainStep
  BY <1>1, MainFrame DEF clientVars
<1>2. CASE JoinGroup \/ FillClient \/ Answered \/ Cleanup
  BY <1>2 DEF JoinGroup, FillClient, Answered, Cleanup, hostVars
<1>3. CASE Forward
  BY <1>3 DEF Forward
<1>4. CASE Pause
  <2>1. /\ req' = req + 1 /\ UNCHANGED hpc /\ hpc[req] \in AnsweredPc
        /\ hpc[req] # "responding" /\ Pull(req) /\ req + 1 \in Requests
    BY <1>4, PullHasNext DEF Pause, NoPause, SequenceInv, hostVars
  <2>2. hpc[req + 1] = "none"
    BY <2>1 DEF SequenceInv
  <2> QED
    BY <2>1, <2>2
<1>5. CASE Check
  <2>1. UNCHANGED hpc /\ ~Pull(req) /\ hpc[req] \in AnsweredPc
    BY <1>5 DEF Check, SequenceInv, hostVars
  <2>2. CASE req' = req
    BY <2>1, <2>2
  <2>3. CASE req' # req
    <3>1. req' = req + 1 /\ req + 1 \in Requests
      BY <1>5, <2>3 DEF Check, Requests
    <3>2. hpc[req + 1] = "none"
      BY <3>1 DEF SequenceInv
    <3> QED
      BY <2>1, <3>1, <3>2 DEF AnsweredPc
  <2> QED
    BY <2>2, <2>3
<1>6. ASSUME NEW w \in Workers, WorkerStep(w) PROVE PauseInv'
  BY <1>6, WorkerFrame
<1>7. ASSUME NEW r \in Requests, HandlerStep(r) PROVE PauseInv'
  <2>1. UNCHANGED req
    BY <1>7, HandlerFrame DEF clientVars
  <2>2. CASE Begin(r)
    <3>1. r = req
      BY <2>2, Current DEF Begin
    <3>2. \A q \in Requests : hpc[q] \notin {"verify", "fill", "clean"}
      BY <2>2 DEF Begin, EsInv
    <3>3. \A q \in Requests : q < req /\ Pull(q) => hpc[q] = "done"
      BY <3>2 DEF SequenceInv, AnsweredPc
    <3> QED
      BY <2>1, <2>2, <3>1, <3>3 DEF Begin
  <2>3. CASE Respond(r)
    <3>1. r = req
      BY <2>3, Current DEF Respond, RespondUnjoined
    <3> QED
      BY <2>1, <2>3, <3>1 DEF Respond, RespondUnjoined
  <2>4. CASE Resume(r)
    BY <2>1, <2>4 DEF Resume
  <2>5. CASE Verify(r) \/ Fill(r) \/ Clean(r)
    BY <2>1, <2>5 DEF Verify, Fill, Clean
  <2> QED
    BY <1>7, <2>2, <2>3, <2>4, <2>5 DEF HandlerStep
<1>8. CASE UNCHANGED vars
  BY <1>8 DEF vars, clientVars, hostVars
<1> QED
  BY <1>1, <1>2, <1>3, <1>4, <1>5, <1>6, <1>7, <1>8 DEF Next, ClientStep

LEMMA ShutdownStep ==
    /\ TypeOK /\ SequenceInv /\ PauseInv /\ ShutdownInv
    /\ [Next]_vars
    => ShutdownInv'
<1> SUFFICES ASSUME TypeOK, SequenceInv, PauseInv, ShutdownInv, [Next]_vars
             PROVE  ShutdownInv'
  OBVIOUS
<1> USE RequestTypes DEF TypeOK, ShutdownInv
<1>1. CASE Wake
  <2>1. hpc[2 * Rounds] = "done" /\ UNCHANGED <<hpc, eventual>>
    BY <1>1 DEF Wake, hostVars
  <2>2. req = 2 * Rounds
    BY <2>1 DEF SequenceInv, Requests
  <2>3. ASSUME NEW r \in Requests, Pull(r) PROVE hpc[r] = "done"
    <3>1. r # 2 * Rounds
      BY <2>3, LastIsPush
    <3>2. r < req
      BY <2>2, <3>1 DEF Requests
    <3> QED
      BY <2>1, <2>2, <2>3, <3>2 DEF PauseInv
  <2> QED
    BY <2>1, <2>3 DEF Shutdown
<1>2. CASE Broadcast \/ Prepare \/ Release
  BY <1>2 DEF Broadcast, Prepare, Release, hostVars
<1>3. ASSUME ClientStep \/ (\E w \in Workers : WorkerStep(w)) \/ UNCHANGED vars
      PROVE  ShutdownInv'
  <2>1. UNCHANGED <<eventual, mpc>>
    BY <1>3, ClientFrame, WorkerFrame DEF vars, mainVars, hostVars
  <2>2. \A r \in Requests : hpc[r] = "done" => hpc'[r] = "done"
    <3>1. CASE Forward
      BY <3>1 DEF Forward, SequenceInv
    <3>2. CASE ~Forward
      BY <1>3, <3>2, WorkerFrame DEF ClientStep, JoinGroup, FillClient, Answered, Pause,
         NoPause, Check, Cleanup, vars, hostVars
    <3> QED
      BY <3>1, <3>2
  <2> QED
    BY <2>1, <2>2
<1>4. ASSUME NEW r \in Requests, HandlerStep(r) PROVE ShutdownInv'
  <2>1. UNCHANGED mpc
    BY <1>4, HandlerFrame
  <2>2. \A q \in Requests : hpc[q] = "done" => hpc'[q] = "done"
    BY <1>4 DEF HandlerStep, Begin, Respond, RespondUnjoined, Resume, Verify, Fill, Clean
  <2>3. CASE Clean(r)
    BY <2>1, <2>2, <2>3 DEF Clean, Shutdown
  <2>4. CASE ~Clean(r)
    <3>1. UNCHANGED eventual
      BY <1>4, <2>4 DEF HandlerStep, Begin, Respond, RespondUnjoined, Resume, Verify, Fill
    <3> QED
      BY <2>1, <2>2, <3>1
  <2> QED
    BY <2>3, <2>4
<1> QED
  BY <1>1, <1>2, <1>3, <1>4 DEF Next, MainStep

-----------------------------------------------------------------------------
(* The data. *)

(* A transfer does not begin by what the client does. *)
LEMMA NoTransferByClient ==
    ASSUME TypeOK, SequenceInv, ClientStep
    PROVE  hpc'[req'] # "transfer"
<1> USE RequestTypes DEF TypeOK
<1>1. CASE Forward
  BY <1>1 DEF Forward
<1>2. CASE JoinGroup \/ FillClient \/ Answered \/ Cleanup
  BY <1>2, Current DEF JoinGroup, FillClient, Answered, Cleanup, hostVars
<1>3. CASE Pause
  <2>1. req' = req + 1 /\ UNCHANGED hpc /\ req + 1 \in Requests
    BY <1>3, PullHasNext DEF Pause, NoPause, SequenceInv, hostVars
  <2> QED
    BY <2>1 DEF SequenceInv
<1>4. CASE Check
  <2>1. UNCHANGED hpc /\ hpc[req] # "transfer"
    BY <1>4, Current DEF Check, hostVars
  <2>2. CASE req' # req
    <3>1. req' = req + 1 /\ req + 1 \in Requests
      BY <1>4, <2>2 DEF Check, Requests
    <3> QED
      BY <2>1, <3>1 DEF SequenceInv
  <2> QED
    BY <2>1, <2>2
<1> QED
  BY <1>1, <1>2, <1>3, <1>4 DEF ClientStep

(* Slots are told apart by their offsets. *)
LEMMA SlotOrder ==
    ASSUME NEW j \in Nat, NEW k \in Nat
    PROVE  /\ j * Step < Step * k <=> j < k
           /\ j * Step = k * Step <=> j = k
<1>1. Step \in Nat /\ Step > 0
  BY RequestTypes
<1>2. ASSUME NEW m \in Nat, NEW n \in Nat, m < n PROVE m * Step < n * Step
  <2>1. PICK d \in Nat : n = m + d /\ d > 0
    <3>1. n - m \in Nat /\ n = m + (n - m) /\ n - m > 0
      BY <1>2
    <3> QED
      BY <3>1
  <2>2. n * Step = m * Step + d * Step
    BY <1>1, <2>1
  <2>3. d * Step > 0
    BY <1>1, <2>1
  <2> QED
    BY <1>1, <2>2, <2>3
<1>3. Step * k = k * Step
  BY <1>1
<1>4. j < k => j * Step < k * Step
  BY <1>2
<1>5. k < j => k * Step < j * Step
  BY <1>2
<1>6. j * Step \in Nat /\ k * Step \in Nat
  BY <1>1
<1> QED
  BY <1>3, <1>4, <1>5, <1>6

(* Nothing is in flight any more: what is checked was moved. *)
LEMMA CheckedMoved ==
    ASSUME TypeOK, Covered, \A w \in Workers : holds[w] = None
    PROVE  Checked(taken) \subseteq moved
<1> SUFFICES ASSUME NEW o \in Offsets, o < Step * taken PROVE o \in moved
  BY DEF Checked
<1>1. PICK k \in 0..(Slots - 1) : o = k * Step
  BY DEF Offsets
<1>2. k < taken
  BY <1>1, SlotOrder, RequestTypes DEF TypeOK, RingTypeOK
<1>3. k * Step # None
  BY RequestTypes DEF None
<1> QED
  BY <1>1, <1>2, <1>3 DEF Covered

LEMMA TicketStep ==
    TypeOK /\ SequenceInv /\ TicketInv /\ [Next]_vars => TicketInv'
<1> SUFFICES ASSUME TypeOK, SequenceInv, TicketInv, [Next]_vars PROVE TicketInv'
  OBVIOUS
<1> USE RequestTypes DEF TypeOK, RingTypeOK, TicketInv
<1>1. CASE MainStep
  BY <1>1, MainFrame DEF clientVars, ringVars, Covered
<1>2. CASE ClientStep
  BY <1>2, NoTransferByClient
<1>3. ASSUME NEW w \in Workers, WorkerStep(w) PROVE TicketInv'
  <2>1. UNCHANGED <<hpc, req>>
    BY <1>3, WorkerFrame
  <2>2. ASSUME NEW r \in Requests, Draw(r, w) PROVE TicketInv'
    <3>1. hpc[req] = "transfer"
      BY <2>2, Current DEF Draw
    <3>2. taken' = taken + 1 /\ UNCHANGED moved /\ holds' = [holds EXCEPT ![w] = next]
          /\ holds[w] = None
      BY <2>2 DEF Draw, Take
    <3>3. Covered'
      <4> SUFFICES ASSUME NEW k \in 0..(Slots - 1), k < taken', k * Step \notin moved
                   PROVE  \E v \in Workers : holds'[v] = k * Step
        BY <3>2 DEF Covered
      <4>1. CASE k < taken
        <5>1. PICK v \in Workers : holds[v] = k * Step
          BY <3>1, <4>1 DEF Covered
        <5>2. k * Step # None
          BY DEF None
        <5> QED
          BY <3>2, <5>1, <5>2
      <4>2. CASE k = taken
        <5>1. next = k * Step
          BY <3>1, <4>2
        <5> QED
          BY <3>2, <5>1
      <4> QED
        BY <3>2, <4>1, <4>2
    <3>4. ASSUME taken' < Slots PROVE next' = taken' * Step
      <4>1. next = taken * Step /\ taken # Slots - 1 /\ Slots - 1 \in Nat
        BY <3>1, <3>2, <3>4
      <4>2. next # (Slots - 1) * Step
        BY <4>1, SlotOrder
      <4>3. next' = next + Step
        BY <2>2, <4>2 DEF Draw, Take
      <4> QED
        BY <3>2, <4>1, <4>3
    <3> QED
      BY <3>3, <3>4
  <2>3. ASSUME NEW r \in Requests, Copy(r, w) PROVE TicketInv'
    <3>1. hpc[req] = "transfer"
      BY <2>3, Current DEF Copy
    <3>2. /\ moved' = moved \cup {holds[w]} /\ holds' = [holds EXCEPT ![w] = None]
          /\ UNCHANGED <<next, taken>>
      BY <2>3 DEF Copy, Move
    <3>3. Covered'
      <4> SUFFICES ASSUME NEW k \in 0..(Slots - 1), k < taken, k * Step \notin moved'
                   PROVE  \E v \in Workers : holds'[v] = k * Step
        BY <3>2 DEF Covered
      <4>1. PICK v \in Workers : holds[v] = k * Step
        BY <3>1, <3>2 DEF Covered
      <4> QED
        BY <3>2, <4>1
    <3> QED
      BY <3>1, <3>2, <3>3
  <2>4. ASSUME NEW r \in Requests, Return(r, w) PROVE TicketInv'
    BY <2>1, <2>4 DEF Return, ringVars, Covered
  <2> QED
    BY <1>3, <2>2, <2>3, <2>4 DEF WorkerStep
<1>4. ASSUME NEW r \in Requests, HandlerStep(r) PROVE TicketInv'
  <2>1. UNCHANGED req
    BY <1>4, HandlerFrame DEF clientVars
  <2>2. CASE Begin(r)
    BY <2>2 DEF Begin, Covered
  <2>3. CASE ~Begin(r)
    <3>1. UNCHANGED ringVars /\ (hpc'[req] = "transfer" => hpc[req] = "transfer")
      BY <1>4, <2>3 DEF HandlerStep, Respond, RespondUnjoined, Resume, Verify, Fill, Clean
    <3> QED
      BY <2>1, <3>1 DEF ringVars, Covered
  <2> QED
    BY <2>2, <2>3
<1>5. CASE UNCHANGED vars
  BY <1>5 DEF vars, clientVars, hostVars, ringVars, Covered
<1> QED
  BY <1>1, <1>2, <1>3, <1>4, <1>5 DEF Next

(* During a PUSH the server's buffer holds its fill. *)
LEMMA ReturnTrip ==
    ASSUME TypeOK, PauseInv, SourceInv, ~Pull(req), hpc[req] = "transfer"
    PROVE  AllAre(serverBuf, "plus1")
<1> USE RequestTypes DEF TypeOK
<1>1. req # 1
  BY FirstIsPull
<1>2. req - 1 \in Requests /\ req - 1 \in Nat /\ (req - 1) + 1 = req
  BY <1>1 DEF Requests
<1>3. Pull(req - 1)
  BY <1>2, Parity
<1>4. hpc[req - 1] = "done"
  BY <1>2, <1>3 DEF PauseInv
<1> QED
  BY <1>2, <1>3, <1>4 DEF SourceInv

LEMMA SourceStep ==
    TypeOK /\ SequenceInv /\ SourceInv /\ [Next]_vars => SourceInv'
<1> SUFFICES ASSUME TypeOK, SequenceInv, SourceInv, [Next]_vars PROVE SourceInv'
  OBVIOUS
<1> USE RequestTypes DEF TypeOK, SourceInv
<1>1. CASE MainStep
  BY <1>1, MainFrame DEF clientVars, AllAre
<1>2. CASE JoinGroup \/ Answered \/ Cleanup
  BY <1>2 DEF JoinGroup, Answered, Cleanup, hostVars, AllAre
<1>3. CASE FillClient
  BY <1>3 DEF FillClient, hostVars, AllAre
<1>4. CASE Forward
  BY <1>4 DEF Forward, AllAre
<1>5. CASE Pause
  <2>1. /\ req' = req + 1 /\ Pull(req) /\ UNCHANGED <<hpc, serverBuf>>
        /\ req + 1 \in Requests /\ ~Pull(req + 1)
    BY <1>5, PullHasNext DEF Pause, NoPause, SequenceInv, hostVars
  <2>2. hpc[req + 1] = "none"
    BY <2>1 DEF SequenceInv
  <2> QED
    BY <2>1, <2>2 DEF AllAre
<1>6. CASE Check
  <2>1. UNCHANGED <<hpc, serverBuf>> /\ ~Pull(req) /\ cpc' \notin {"forward", "await"}
    BY <1>6 DEF Check, SequenceInv, hostVars
  <2>2. CASE req' = req
    BY <2>1, <2>2 DEF AllAre
  <2>3. CASE req' # req
    <3>1. req' = req + 1 /\ req + 1 \in Requests
      BY <1>6, <2>3 DEF Check, Requests
    <3>2. hpc[req + 1] = "none"
      BY <3>1 DEF SequenceInv
    <3> QED
      BY <2>1, <3>1, <3>2
  <2> QED
    BY <2>2, <2>3
<1>7. ASSUME NEW w \in Workers, WorkerStep(w) PROVE SourceInv'
  <2>1. UNCHANGED <<cpc, req, hpc>>
    BY <1>7, WorkerFrame
  <2>2. ASSUME NEW r \in Requests, Copy(r, w) PROVE SourceInv'
    <3>1. r = req /\ hpc[req] = "transfer"
      BY <2>2, Current DEF Copy
    <3>2. CASE Pull(req)
      <4>1. \A q \in Requests : q + 1 = req => ~Pull(q)
        BY <3>2, Parity
      <4>2. UNCHANGED clientBuf
        BY <2>2, <3>1, <3>2 DEF Copy
      <4> QED
        BY <2>1, <3>1, <4>1, <4>2 DEF AllAre
    <3>3. CASE ~Pull(req)
      <4>1. UNCHANGED serverBuf
        BY <2>2, <3>1, <3>3 DEF Copy
      <4> QED
        BY <2>1, <3>3, <4>1 DEF AllAre
    <3> QED
      BY <3>2, <3>3
  <2>3. ASSUME NEW r \in Requests, Draw(r, w) \/ Return(r, w) PROVE SourceInv'
    BY <2>1, <2>3 DEF Draw, Return, clientVars, hostVars, AllAre
  <2> QED
    BY <1>7, <2>2, <2>3 DEF WorkerStep
<1>8. ASSUME NEW r \in Requests, HandlerStep(r) PROVE SourceInv'
  <2>1. UNCHANGED <<cpc, req, clientBuf>>
    BY <1>8, HandlerFrame DEF clientVars
  <2>2. CASE Fill(r)
    BY <2>1, <2>2 DEF Fill, AllAre
  <2>3. CASE ~Fill(r)
    <3>1. /\ UNCHANGED serverBuf
          /\ \A q \in Requests : Pull(q) /\ hpc'[q] \in {"clean", "done"}
                 => hpc[q] \in {"clean", "done"}
      BY <1>8, <2>3 DEF HandlerStep, Begin, Respond, RespondUnjoined, Resume, Verify, Clean
    <3> QED
      BY <2>1, <3>1 DEF AllAre
  <2> QED
    BY <2>2, <2>3
<1>9. CASE UNCHANGED vars
  BY <1>9 DEF vars, clientVars, hostVars, AllAre
<1> QED
  BY <1>1, <1>2, <1>3, <1>4, <1>5, <1>6, <1>7, <1>8, <1>9 DEF Next, ClientStep

LEMMA CopyStep ==
    TypeOK /\ SequenceInv /\ EsInv /\ PauseInv /\ SourceInv /\ CopyInv /\ [Next]_vars => CopyInv'
<1> SUFFICES ASSUME TypeOK, SequenceInv, EsInv, PauseInv, SourceInv, CopyInv, [Next]_vars
             PROVE  CopyInv'
  OBVIOUS
<1> USE RequestTypes DEF TypeOK, RingTypeOK, CopyInv
<1>1. CASE MainStep
  BY <1>1, MainFrame DEF clientVars, ringVars
<1>2. CASE ClientStep
  BY <1>2, NoTransferByClient
<1>3. ASSUME NEW w \in Workers, WorkerStep(w) PROVE CopyInv'
  <2>1. UNCHANGED <<hpc, req>>
    BY <1>3, WorkerFrame
  <2>2. ASSUME NEW r \in Requests, Copy(r, w) PROVE CopyInv'
    <3>1. r = req /\ hpc[req] = "transfer" /\ cpc = "await"
      BY <2>2, Current DEF Copy
    <3>2. holds[w] \in Offsets /\ moved' = moved \cup {holds[w]}
      BY <2>2 DEF Copy, Move
    <3>3. CASE Pull(req)
      <4>1. clientBuf[holds[w]] = "base"
        BY <3>1, <3>2, <3>3 DEF SourceInv, AllAre
      <4>2. serverBuf' = [serverBuf EXCEPT ![holds[w]] = "base"]
        BY <2>2, <3>1, <3>3, <4>1 DEF Copy
      <4> QED
        BY <2>1, <3>1, <3>2, <3>3, <4>2
    <3>4. CASE ~Pull(req)
      <4>1. serverBuf[holds[w]] = "plus1"
        BY <3>1, <3>2, <3>4, ReturnTrip DEF AllAre
      <4>2. clientBuf' = [clientBuf EXCEPT ![holds[w]] = "plus1"]
        BY <2>2, <3>1, <3>4, <4>1 DEF Copy
      <4> QED
        BY <2>1, <3>1, <3>2, <3>4, <4>2
    <3> QED
      BY <3>3, <3>4
  <2>3. ASSUME NEW r \in Requests, Draw(r, w) \/ Return(r, w) PROVE CopyInv'
    BY <2>1, <2>3 DEF Draw, Return, Take, ringVars, clientVars, hostVars
  <2> QED
    BY <1>3, <2>2, <2>3 DEF WorkerStep
<1>4. ASSUME NEW r \in Requests, HandlerStep(r) PROVE CopyInv'
  <2>1. UNCHANGED <<req, clientBuf>>
    BY <1>4, HandlerFrame DEF clientVars
  <2>2. CASE Begin(r)
    BY <2>2 DEF Begin
  <2>3. CASE Fill(r)
    <3>1. hpc[req] # "transfer"
      <4>1. hpc[r] = "fill" /\ Pull(r) /\ ~(r > req)
        BY <2>3 DEF Fill, SequenceInv
      <4> QED
        BY <4>1 DEF PauseInv
    <3> QED
      BY <2>1, <2>3, <3>1 DEF Fill
  <2>4. CASE ~Begin(r) /\ ~Fill(r)
    <3>1. UNCHANGED <<ringVars, serverBuf>> /\ (hpc'[req] = "transfer" => hpc[req] = "transfer")
      BY <1>4, <2>4 DEF HandlerStep, Respond, RespondUnjoined, Resume, Verify, Clean
    <3> QED
      BY <2>1, <3>1 DEF ringVars
  <2> QED
    BY <2>2, <2>3, <2>4
<1>5. CASE UNCHANGED vars
  BY <1>5 DEF vars, clientVars, hostVars, ringVars
<1> QED
  BY <1>1, <1>2, <1>3, <1>4, <1>5 DEF Next

(* A request is answered with what was moved in its transfer. *)
LEMMA RespondMoved ==
    ASSUME TypeOK, SequenceInv, HoldInv, TicketInv, NEW r \in Requests, Respond(r)
    PROVE  r = req /\ cpc = "await" /\ hpc[req] = "transfer" /\ Checked(taken) \subseteq moved
<1>1. r = req /\ cpc = "await" /\ hpc[req] = "transfer"
  BY Current DEF Respond, RespondUnjoined
<1>2. \A w \in Workers : holds[w] = None
  BY DEF Respond, HoldInv
<1> QED
  BY <1>1, <1>2, CheckedMoved DEF TicketInv

LEMMA CheckedStep ==
    /\ TypeOK /\ SequenceInv /\ EsInv /\ HoldInv /\ PauseInv
    /\ TicketInv /\ CopyInv /\ CheckedInv
    /\ [Next]_vars
    => CheckedInv'
<1> SUFFICES ASSUME TypeOK, SequenceInv, EsInv, HoldInv, PauseInv,
                    TicketInv, CopyInv, CheckedInv, [Next]_vars
             PROVE  CheckedInv'
  OBVIOUS
<1> USE RequestTypes DEF TypeOK, CheckedInv
<1>1. CASE MainStep
  BY <1>1, MainFrame DEF clientVars, Checked
<1>2. CASE ClientStep
  <2>1. /\ UNCHANGED <<serverBuf, out>>
        /\ \A r \in Requests : hpc'[r] = hpc[r] \/ hpc'[r] = "sent"
    BY <1>2, ClientFrame DEF ClientStep, JoinGroup, FillClient, Forward, Answered, Pause,
       NoPause, Check, Cleanup, hostVars
  <2>2. ASSUME ~Pull(req'), hpc'[req'] \in AnsweredPc, cpc' \in {"await", "check"}
        PROVE  req' = req /\ hpc[req] \in AnsweredPc /\ cpc = "await" /\ UNCHANGED clientBuf
    <3>1. CASE Forward
      BY <2>2, <3>1 DEF Forward, AnsweredPc
    <3>2. CASE JoinGroup \/ FillClient \/ Pause \/ Check \/ Cleanup
      BY <2>2, <3>2 DEF JoinGroup, FillClient, Pause, NoPause, Check, Cleanup
    <3>3. CASE Answered
      BY <2>2, <3>3 DEF Answered, hostVars
    <3> QED
      BY <1>2, <3>1, <3>2, <3>3 DEF ClientStep
  <2>3. \A r \in Requests : hpc'[r] \in {"responding", "verify"} => hpc[r] = hpc'[r]
    BY <2>1
  <2> QED
    BY <2>1, <2>2, <2>3 DEF Checked
<1>3. ASSUME NEW w \in Workers, WorkerStep(w) PROVE CheckedInv'
  <2>1. UNCHANGED <<hpc, req, out, cpc>>
    BY <1>3, WorkerFrame
  <2>2. ASSUME NEW q \in Requests, Copy(q, w) PROVE CheckedInv'
    <3>1. q = req /\ hpc[req] = "transfer"
      BY <2>2, Current DEF Copy
    <3>2. ASSUME Pull(req), NEW r \in Requests, Pull(r), hpc[r] \in {"responding", "verify"}
          PROVE  FALSE
      <4>1. r < req
        BY <3>1, <3>2 DEF SequenceInv
      <4> QED
        BY <3>1, <3>2, <4>1 DEF PauseInv
    <3>3. ~Pull(req) => UNCHANGED serverBuf
      BY <2>2, <3>1 DEF Copy
    <3> QED
      BY <2>1, <3>1, <3>2, <3>3 DEF Checked, AnsweredPc
  <2>3. ASSUME NEW r \in Requests, Draw(r, w) \/ Return(r, w) PROVE CheckedInv'
    BY <2>1, <2>3 DEF Draw, Return, clientVars, hostVars, Checked
  <2> QED
    BY <1>3, <2>2, <2>3 DEF WorkerStep
<1>4. ASSUME NEW q \in Requests, HandlerStep(q) PROVE CheckedInv'
  <2>1. UNCHANGED <<req, cpc, clientBuf>>
    BY <1>4, HandlerFrame DEF clientVars
  <2>2. CASE Respond(q)
    <3>1. /\ q = req /\ hpc[req] = "transfer" /\ UNCHANGED serverBuf
          /\ out' = [out EXCEPT ![req] = taken]
          /\ hpc' = [hpc EXCEPT ![req] = "responding"]
      BY <2>2, RespondMoved DEF Respond, RespondUnjoined
    <3>2. Checked(taken) \subseteq moved
      BY <2>2, RespondMoved
    <3>3. out'[req] = taken
      BY <3>1
    <3>4. \A o \in Checked(taken) :
              IF Pull(req) THEN serverBuf[o] = "base" ELSE clientBuf[o] = "plus1"
      BY <3>1, <3>2 DEF CopyInv
    <3>5. ASSUME NEW r \in Requests, r # req
          PROVE  out'[r] = out[r] /\ hpc'[r] = hpc[r]
      BY <3>1, <3>5
    <3> QED
      BY <2>1, <3>1, <3>3, <3>4, <3>5 DEF Checked
  <2>3. CASE Fill(q)
    <3>1. hpc[q] = "fill" /\ Pull(q) /\ ~(q > req)
      BY <2>3 DEF Fill, SequenceInv
    <3>2. ASSUME NEW r \in Requests, Pull(r), hpc[r] \in {"responding", "verify"} PROVE FALSE
      <4>1. ~(r > req) /\ r # q
        BY <3>1, <3>2 DEF SequenceInv
      <4>2. CASE r = req
        BY <3>1, <3>2, <4>1, <4>2 DEF PauseInv
      <4>3. CASE r < req
        <5>1. hpc[r] = "verify"
          BY <3>2, <4>3 DEF PauseInv
        <5> QED
          BY <3>1, <4>1, <5>1 DEF EsInv
      <4> QED
        BY <4>1, <4>2, <4>3
    <3> QED
      BY <2>1, <2>3, <3>1, <3>2 DEF Fill, Checked, AnsweredPc
  <2>4. CASE ~Respond(q) /\ ~Fill(q)
    <3>1. /\ UNCHANGED <<serverBuf, out>>
          /\ \A r \in Requests :
                hpc'[r] \in {"responding", "verify"} => hpc[r] \in {"responding", "verify"}
          /\ \A r \in Requests : hpc'[r] \in AnsweredPc => hpc[r] \in AnsweredPc
      BY <1>4, <2>4 DEF HandlerStep, Begin, Resume, Verify, Clean, AnsweredPc
    <3> QED
      BY <2>1, <3>1 DEF Checked
  <2> QED
    BY <2>2, <2>3, <2>4
<1>5. CASE UNCHANGED vars
  BY <1>5 DEF vars, clientVars, hostVars, Checked
<1> QED
  BY <1>1, <1>2, <1>3, <1>4, <1>5 DEF Next

-----------------------------------------------------------------------------
(* The inductive invariants, with and without a pause that is long enough. *)
IInv ==
    TypeOK /\ SequenceInv /\ EsInv /\ ReadyInv /\ HoldInv /\ TicketInv /\ SourceInv

PausedInv ==
    PauseOutlastsSend => PauseInv /\ ShutdownInv /\ CopyInv /\ CheckedInv

LEMMA IInvInit == Init => IInv /\ PausedInv
<1> SUFFICES ASSUME Init PROVE IInv /\ PausedInv
  OBVIOUS
<1> USE RequestTypes DEF Init
<1>1. TypeOK
  BY TypeInit
<1>2. SequenceInv
  BY FirstIsPull DEF SequenceInv
<1>3. EsInv /\ ReadyInv
  BY DEF EsInv, ReadyInv
<1>4. HoldInv
  BY DEF HoldInv, RingInit
<1>5. PauseInv /\ ShutdownInv
  BY DEF PauseInv, ShutdownInv
<1>6. TicketInv /\ SourceInv /\ CopyInv /\ CheckedInv
  BY DEF TicketInv, SourceInv, CopyInv, CheckedInv, AnsweredPc
<1> QED
  BY <1>1, <1>2, <1>3, <1>4, <1>5, <1>6 DEF IInv, PausedInv

LEMMA Inductive == IInv /\ PausedInv /\ [Next]_vars => (IInv /\ PausedInv)'
<1> SUFFICES ASSUME IInv, PausedInv, [Next]_vars PROVE (IInv /\ PausedInv)'
  OBVIOUS
<1> USE DEF IInv
<1>1. TypeOK'
  BY TypeStep
<1>2. SequenceInv'
  BY SequenceStep
<1>3. EsInv' /\ ReadyInv'
  BY EsStep, ReadyStep
<1>4. HoldInv'
  BY HoldStep
<1>5. TicketInv' /\ SourceInv'
  BY TicketStep, SourceStep
<1>6. PausedInv'
  BY PauseStep, ShutdownStep, CopyStep, CheckedStep DEF PausedInv
<1> QED
  BY <1>1, <1>2, <1>3, <1>4, <1>5, <1>6

LEMMA Invariance == Spec => [](IInv /\ PausedInv)
  BY IInvInit, Inductive, PTL DEF Spec

(***************************************************************************)
(* Every variable of the run keeps its type.                               *)
(***************************************************************************)
THEOREM TypeCorrect == Spec => []TypeOK
<1>1. IInv => TypeOK
  BY DEF IInv
<1> QED
  BY <1>1, Invariance, PTL

(***************************************************************************)
(* However early the client's first request arrives after the broadcast of *)
(* the group id, its handler does not begin before the bulk handle, the    *)
(* pool and the eventual are set up.                                       *)
(***************************************************************************)
THEOREM HandlersFindSetUp == Spec => []ServesWhenReady
<1>1. IInv => ServesWhenReady
  BY DEF IInv, ReadyInv, ServesWhenReady
<1> QED
  BY <1>1, Invariance, PTL

(***************************************************************************)
(* With a pause longer than the send of a response, no CPU touches a       *)
(* buffer of either rank while a transfer into or out of it is in flight.  *)
(***************************************************************************)
THEOREM BuffersOwned == PauseOutlastsSend => (Spec => []BufferOwnership)
<1> SUFFICES ASSUME PauseOutlastsSend PROVE Spec => []BufferOwnership
  OBVIOUS
<1>1. IInv /\ PausedInv => BufferOwnership
  <2> SUFFICES ASSUME IInv, PauseInv,
                      NEW w \in Workers, holds[w] # None
               PROVE  /\ cpc \notin {"fill", "check", "cleanup", "exit"}
                      /\ \A r \in Requests : hpc[r] \notin {"verify", "fill"}
    BY DEF PausedInv, BufferOwnership
  <2> USE RequestTypes DEF IInv, TypeOK
  <2>1. hpc[req] = "transfer"
    BY DEF HoldInv
  <2>2. cpc \notin {"fill", "check", "cleanup", "exit"}
    BY <2>1 DEF SequenceInv, AnsweredPc
  <2>3. ASSUME NEW r \in Requests, hpc[r] \in {"verify", "fill"} PROVE FALSE
    <3>1. Pull(r) /\ ~(r > req) /\ r # req
      BY <2>1, <2>3 DEF SequenceInv
    <3>2. r < req
      BY <3>1
    <3> QED
      BY <2>1, <2>3, <3>1, <3>2 DEF PauseInv
  <2> QED
    BY <2>2, <2>3
<1> QED
  BY <1>1, Invariance, PTL

(***************************************************************************)
(* Under the same condition main releases the pool, the bulk handle and    *)
(* the buffer only when the handlers that use them are over.               *)
(***************************************************************************)
THEOREM ReleaseAfterUse == PauseOutlastsSend => (Spec => []NoUseAfterRelease)
<1> SUFFICES ASSUME PauseOutlastsSend PROVE Spec => []NoUseAfterRelease
  OBVIOUS
<1>1. IInv /\ PausedInv => NoUseAfterRelease
  <2> SUFFICES ASSUME IInv, ShutdownInv, mpc \in {"release", "exit"},
                      NEW r \in Requests, ~(Pull(r) \/ Shutdown(r))
               PROVE  hpc[r] \in {"done", "responding", "clean"}
    BY DEF PausedInv, NoUseAfterRelease, ShutdownInv
  <2> USE RequestTypes DEF IInv, TypeOK
  <2>1. hpc[2 * Rounds] = "done"
    BY DEF ShutdownInv, Shutdown
  <2>2. req = 2 * Rounds
    BY <2>1 DEF SequenceInv, Requests
  <2>3. r < req
    BY <2>2 DEF Requests, Shutdown
  <2> QED
    BY <2>3 DEF SequenceInv, AnsweredPc
<1> QED
  BY <1>1, Invariance, PTL
(***************************************************************************)
(* ...the server finds the client's pattern after every PULL...            *)
(***************************************************************************)
THEOREM ServerAssertHolds == PauseOutlastsSend => (Spec => []ServerAssert)
<1> SUFFICES ASSUME PauseOutlastsSend PROVE Spec => []ServerAssert
  OBVIOUS
<1>1. IInv /\ PausedInv => ServerAssert
  BY DEF IInv, PausedInv, SequenceInv, CheckedInv, ServerAssert
<1> QED
  BY <1>1, Invariance, PTL

(***************************************************************************)
(* ...and the client finds the server's after every PUSH: neither of the   *)
(* two pattern assertions fails.                                           *)
(***************************************************************************)
THEOREM ClientAssertHolds == PauseOutlastsSend => (Spec => []ClientAssert)
<1> SUFFICES ASSUME PauseOutlastsSend PROVE Spec => []ClientAssert
  OBVIOUS
<1>1. IInv /\ PausedInv => ClientAssert
  BY DEF IInv, PausedInv, SequenceInv, CheckedInv, ClientAssert
<1> QED
  BY <1>1, Invariance, PTL

-----------------------------------------------------------------------------
(* Deadlock.  Who can take a step, with the guards of the actions spelled   *)
(* out, and the states in which nobody has to.                              *)
CanMain ==
    \/ mpc \in {"boot", "prep", "release"}
    \/ mpc = "wait" /\ eventual /\ running = Idle

CanAsk ==
    \/ cpc \in {"fill", "forward", "check", "cleanup"}
    \/ cpc = "boot" /\ mpc # "boot"
    \/ cpc = "await" /\ hpc[req] \in AnsweredPc
    \/ cpc = "pause" /\ (PauseOutlastsSend => hpc[req] # "responding")

CanMove(w) ==
    \E r \in Requests : hpc[r] = "transfer" /\ (holds[w] # None \/ w \notin finished)

CanHandle(r) ==
    \/ hpc[r] = "sent" /\ running = Idle /\ mpc # "exit"
    \/ hpc[r] = "transfer" /\ running = Idle /\ finished = Workers
    \/ hpc[r] = "responding" /\ running = Idle
    \/ hpc[r] \in {"verify", "fill", "clean"}

NeverStuck ==
    \/ cpc = "exit" /\ mpc = "exit"
    \/ CanMain \/ CanAsk
    \/ \E w \in Workers : CanMove(w)
    \/ \E r \in Requests : CanHandle(r)

(* Main is told exactly when the shutdown request is over. *)
StopInv ==
    /\ eventual <=> hpc[2 * Rounds] = "done"
    /\ mpc \in {"release", "exit"} => eventual

LEMMA StopInit == Init => StopInv
  BY RequestTypes DEF Init, StopInv

LEMMA StopStep == TypeOK /\ SequenceInv /\ StopInv /\ [Next]_vars => StopInv'
<1> SUFFICES ASSUME TypeOK, SequenceInv, StopInv, [Next]_vars PROVE StopInv'
  OBVIOUS
<1> USE RequestTypes DEF TypeOK, StopInv
<1>1. CASE MainStep
  <2>1. UNCHANGED <<hpc, eventual>>
    BY <1>1, MainFrame
  <2> QED
    BY <1>1, <2>1 DEF MainStep, Broadcast, Prepare, Wake, Release
<1>2. CASE Forward
  BY <1>2 DEF Forward, SequenceInv, mainVars
<1>3. ASSUME (ClientStep /\ ~Forward) \/ (\E w \in Workers : WorkerStep(w)) \/ UNCHANGED vars
      PROVE  StopInv'
  <2>1. UNCHANGED <<hpc, mpc, eventual>>
    BY <1>3, ClientFrame, WorkerFrame DEF ClientStep, JoinGroup, FillClient, Answered, Pause,
       NoPause, Check, Cleanup, vars, mainVars, hostVars
  <2> QED
    BY <2>1
<1>4. ASSUME NEW r \in Requests, HandlerStep(r) PROVE StopInv'
  <2>1. UNCHANGED mpc
    BY <1>4, HandlerFrame
  <2>2. CASE Clean(r)
    BY <2>1, <2>2 DEF Clean, Shutdown
  <2>3. CASE ~Clean(r)
    <3>1. UNCHANGED eventual
      BY <1>4, <2>3 DEF HandlerStep, Begin, Respond, RespondUnjoined, Resume, Verify, Fill
    <3>2. hpc'[2 * Rounds] = "done" <=> hpc[2 * Rounds] = "done"
      BY <1>4, <2>3 DEF HandlerStep, Begin, Respond, RespondUnjoined, Resume, Verify, Fill
    <3> QED
      BY <2>1, <3>1, <3>2
  <2> QED
    BY <2>2, <2>3
<1> QED
  BY <1>1, <1>2, <1>3, <1>4 DEF Next

LEMMA StopInvariance == Spec => [](IInv /\ StopInv)
<1>1. IInv /\ StopInv /\ [Next]_vars => StopInv'
  BY StopStep DEF IInv
<1> QED
  BY <1>1, Invariance, StopInit, PTL DEF Spec

(***************************************************************************)
(* Until both ranks have left, somebody can take a step: the client does   *)
(* not wait for an answer nobody will give, the server's main not for a    *)
(* signal nobody will send, and the primary ES is never kept by a ULT that *)
(* cannot go on.  It does not depend on how long the client pauses.        *)
(***************************************************************************)
THEOREM SomebodyCanGoOn == Spec => []NeverStuck
<1>1. IInv /\ StopInv => NeverStuck
  <2> SUFFICES ASSUME IInv, StopInv, ~CanMain PROVE NeverStuck
    BY DEF NeverStuck
  <2> USE RequestTypes DEF IInv, TypeOK
  <2>1. mpc \in {"wait", "exit"}
    BY DEF CanMain
  <2>2. ASSUME running \in Requests PROVE NeverStuck
    BY <2>2 DEF EsInv, CanHandle, NeverStuck
  <2>3. ASSUME running = Idle PROVE NeverStuck
    <3>1. CASE cpc \in {"boot", "fill", "forward", "check", "cleanup"}
      BY <2>1, <3>1 DEF CanAsk, NeverStuck
    <3>2. CASE cpc = "await" /\ hpc[req] = "sent"
      <4>1. mpc # "exit"
        <5> SUFFICES ASSUME mpc = "exit" PROVE FALSE
          OBVIOUS
        <5>1. hpc[2 * Rounds] = "done"
          BY DEF StopInv
        <5>2. req # 2 * Rounds /\ 2 * Rounds > req
          BY <3>2, <5>1 DEF Requests
        <5> QED
          BY <5>1, <5>2 DEF SequenceInv
      <4> QED
        BY <2>3, <3>2, <4>1 DEF CanHandle, NeverStuck
    <3>3. CASE cpc = "await" /\ hpc[req] = "transfer"
      <4>1. CASE finished = Workers
        BY <2>3, <3>3, <4>1 DEF CanHandle, NeverStuck
      <4>2. CASE finished # Workers
        <5>1. PICK w \in Workers : w \notin finished
          BY <4>2
        <5> QED
          BY <3>3, <5>1 DEF CanMove, NeverStuck
      <4> QED
        BY <4>1, <4>2
    <3>4. CASE cpc = "await" /\ hpc[req] \in AnsweredPc
      BY <3>4 DEF CanAsk, NeverStuck
    <3>5. CASE cpc = "pause"
      BY <2>3, <3>5 DEF CanAsk, CanHandle, NeverStuck
    <3>6. CASE cpc = "exit"
      <4>1. req = 2 * Rounds /\ hpc[req] \in AnsweredPc
        BY <3>6 DEF SequenceInv
      <4>2. CASE hpc[req] # "done"
        BY <2>3, <4>1, <4>2 DEF AnsweredPc, CanHandle, NeverStuck
      <4>3. CASE hpc[req] = "done"
        BY <2>1, <2>3, <3>6, <4>1, <4>3 DEF StopInv, CanMain, NeverStuck
      <4> QED
        BY <4>2, <4>3
    <3>7. cpc = "await" => hpc[req] \in {"sent", "transfer"} \cup AnsweredPc
      BY DEF SequenceInv, AnsweredPc
    <3> QED
      BY <3>1, <3>2, <3>3, <3>4, <3>5, <3>6, <3>7
  <2>4. running # Main
    BY <2>1 DEF EsInv
  <2> QED
    BY <2>2, <2>3, <2>4
<1> QED
  BY <1>1, StopInvariance, PTL

-----------------------------------------------------------------------------
(* Without -m both ranks got their buffer from the heap. *)
GivenBackInv == \A rank \in {"client", "server"} : released[rank] \in {"no", "heap"}

(***************************************************************************)
(* Without an mmap'd buffer each rank gives its buffer back the way it got *)
(* it.  (With one the client's calloc'd buffer is unmapped: that run finds *)
(* the property violated.)                                                 *)
(***************************************************************************)
THEOREM HeapGivenBack == ~MmapBuffer => (Spec => []ReleasedAsAllocated)
<1> SUFFICES ASSUME ~MmapBuffer PROVE Spec => []ReleasedAsAllocated
  OBVIOUS
<1>1. Init => GivenBackInv
  BY DEF Init, GivenBackInv
<1>2. IInv /\ GivenBackInv /\ [Next]_vars => GivenBackInv'
  <2> SUFFICES ASSUME IInv, GivenBackInv, [Next]_vars PROVE GivenBackInv'
    OBVIOUS
  <2> USE DEF IInv, TypeOK, GivenBackInv
  <2>1. CASE MainStep
    BY <2>1 DEF MainStep, Broadcast, Prepare, Wake, Release, GiveBack
  <2>2. CASE ClientStep
    BY <2>2 DEF ClientStep, JoinGroup, FillClient, Forward, Answered, Pause, NoPause, Check,
       Cleanup, GiveBack, mainVars
  <2>3. ASSUME NEW w \in Workers, WorkerStep(w) PROVE GivenBackInv'
    BY <2>3, WorkerFrame DEF mainVars
  <2>4. ASSUME NEW r \in Requests, HandlerStep(r) PROVE GivenBackInv'
    BY <2>4, HandlerFrame
  <2>5. CASE UNCHANGED vars
    BY <2>5 DEF vars, mainVars
  <2> QED
    BY <2>1, <2>2, <2>3, <2>4, <2>5 DEF Next
<1>3. GivenBackInv => ReleasedAsAllocated
  BY DEF GivenBackInv, ReleasedAsAllocated, Allocated
<1> QED
  BY <1>1, <1>2, <1>3, Invariance, PTL DEF Spec

-----------------------------------------------------------------------------
(* The end comes.                                                          *)

(* How far main, the client and the handler of a request have come.        *)
MainOrder == [boot |-> 0, prep |-> 1, wait |-> 2, release |-> 3, exit |-> 4]

ClientOrder ==
    [boot |-> 0, fill |-> 1, forward |-> 2, await |-> 3, pause |-> 4, check |-> 4,
     cleanup |-> 5, exit |-> 6]

HandlerOrder ==
    [none |-> 0, sent |-> 1, transfer |-> 2, responding |-> 3, verify |-> 4, fill |-> 5,
     clean |-> 6, done |-> 7]

MainAhead ==
    \/ MainOrder[mpc'] > MainOrder[mpc]
    \/ mpc = "prep" /\ mpc' = "prep" /\ live \subseteq live' /\ live # live'
    \/ mpc = "release" /\ mpc' = "release" /\ live' \subseteq live /\ live # live'

ClientAhead ==
    \/ req' > req
    \/ req' = req /\ ClientOrder[cpc'] > ClientOrder[cpc]

HandlerAhead(r) == HandlerOrder[hpc'[r]] > HandlerOrder[hpc[r]]

(* Within a transfer phase: one ticket more, one held ticket fewer, or one *)
(* worker more that has returned.                                          *)
WorkerAhead(w) ==
    /\ UNCHANGED <<mpc, live, cpc, req, hpc>>
    /\ w \notin finished
    /\ \/ taken' = taken + 1 /\ UNCHANGED finished
       \/ holds[w] # None /\ holds' = [holds EXCEPT ![w] = None] /\ UNCHANGED <<taken, finished>>
       \/ finished' = finished \cup {w} /\ UNCHANGED <<taken, holds>>

(* Nobody goes back, and somebody goes on. *)
Ahead ==
    /\ UNCHANGED <<mpc, live>> \/ MainAhead
    /\ UNCHANGED <<cpc, req>> \/ ClientAhead
    /\ \A r \in Requests : hpc'[r] = hpc[r] \/ HandlerAhead(r)
    /\ \/ MainAhead \/ ClientAhead
       \/ \E r \in Requests : HandlerAhead(r)
       \/ \E w \in Workers : WorkerAhead(w)

(* The run of both ranks holds no cycle: every step brings it nearer to    *)
(* its end, and a transfer phase draws no more tickets than its duration   *)
(* allows.                                                                 *)
WindsDown ==
    /\ [](taken <= MaxTakes)
    /\ [][Ahead]_vars

TakesInv == taken <= MaxTakes

LEMMA TakesStep == TypeOK /\ TakesInv /\ [Next]_vars => TakesInv'
<1> SUFFICES ASSUME TypeOK, TakesInv, [Next]_vars PROVE TakesInv'
  OBVIOUS
<1> USE RequestTypes DEF TypeOK, RingTypeOK, TakesInv
<1>1. CASE MainStep \/ ClientStep
  BY <1>1, MainFrame, ClientFrame DEF ringVars
<1>2. ASSUME NEW w \in Workers, WorkerStep(w) PROVE TakesInv'
  BY <1>2 DEF WorkerStep, Draw, Take, Copy, Move, Return, ringVars
<1>3. ASSUME NEW r \in Requests, HandlerStep(r) PROVE TakesInv'
  BY <1>3 DEF HandlerStep, Begin, Respond, RespondUnjoined, Resume, Verify, Fill, Clean, ringVars
<1>4. CASE UNCHANGED vars
  BY <1>4 DEF vars, ringVars
<1> QED
  BY <1>1, <1>2, <1>3, <1>4 DEF Next

(* Main sets up and releases each of its four parts once. *)
LiveInv ==
    /\ mpc \in {"boot", "prep"} => live # Prepared
    /\ mpc # "exit" => "buffer" \in live

LEMMA LiveStep == TypeOK /\ LiveInv /\ [Next]_vars => LiveInv'
<1> SUFFICES ASSUME TypeOK, LiveInv, [Next]_vars PROVE LiveInv'
  OBVIOUS
<1> USE DEF TypeOK, LiveInv
<1>1. CASE MainStep
  BY <1>1 DEF MainStep, Broadcast, Prepare, Wake, Release, Prepared
<1>2. ASSUME UNCHANGED <<mpc, live>> PROVE LiveInv'
  BY <1>2
<1>3. ASSUME NEW w \in Workers, WorkerStep(w) PROVE UNCHANGED <<mpc, live>>
  BY <1>3, WorkerFrame DEF mainVars
<1>4. UNCHANGED vars => UNCHANGED <<mpc, live>>
  BY DEF vars, mainVars
<1> QED
  BY <1>1, <1>2, <1>3, <1>4, ClientFrame, HandlerFrame DEF Next

LEMMA MainGoesOn ==
    ASSUME TypeOK, LiveInv, MainStep PROVE MainAhead
<1> USE DEF TypeOK, MainAhead, MainOrder
<1>1. CASE Broadcast
  BY <1>1 DEF Broadcast
<1>2. CASE Prepare
  <2>1. mpc = "prep" /\ live \subseteq live' /\ (mpc' = "wait" \/ mpc' = "prep")
    BY <1>2 DEF Prepare
  <2>2. live' # live
    BY <1>2 DEF Prepare, LiveInv, Prepared
  <2> QED
    BY <2>1, <2>2
<1>3. CASE Wake
  BY <1>3 DEF Wake
<1>4. CASE Release
  <2>1. mpc = "release" /\ live' \subseteq live /\ (mpc' = "exit" \/ mpc' = "release")
    BY <1>4 DEF Release
  <2>2. live' # live
    BY <1>4 DEF Release, LiveInv
  <2> QED
    BY <2>1, <2>2
<1> QED
  BY <1>1, <1>2, <1>3, <1>4 DEF MainStep

LEMMA ClientGoesOn ==
    ASSUME TypeOK, SequenceInv, ClientStep
    PROVE  /\ ClientAhead
           /\ \A r \in Requests : hpc'[r] = hpc[r] \/ HandlerAhead(r)
<1> USE RequestTypes DEF TypeOK
<1>1. ClientAhead
  BY DEF ClientStep, JoinGroup, FillClient, Forward, Answered, Pause, NoPause, Check, Cleanup,
         ClientAhead, ClientOrder
<1>2. CASE Forward
  <2>1. hpc[req] = "none" /\ hpc' = [hpc EXCEPT ![req] = "sent"]
    BY <1>2 DEF Forward, SequenceInv
  <2> QED
    BY <1>1, <2>1 DEF HandlerAhead, HandlerOrder
<1>3. CASE ~Forward
  <2>1. UNCHANGED hpc
    BY <1>3 DEF ClientStep, JoinGroup, FillClient, Answered, Pause, NoPause, Check, Cleanup,
       hostVars
  <2> QED
    BY <1>1, <2>1
<1> QED
  BY <1>2, <1>3

LEMMA WorkerGoesOn ==
    ASSUME TypeOK, SequenceInv, HoldInv, NEW w \in Workers, WorkerStep(w)
    PROVE  WorkerAhead(w)
<1>1. UNCHANGED <<mpc, live, cpc, req, hpc>>
  BY WorkerFrame DEF mainVars
<1>2. w \notin finished
  BY DEF WorkerStep, Draw, Copy, Move, Return, HoldInv
<1>3. ASSUME NEW r \in Requests, Draw(r, w) PROVE taken' = taken + 1 /\ UNCHANGED finished
  BY <1>3 DEF Draw, Take, hostVars
<1>4. ASSUME NEW r \in Requests, Copy(r, w)
      PROVE  /\ holds[w] # None /\ holds' = [holds EXCEPT ![w] = None]
             /\ UNCHANGED <<taken, finished>>
  BY <1>4 DEF Copy, Move
<1>5. ASSUME NEW r \in Requests, Return(r, w)
      PROVE  finished' = finished \cup {w} /\ UNCHANGED <<taken, holds>>
  BY <1>5 DEF Return, ringVars
<1> QED
  BY <1>1, <1>2, <1>3, <1>4, <1>5 DEF WorkerStep, WorkerAhead

LEMMA HandlerGoesOn ==
    ASSUME TypeOK, NEW r \in Requests, HandlerStep(r)
    PROVE  /\ HandlerAhead(r)
           /\ \A q \in Requests : q # r => hpc'[q] = hpc[q]
  BY DEF TypeOK, HandlerStep, Begin, Respond, RespondUnjoined, Resume, Verify, Fill, Clean,
         HandlerAhead, HandlerOrder

LEMMA NextAhead == IInv /\ LiveInv /\ Next => Ahead
<1> SUFFICES ASSUME IInv, LiveInv, Next PROVE Ahead
  OBVIOUS
<1> USE DEF IInv
<1>1. CASE MainStep
  <2>1. UNCHANGED <<cpc, req, hpc>>
    BY <1>1, MainFrame DEF clientVars
  <2> QED
    BY <1>1, <2>1, MainGoesOn DEF Ahead
<1>2. CASE ClientStep
  BY <1>2, ClientGoesOn, ClientFrame DEF Ahead
<1>3. ASSUME NEW w \in Workers, WorkerStep(w) PROVE Ahead
  BY <1>3, WorkerGoesOn DEF WorkerAhead, Ahead
<1>4. ASSUME NEW r \in Requests, HandlerStep(r) PROVE Ahead
  <2>1. UNCHANGED <<mpc, live, cpc, req>>
    BY <1>4, HandlerFrame DEF clientVars
  <2> QED
    BY <1>4, <2>1, HandlerGoesOn DEF Ahead
<1> QED
  BY <1>1, <1>2, <1>3, <1>4 DEF Next

LEMMA LiveInvariance == Spec => []LiveInv
<1>1. Init => LiveInv
  BY DEF Init, LiveInv, Prepared
<1>2. IInv /\ LiveInv /\ [Next]_vars => LiveInv'
  BY LiveStep DEF IInv
<1> QED
  BY <1>1, <1>2, Invariance, PTL DEF Spec

(***************************************************************************)
(* Both ranks run to their end: with SomebodyCanGoOn it follows that the   *)
(* client and the server's main leave after finitely many steps, provided  *)
(* only that a step which can be taken is taken.                           *)
(***************************************************************************)
THEOREM RunWindsDown == Spec => WindsDown
<1>1. Init => TakesInv
  BY BenchmarkAssumption DEF Init, RingInit, TakesInv
<1>2. IInv /\ TakesInv /\ [Next]_vars => TakesInv'
  BY TakesStep DEF IInv
<1>3. IInv /\ LiveInv /\ [Next]_vars => [Ahead]_vars
  BY NextAhead
<1>4. TakesInv <=> taken <= MaxTakes
  BY DEF TakesInv
<1> QED
  BY <1>1, <1>2, <1>3, <1>4, Invariance, LiveInvariance, PTL DEF Spec, WindsDown
=============================================================================
