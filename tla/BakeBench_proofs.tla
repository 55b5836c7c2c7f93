-------------------------- MODULE BakeBench_proofs --------------------------
(***************************************************************************)
(* Proofs about BakeBench for every number of clients, workers and         *)
(* regions.                                                                *)
(***************************************************************************)
EXTENDS BakeBench, TLAPS

Behind(p, o) == o \in Regions /\ o < next[p]

(* What was handed out is a region that lies behind the offset, and every  *)
(* region behind it is written or under way.                               *)
QueueInv ==
    /\ \A p \in Pools : \E k \in Nat : next[p] = k * Step
    /\ \A p \in Pools : \A o \in written[p] : Behind(p, o)
    /\ \A w \in Workers : holds[w] # None => Behind(PoolOf[w], holds[w])
    /\ \A p \in Pools : \A o \in Regions :
           o < next[p] => o \in written[p] \/ \E w \in Workers : Writing(w, p, o)

(* A client asks the server to stop when its workers are joined; clients   *)
(* outside the job do nothing, and workers write only while theirs works.  *)
JoinedInv ==
    /\ \A c \in Clients : cpc[c] \in {"stop", "done"} => Joined(c)
    /\ \A c \in Clients : cpc[c] # "absent" <=> c \in ranks
    /\ \A w \in Workers : holds[w] # None => cpc[PoolOf[w]] \in {"work", "failed"}

(* Behind the signal stands a client whose stop request was answered.      *)
SignalInv ==
    /\ \A c \in stopping : cpc[c] = "done"
    /\ eventual = "set" \/ mpc \in {"linger", "detach", "exit"} =>
           \E c \in ranks : cpc[c] = "done"

(* A client that sleeps long enough finds the server set up.               *)
RestInv ==
    ~slow => \A c \in Clients :
        cpc[c] \notin {"absent", "boot"} => mpc \notin {"boot"} \cup SetUp

-----------------------------------------------------------------------------
LEMMA NoneElse == None \notin Nat
  BY DEF None

LEMMA TypeInit == Init => TypeOK
<1> SUFFICES ASSUME Init PROVE TypeOK
  OBVIOUS
<1>1. QueueTypeOK
  BY DEF Init, QueueInit, QueueTypeOK
<1> QED
  BY <1>1 DEF Init, TypeOK, SetUp, Clients

LEMMA TypeStep == TypeOK /\ [Next]_vars => TypeOK'
<1> SUFFICES ASSUME TypeOK, [Next]_vars PROVE TypeOK'
  OBVIOUS
<1> USE BakeAssumption DEF TypeOK, QueueTypeOK, Clients, SetUp
<1>1. CASE MainStep
  BY <1>1 DEF MainStep, Broadcast, Prepare, CreateEventual, Wake, Linger, Detach, queueVars
<1>2. ASSUME NEW c \in Clients, ClientStep(c) PROVE TypeOK'
  BY <1>2 DEF ClientStep, Rest, Probe, Stop, StopUnjoined, serverVars, queueVars
<1>3. ASSUME NEW c \in Clients, StopHandler(c) PROVE TypeOK'
  BY <1>3 DEF StopHandler, RespondStop, Signal, queueVars
<1>4. ASSUME NEW c \in Clients, Refused(c) PROVE TypeOK'
  BY <1>4 DEF Refused, serverVars, queueVars
<1>5. ASSUME NEW w \in Workers, Draw(w) PROVE TypeOK'
  BY <1>5 DEF Draw, Hand, serverVars
<1>6. ASSUME NEW w \in Workers, Write(w) PROVE TypeOK'
  BY <1>6 DEF Write, Put, serverVars
<1>7. CASE UNCHANGED vars
  BY <1>7 DEF vars, serverVars, queueVars
<1> QED
  BY <1>1, <1>2, <1>3, <1>4, <1>5, <1>6, <1>7 DEF Next, WorkerStep

(* Type correctness: in particular no worker holds an offset at or behind  *)
(* the total.                                                              *)
THEOREM TypeCorrect == Spec => []TypeOK
  BY TypeInit, TypeStep, PTL DEF Spec

-----------------------------------------------------------------------------
(* Who moves the queue: only a worker's draw or write. *)
LEMMA StepKinds ==
    ASSUME [Next]_vars
    PROVE  \/ UNCHANGED queueVars
           \/ \E w \in Workers : \/ Draw(w) /\ Hand(w)
                                 \/ Write(w) /\ Put(w)
<1>1. CASE MainStep
  BY <1>1 DEF MainStep, Broadcast, Prepare, CreateEventual, Wake, Linger, Detach
<1>2. ASSUME NEW c \in Clients, ClientStep(c) \/ StopHandler(c) \/ Refused(c)
      PROVE  UNCHANGED queueVars
  BY <1>2 DEF ClientStep, Rest, Probe, Stop, StopUnjoined, StopHandler, RespondStop,
              Signal, Refused
<1>3. CASE UNCHANGED vars
  BY <1>3 DEF vars
<1> QED
  BY <1>1, <1>2, <1>3 DEF Next, WorkerStep, Draw, Write

(* Arithmetic of the regions: a multiple below the total is a region...    *)
LEMMA MultipleIsRegion ==
    ASSUME NEW n \in Nat, n < Total, NEW k \in Nat, n = k * Step
    PROVE  n \in Regions
<1>1. k <= n
  BY BakeAssumption
<1> QED
  BY <1>1, BakeAssumption DEF Regions

(* ...a region is a multiple... *)
LEMMA RegionIsMultiple ==
    ASSUME NEW o \in Regions
    PROVE  o \in Nat /\ o < Total /\ \E k \in Nat : o = k * Step
<1>1. o \in 0..(Total - 1) /\ \E k \in 0..o : o = k * Step
  BY DEF Regions
<1>2. PICK k \in 0..o : o = k * Step
  BY <1>1
<1> QED
  BY <1>1, <1>2, BakeAssumption

(* ...and between two multiples there is none. *)
LEMMA NoneBetween ==
    ASSUME NEW k \in Nat, NEW m \in Nat,
           k * Step <= m * Step, m * Step < k * Step + Step
    PROVE  m * Step = k * Step
<1>1. m < k + 1
  <2> SUFFICES ASSUME m >= k + 1 PROVE FALSE
    OBVIOUS
  <2>1. m * Step >= (k + 1) * Step
    BY BakeAssumption
  <2> QED
    BY <2>1, BakeAssumption
<1>2. m >= k
  <2> SUFFICES ASSUME m + 1 <= k PROVE FALSE
    OBVIOUS
  <2>1. (m + 1) * Step <= k * Step
    BY BakeAssumption
  <2> QED
    BY <2>1, BakeAssumption
<1> QED
  BY <1>1, <1>2

LEMMA QueueStep == TypeOK /\ QueueInv /\ [Next]_vars => QueueInv'
<1> SUFFICES ASSUME TypeOK, QueueInv, [Next]_vars PROVE QueueInv'
  OBVIOUS
<1> USE BakeAssumption DEF TypeOK, QueueTypeOK
<1>1. CASE UNCHANGED queueVars
  BY <1>1 DEF queueVars, QueueInv, Behind, Writing
<1>2. ASSUME NEW w \in Workers, Hand(w) PROVE QueueInv'
  <2> DEFINE p0 == PoolOf[w]
  <2>1. /\ p0 \in Pools /\ next[p0] \in Nat /\ next[p0] < Total /\ holds[w] = None
        /\ holds' = [holds EXCEPT ![w] = next[p0]]
        /\ next' = [next EXCEPT ![p0] = next[p0] + Step]
        /\ written' = written
    BY <1>2 DEF Hand
  <2>2. PICK k \in Nat : next[p0] = k * Step
    BY <2>1 DEF QueueInv
  <2>3. next[p0] \in Regions
    BY <2>1, <2>2, MultipleIsRegion
  <2>4. \A p \in Pools : next[p] \in Nat /\ next'[p] \in Nat /\ next'[p] >= next[p]
    BY <2>1
  <2>5. next[p0] + Step = (k + 1) * Step
    BY <2>2
  <2>6. ASSUME NEW p \in Pools PROVE \E n \in Nat : next'[p] = n * Step
    <3>1. CASE p = p0
      <4>1. next'[p] = (k + 1) * Step /\ k + 1 \in Nat
        BY <2>1, <2>5, <3>1
      <4> QED
        BY <4>1
    <3>2. CASE p # p0
      BY <2>1, <3>2 DEF QueueInv
    <3> QED
      BY <3>1, <3>2
  <2>7. ASSUME NEW p \in Pools, NEW o \in Regions, o < next[p] PROVE o < next'[p]
    <3>1. o \in Nat /\ next[p] \in Nat /\ next'[p] \in Nat /\ next'[p] >= next[p]
      BY <2>4, RegionIsMultiple
    <3> QED
      BY <2>7, <3>1
  <2>8. \A p \in Pools : \A o \in written'[p] : o \in Regions /\ o < next'[p]
    BY <2>1, <2>7 DEF QueueInv, Behind
  <2>9. ASSUME NEW v \in Workers, holds'[v] # None
        PROVE  holds'[v] \in Regions /\ holds'[v] < next'[PoolOf[v]]
    <3>1. CASE v = w
      BY <2>1, <2>3, <3>1
    <3>2. CASE v # w
      <4>1. holds'[v] = holds[v] /\ PoolOf[v] \in Pools
        BY <2>1, <3>2
      <4> QED
        BY <4>1, <2>7, <2>9 DEF QueueInv, Behind
    <3> QED
      BY <3>1, <3>2
  <2>10. ASSUME NEW p \in Pools, NEW o \in Regions, o < next'[p]
         PROVE  o \in written'[p] \/ \E v \in Workers : Writing(v, p, o)'
    <3>1. CASE o < next[p]
      <4>1. CASE o \in written[p]
        BY <2>1, <4>1
      <4>2. CASE \E v \in Workers : Writing(v, p, o)
        <5>1. PICK v \in Workers : PoolOf[v] = p /\ holds[v] = o
          BY <4>2 DEF Writing
        <5>2. v # w
          BY <2>1, <5>1, NoneElse, RegionIsMultiple
        <5> QED
          BY <2>1, <5>1, <5>2 DEF Writing
      <4> QED
        BY <3>1, <4>1, <4>2 DEF QueueInv
    <3>2. CASE ~(o < next[p])
      <4>1. p = p0 /\ o < next[p0] + Step /\ next[p0] <= o
        BY <2>1, <2>10, <3>2, RegionIsMultiple
      <4>2. PICK m \in Nat : o = m * Step
        BY RegionIsMultiple
      <4>3. o = next[p0]
        BY <2>2, <4>1, <4>2, NoneBetween
      <4> QED
        BY <2>1, <4>1, <4>3 DEF Writing
    <3> QED
      BY <3>1, <3>2
  <2> QED
    BY <2>6, <2>8, <2>9, <2>10 DEF QueueInv, Behind
<1>3. ASSUME NEW w \in Workers, Put(w) PROVE QueueInv'
  <2>1. /\ next' = next /\ holds' = [holds EXCEPT ![w] = None] /\ PoolOf[w] \in Pools
        /\ written' = [written EXCEPT ![PoolOf[w]] = written[PoolOf[w]] \cup {holds[w]}]
        /\ holds[w] # None
    BY <1>3 DEF Put
  <2>2. \A p \in Pools : \A o \in written'[p] : o \in Regions /\ o < next'[p]
    BY <2>1 DEF QueueInv, Behind
  <2>3. \A v \in Workers : holds'[v] # None => holds'[v] = holds[v]
    BY <2>1
  <2>4. \A p \in Pools : \A o \in Regions :
            o < next'[p] => o \in written'[p] \/ \E v \in Workers : Writing(v, p, o)'
    BY <2>1 DEF QueueInv, Writing
  <2> QED
    BY <2>1, <2>2, <2>3, <2>4 DEF QueueInv, Behind
<1> QED
  BY StepKinds, <1>1, <1>2, <1>3

LEMMA JoinedStep == TypeOK /\ JoinedInv /\ [Next]_vars => JoinedInv'
<1> SUFFICES ASSUME TypeOK, JoinedInv, [Next]_vars PROVE JoinedInv'
  OBVIOUS
<1> USE BakeAssumption DEF TypeOK, QueueTypeOK, JoinedInv, Clients
<1>1. CASE MainStep
  BY <1>1 DEF MainStep, Broadcast, Prepare, CreateEventual, Wake, Linger, Detach,
              queueVars, Joined
<1>2. ASSUME NEW c \in Clients, Rest(c) \/ Probe(c) PROVE JoinedInv'
  BY <1>2 DEF Rest, Probe, queueVars, Joined
<1>3. ASSUME NEW c \in Clients, Stop(c) PROVE JoinedInv'
  BY <1>3 DEF Stop, StopUnjoined, queueVars, Joined
<1>4. ASSUME NEW c \in Clients, StopHandler(c) PROVE JoinedInv'
  BY <1>4 DEF StopHandler, RespondStop, Signal, queueVars, Joined
<1>5. ASSUME NEW c \in Clients, Refused(c) PROVE JoinedInv'
  <2>1. cpc[c] # "absent"
    BY <1>5 DEF Refused, SetUp, Attached
  <2> QED
    BY <1>5, <2>1 DEF Refused, queueVars, Joined
<1>6. ASSUME NEW w \in Workers, Draw(w) PROVE JoinedInv'
  BY <1>6 DEF Draw, Hand, Joined
<1>7. ASSUME NEW w \in Workers, Write(w) PROVE JoinedInv'
  BY <1>7 DEF Write, Put, Joined
<1>8. CASE UNCHANGED vars
  BY <1>8 DEF vars, queueVars, Joined
<1> QED
  BY <1>1, <1>2, <1>3, <1>4, <1>5, <1>6, <1>7, <1>8 DEF Next, WorkerStep, ClientStep

LEMMA SignalStep ==
    TypeOK /\ JoinedInv /\ SignalInv /\ [Next]_vars => SignalInv'
<1> SUFFICES ASSUME TypeOK, JoinedInv, SignalInv, [Next]_vars PROVE SignalInv'
  OBVIOUS
<1> USE DEF TypeOK, SignalInv, Clients, SetUp
<1>1. CASE MainStep
  BY <1>1 DEF MainStep, Broadcast, Prepare, CreateEventual, Wake, Linger, Detach
<1>2. ASSUME NEW c \in Clients, ClientStep(c) PROVE SignalInv'
  BY <1>2 DEF ClientStep, Rest, Probe, Stop, StopUnjoined, serverVars
<1>3. ASSUME NEW c \in Clients, RespondStop(c) PROVE SignalInv'
  BY <1>3 DEF RespondStop
<1>4. ASSUME NEW c \in Clients, Signal(c) PROVE SignalInv'
  BY <1>4 DEF Signal, JoinedInv
<1>5. ASSUME NEW c \in Clients, Refused(c) PROVE SignalInv'
  <2>1. cpc[c] # "done"
    BY <1>5 DEF Refused, JoinedInv, Joined
  <2> QED
    BY <1>5, <2>1 DEF Refused, serverVars
<1>6. ASSUME NEW w \in Workers, WorkerStep(w) PROVE SignalInv'
  BY <1>6 DEF WorkerStep, Draw, Write, serverVars
<1>7. CASE UNCHANGED vars
  BY <1>7 DEF vars, serverVars
<1> QED
  BY <1>1, <1>2, <1>3, <1>4, <1>5, <1>6, <1>7 DEF Next, StopHandler

LEMMA RestStep ==
    TypeOK /\ JoinedInv /\ RestInv /\ [Next]_vars => RestInv'
<1> SUFFICES ASSUME TypeOK, JoinedInv, RestInv, [Next]_vars PROVE RestInv'
  OBVIOUS
<1> USE BakeAssumption DEF TypeOK, RestInv, Clients, SetUp
<1>1. CASE MainStep
  BY <1>1 DEF MainStep, Broadcast, Prepare, CreateEventual, Wake, Linger, Detach
<1>2. ASSUME NEW c \in Clients, Rest(c) PROVE RestInv'
  BY <1>2 DEF Rest, serverVars
<1>3. ASSUME NEW c \in Clients, Probe(c) \/ Stop(c) PROVE RestInv'
  BY <1>3 DEF Probe, Stop, StopUnjoined, serverVars
<1>4. ASSUME NEW c \in Clients, StopHandler(c) PROVE RestInv'
  BY <1>4 DEF StopHandler, RespondStop, Signal
<1>5. ASSUME NEW c \in Clients, Refused(c) PROVE RestInv'
  <2>1. cpc[c] \notin {"absent", "boot"}
    BY <1>5 DEF Refused, JoinedInv
  <2> QED
    BY <1>5, <2>1 DEF Refused, serverVars
<1>6. ASSUME NEW w \in Workers, WorkerStep(w) PROVE RestInv'
  BY <1>6 DEF WorkerStep, Draw, Write, serverVars
<1>7. CASE UNCHANGED vars
  BY <1>7 DEF vars, serverVars
<1> QED
  BY <1>1, <1>2, <1>3, <1>4, <1>5, <1>6, <1>7 DEF Next, ClientStep

-----------------------------------------------------------------------------
(* The inductive invariant. *)
IInv == TypeOK /\ QueueInv /\ JoinedInv /\ SignalInv /\ RestInv

LEMMA IInvInit == Init => IInv
<1> SUFFICES ASSUME Init PROVE IInv
  OBVIOUS
<1> USE BakeAssumption DEF Clients
<1>1. TypeOK
  BY TypeInit
<1>2. QueueInv
  <2>1. 0 = 0 * Step
    OBVIOUS
  <2>2. \A p \in Pools : \E k \in Nat : next[p] = k * Step
    BY <2>1 DEF Init, QueueInit
  <2>3. \A p \in Pools, o \in Regions : ~(o < next[p])
    BY RegionIsMultiple DEF Init, QueueInit
  <2> QED
    BY <2>2, <2>3 DEF Init, QueueInit, QueueInv
<1>3. JoinedInv
  BY DEF Init, QueueInit, JoinedInv
<1>4. SignalInv /\ RestInv
  BY DEF Init, SignalInv, RestInv
<1> QED
  BY <1>1, <1>2, <1>3, <1>4 DEF IInv

LEMMA IInvStep == IInv /\ [Next]_vars => IInv'
  BY TypeStep, QueueStep, JoinedStep, SignalStep, RestStep DEF IInv

LEMMA Inductive == Spec => []IInv
  BY IInvInit, IInvStep, PTL DEF Spec

(* A client that was joined has written all its regions. *)
LEMMA JoinedWrote ==
    ASSUME IInv, NEW c \in Clients, cpc[c] \in {"stop", "done"}
    PROVE  written[c] = Regions
<1>1. next[c] >= Total /\ next[c] \in Nat /\ Total \in Nat
      /\ \A w \in Workers : PoolOf[w] = c => holds[w] = None
  BY BakeAssumption DEF IInv, JoinedInv, Joined, TypeOK, QueueTypeOK, Clients
<1>2. written[c] \subseteq Regions
  BY DEF IInv, QueueInv, Behind, Clients
<1>3. ASSUME NEW o \in Regions PROVE o \in written[c]
  <2>1. o < next[c] /\ o # None
    BY <1>1, RegionIsMultiple, NoneElse
  <2> QED
    BY <1>1, <2>1 DEF IInv, QueueInv, Writing, Clients
<1> QED
  BY <1>2, <1>3

(* The server of bake-p2p-bw leaves its wait only when a client has        *)
(* written everything and its stop request was answered.                   *)
THEOREM ServerOutlivesWork == Spec => []DownAfterWork
<1>1. IInv => DownAfterWork
  BY JoinedWrote DEF IInv, SignalInv, DownAfterWork, TypeOK, Clients
<1> QED
  BY <1>1, Inductive, PTL

(* One client that sleeps long enough is never refused; a stopped server   *)
(* can only mean that this client has stopped it.                          *)
THEOREM SingleClientServed == Spec => []AloneServed
<1>1. Init => AloneServed
  BY DEF Init, AloneServed, Alone, Failed, Clients
<1>2. IInv /\ AloneServed /\ [Next]_vars => AloneServed'
  <2> SUFFICES ASSUME IInv, AloneServed, [Next]_vars, Alone', Failed' PROVE FALSE
    BY DEF AloneServed
  <2>1. Alone /\ ~Failed
    <3>1. UNCHANGED <<ranks, slow>>
      BY DEF Next, MainStep, Broadcast, Prepare, CreateEventual, Wake, Linger, Detach,
             ClientStep, Rest, Probe, Stop, StopUnjoined, StopHandler, RespondStop,
             Signal, Refused, WorkerStep, Draw, Write, vars
    <3> QED
      BY <3>1 DEF Alone, AloneServed
  <2>2. PICK c \in Clients : Refused(c)
    <3>1. ASSUME ~ \E c \in Clients : Refused(c)
          PROVE  \A c \in Clients : cpc'[c] = "failed" => cpc[c] = "failed"
      BY <3>1 DEF IInv, TypeOK, Next, MainStep, Broadcast, Prepare, CreateEventual, Wake,
             Linger, Detach, ClientStep, Rest, Probe, Stop, StopUnjoined, StopHandler,
             RespondStop, Signal, WorkerStep, Draw, Write, vars, serverVars
    <3> QED
      BY <2>1, <3>1 DEF Failed
  <2>3. cpc[c] \in {"probe", "work", "stop", "done"} /\ ranks = {c}
    BY <2>1, <2>2 DEF Refused, IInv, JoinedInv, TypeOK, Failed, Alone
  <2>4. mpc \notin {"linger", "detach", "exit"}
    <3>1. cpc[c] # "done"
      BY <2>2 DEF Refused, IInv, JoinedInv, Joined
    <3> QED
      BY <2>3, <3>1 DEF IInv, SignalInv
  <2>5. Attached
    BY <2>1, <2>3, <2>4 DEF Attached, IInv, TypeOK, RestInv, SetUp, Alone
  <2> QED
    BY <2>2, <2>4, <2>5 DEF Refused
<1> QED
  BY <1>1, <1>2, Inductive, PTL DEF Spec

-----------------------------------------------------------------------------
(* Deadlock.  Who can take a step, with the guards of the actions spelled   *)
(* out.                                                                    *)
CanServe ==
    \/ mpc \in {"boot", "linger", "detach"} \cup SetUp
    \/ mpc = "wait" /\ eventual = "set"

CanAsk(c) ==
    \/ cpc[c] = "boot" /\ mpc # "boot" /\ (slow \/ mpc \notin SetUp)
    \/ cpc[c] = "probe" /\ Attached
    \/ cpc[c] = "work" /\ Joined(c)

CanAnswer(c) == (cpc[c] = "stop" /\ mpc # "exit") \/ c \in stopping

CanFail(c) ==
    \/ cpc[c] = "probe" /\ ~Attached
    \/ cpc[c] = "stop" /\ mpc = "exit"
    \/ cpc[c] # "failed" /\ ~Attached /\ \E w \in Workers : PoolOf[w] = c /\ holds[w] # None

CanWork(w) ==
    \/ cpc[PoolOf[w]] = "work" /\ holds[w] = None /\ next[PoolOf[w]] < Total
    \/ cpc[PoolOf[w]] # "failed" /\ holds[w] # None /\ Attached

Ended == mpc = "exit" /\ \A c \in ranks : cpc[c] \in {"done", "failed"}

NeverStuck ==
    \/ Ended
    \/ slow /\ LeftWaiting
    \/ CanServe
    \/ \E c \in Clients : CanAsk(c) \/ CanAnswer(c) \/ CanFail(c)
    \/ \E w \in Workers : CanWork(w)

(* Clients that sleep long enough find the eventual created: none of their *)
(* signals is lost, and they fail only when main has left.                 *)
ToldInv ==
    ~slow =>
        /\ mpc \notin {"boot"} \cup SetUp => eventual # "null"
        /\ \A c \in Clients : cpc[c] = "done" /\ c \notin stopping => eventual = "set"
        /\ \A c \in Clients : cpc[c] = "failed" => mpc = "exit"

LEMMA ToldStep == IInv /\ ToldInv /\ [Next]_vars => ToldInv'
<1> SUFFICES ASSUME IInv, ToldInv, [Next]_vars PROVE ToldInv'
  OBVIOUS
<1>0. slow' = slow
  BY DEF Next, MainStep, Broadcast, Prepare, CreateEventual, Wake, Linger, Detach, ClientStep,
         Rest, Probe, Stop, StopUnjoined, StopHandler, RespondStop, Signal, Refused,
         WorkerStep, Draw, Write, vars
<1> SUFFICES ASSUME ~slow PROVE ToldInv'
  BY <1>0 DEF ToldInv
<1> USE DEF IInv, TypeOK, ToldInv, Clients, SetUp
<1>1. CASE MainStep
  <2>1. CASE CreateEventual
    <3>1. \A c \in Clients : cpc[c] \in {"absent", "boot"}
      BY <2>1 DEF CreateEventual, RestInv
    <3> QED
      BY <2>1, <3>1 DEF CreateEventual
  <2>2. CASE Broadcast \/ Prepare \/ Wake \/ Linger \/ Detach
    BY <2>2 DEF Broadcast, Prepare, Wake, Linger, Detach
  <2> QED
    BY <1>1, <2>1, <2>2 DEF MainStep
<1>2. ASSUME NEW c \in Clients, ClientStep(c) PROVE ToldInv'
  BY <1>2 DEF ClientStep, Rest, Probe, Stop, StopUnjoined, serverVars
<1>3. ASSUME NEW c \in Clients, RespondStop(c) PROVE ToldInv'
  BY <1>3 DEF RespondStop
<1>4. ASSUME NEW c \in Clients, Signal(c) PROVE ToldInv'
  <2>1. cpc[c] = "done"
    BY <1>4 DEF Signal, SignalInv
  <2>2. eventual # "null"
    BY <2>1 DEF RestInv
  <2> QED
    BY <1>4, <2>2 DEF Signal
<1>5. ASSUME NEW c \in Clients, Refused(c) PROVE ToldInv'
  <2>1. cpc[c] \notin {"absent", "boot", "done"}
    BY <1>5 DEF Refused, JoinedInv, Joined
  <2>2. mpc \notin {"boot"} \cup SetUp
    BY <2>1 DEF RestInv
  <2>3. mpc = "exit"
    BY <1>5, <2>2 DEF Refused, Attached
  <2> QED
    BY <1>5, <2>1, <2>3 DEF Refused, serverVars
<1>6. ASSUME NEW w \in Workers, WorkerStep(w) PROVE ToldInv'
  BY <1>6 DEF WorkerStep, Draw, Write, serverVars
<1>7. CASE UNCHANGED vars
  BY <1>7 DEF vars, serverVars
<1> QED
  BY <1>1, <1>2, <1>3, <1>4, <1>5, <1>6, <1>7 DEF Next, StopHandler

LEMMA ToldInvariance == Spec => []ToldInv
<1>1. Init => ToldInv
  BY DEF Init, ToldInv, Clients
<1>2. IInv /\ ToldInv /\ [Next]_vars => ToldInv'
  BY ToldStep
<1> QED
  BY <1>1, <1>2, Inductive, PTL DEF Spec

LEMMA JobHasClient == ASSUME TypeOK PROVE \E c \in Clients : c \in ranks
  BY DEF TypeOK

(* Whatever main does, a client that has not come to its end can go on, or *)
(* fail, unless it waits for main's set-up.                                *)
LEMMA ClientCanGoOn ==
    ASSUME IInv, NEW c \in ranks, mpc \in {"wait", "exit"},
           cpc[c] \notin {"done", "failed"}
    PROVE  \/ CanAsk(c) \/ CanAnswer(c) \/ CanFail(c)
           \/ \E w \in Workers : CanWork(w)
<1> USE BakeAssumption DEF IInv, TypeOK, QueueTypeOK, Clients
<1>1. CASE cpc[c] \in {"boot", "probe"}
  BY <1>1 DEF CanAsk, CanFail, SetUp
<1>2. CASE cpc[c] = "stop"
  BY <1>2 DEF CanAnswer, CanFail
<1>3. CASE cpc[c] = "work"
  <2>1. CASE \E w \in Workers : PoolOf[w] = c /\ holds[w] # None
    BY <1>3, <2>1 DEF CanFail, CanWork
  <2>2. CASE \A w \in Workers : PoolOf[w] = c => holds[w] = None
    <3>1. CASE next[c] < Total
      <4>1. PICK w \in Workers : PoolOf[w] = c
        OBVIOUS
      <4> QED
        BY <1>3, <2>2, <3>1, <4>1 DEF CanWork
    <3>2. CASE next[c] >= Total
      BY <1>3, <2>2, <3>2 DEF CanAsk, Joined
    <3>3. next[c] \in Nat
      OBVIOUS
    <3> QED
      BY <3>1, <3>2, <3>3
  <2> QED
    BY <2>1, <2>2
<1>4. cpc[c] # "absent"
  BY DEF JoinedInv
<1> QED
  BY <1>1, <1>2, <1>3, <1>4

(***************************************************************************)
(* Somebody can take a step until main has left and every client is done   *)
(* or was refused.  With clients that sleep long enough no stop request is *)
(* answered without main being told; if they do not, main may be left      *)
(* waiting when all of them have ended.                                    *)
(***************************************************************************)
THEOREM SomebodyCanGoOn == Spec => []NeverStuck
<1>1. IInv /\ ToldInv => NeverStuck
  <2> SUFFICES ASSUME IInv, ToldInv, ~CanServe PROVE NeverStuck
    BY DEF NeverStuck
  <2> USE DEF IInv, TypeOK, Clients
  <2>1. mpc \in {"wait", "exit"} /\ (mpc = "wait" => eventual # "set")
    BY DEF CanServe
  <2>2. CASE \E c \in ranks : cpc[c] \notin {"done", "failed"}
    BY <2>1, <2>2, ClientCanGoOn DEF NeverStuck
  <2>3. CASE \A c \in ranks : cpc[c] \in {"done", "failed"}
    <3>1. CASE mpc = "exit"
      BY <2>3, <3>1 DEF Ended, NeverStuck
    <3>2. CASE mpc = "wait" /\ slow
      <4>1. CASE stopping = {}
        BY <2>1, <2>3, <3>2, <4>1 DEF LeftWaiting, NeverStuck
      <4>2. CASE stopping # {}
        BY <4>2 DEF CanAnswer, NeverStuck
      <4> QED
        BY <4>1, <4>2
    <3>3. CASE mpc = "wait" /\ ~slow
      <4>1. PICK c \in ranks : cpc[c] \in {"done", "failed"}
        BY <2>3, JobHasClient
      <4>2. c \in stopping
        BY <2>1, <3>3, <4>1 DEF ToldInv
      <4> QED
        BY <4>2 DEF CanAnswer, NeverStuck
    <3> QED
      BY <2>1, <3>1, <3>2, <3>3
  <2> QED
    BY <2>2, <2>3
<1> QED
  BY <1>1, Inductive, ToldInvariance, PTL

-----------------------------------------------------------------------------
(* The end comes.                                                          *)

(* How far main and a client have come. *)
MainOrder ==
    [boot |-> 0, register |-> 1, attach |-> 2, create |-> 3, wait |-> 4, linger |-> 5,
     detach |-> 6, exit |-> 7]

ClientOrder ==
    [absent |-> 0, boot |-> 0, probe |-> 1, work |-> 2, stop |-> 3, done |-> 4, failed |-> 5]

MainAhead == MainOrder[mpc'] > MainOrder[mpc]

ClientAhead(c) == ClientOrder[cpc'[c]] > ClientOrder[cpc[c]]

(* The stop handler of a client has signalled main and ends. *)
HandlerAhead == UNCHANGED cpc /\ \E c \in stopping : stopping' = stopping \ {c}

(* A worker draws a region, or has written one. *)
WorkerAhead(w) ==
    /\ UNCHANGED <<cpc, stopping>>
    /\ \/ next'[PoolOf[w]] > next[PoolOf[w]]
       \/ holds[w] # None /\ holds' = [holds EXCEPT ![w] = None] /\ UNCHANGED next

(* Nobody goes back, and somebody goes on. *)
Ahead ==
    /\ UNCHANGED mpc \/ MainAhead
    /\ \A c \in Clients : cpc'[c] = cpc[c] \/ ClientAhead(c)
    /\ \A c \in Clients : next'[c] >= next[c]
    /\ \/ MainAhead \/ HandlerAhead
       \/ \E c \in Clients : ClientAhead(c)
       \/ \E w \in Workers : WorkerAhead(w)

OffsetsBounded == \A c \in Clients : next[c] < Total + Step

(* The job holds no cycle, and no client draws regions for ever. *)
WindsDown == []OffsetsBounded /\ [][Ahead]_vars

LEMMA OffsetStep == TypeOK /\ OffsetsBounded /\ [Next]_vars => OffsetsBounded'
<1> SUFFICES ASSUME TypeOK, OffsetsBounded, [Next]_vars PROVE OffsetsBounded'
  OBVIOUS
<1>1. ASSUME UNCHANGED next PROVE OffsetsBounded'
  BY <1>1 DEF OffsetsBounded
<1>2. ASSUME NEW w \in Workers, Draw(w) PROVE OffsetsBounded'
  BY <1>2, BakeAssumption DEF Draw, Hand, TypeOK, QueueTypeOK, OffsetsBounded, Clients
<1>3. ASSUME NEW w \in Workers, Write(w) PROVE UNCHANGED next
  BY <1>3 DEF Write, Put
<1> QED
  BY <1>1, <1>2, <1>3 DEF Next, MainStep, Broadcast, Prepare, CreateEventual, Wake, Linger, Detach,
     ClientStep, Rest, Probe, Stop, StopUnjoined, StopHandler, RespondStop, Signal, Refused,
     WorkerStep, vars, queueVars

LEMMA NextAhead == IInv /\ [Next]_vars => [Ahead]_vars
<1> SUFFICES ASSUME IInv, Next, vars' # vars PROVE Ahead
  OBVIOUS
<1> USE BakeAssumption DEF IInv, TypeOK, QueueTypeOK, Clients, SetUp
<1>1. ASSUME UNCHANGED queueVars PROVE \A c \in Clients : next'[c] >= next[c]
  BY <1>1 DEF queueVars
<1>2. CASE MainStep
  <2>1. MainAhead /\ UNCHANGED <<queueVars, cpc>>
    BY <1>2 DEF MainStep, Broadcast, Prepare, CreateEventual, Wake, Linger, Detach, MainAhead,
       MainOrder
  <2> QED
    BY <1>1, <2>1 DEF Ahead
<1>3. ASSUME NEW c \in Clients, ClientStep(c) \/ RespondStop(c) PROVE Ahead
  <2>1. ClientAhead(c) /\ (\A d \in Clients : d # c => cpc'[d] = cpc[d])
        /\ UNCHANGED <<queueVars, mpc>>
    BY <1>3 DEF ClientStep, Rest, Probe, Stop, StopUnjoined, RespondStop, serverVars,
       ClientAhead, ClientOrder
  <2> QED
    BY <1>1, <2>1 DEF Ahead
<1>4. ASSUME NEW c \in Clients, Signal(c) PROVE Ahead
  <2>1. HandlerAhead /\ UNCHANGED <<queueVars, mpc, cpc>>
    BY <1>4 DEF Signal, HandlerAhead
  <2> QED
    BY <1>1, <2>1 DEF Ahead
<1>5. ASSUME NEW c \in Clients, Refused(c) PROVE Ahead
  <2>1. UNCHANGED <<queueVars, ranks, slow, serverVars>> /\ cpc' = [cpc EXCEPT ![c] = "failed"]
    BY <1>5 DEF Refused
  <2>2. cpc[c] \in {"probe", "work", "stop", "failed"}
    BY <1>5 DEF Refused, JoinedInv
  <2>3. cpc[c] # "failed"
    BY <2>1 DEF vars
  <2>4. ClientAhead(c) /\ (\A d \in Clients : d # c => cpc'[d] = cpc[d]) /\ UNCHANGED mpc
    BY <2>1, <2>2, <2>3 DEF ClientAhead, ClientOrder, serverVars
  <2> QED
    BY <1>1, <2>1, <2>4 DEF Ahead
<1>6. ASSUME NEW w \in Workers, WorkerStep(w) PROVE Ahead
  <2>1. UNCHANGED <<mpc, cpc>>
    BY <1>6 DEF WorkerStep, Draw, Write, serverVars
  <2>2. WorkerAhead(w) /\ \A c \in Clients : next'[c] >= next[c]
    <3>1. CASE Draw(w)
      BY <3>1 DEF Draw, Hand, serverVars, WorkerAhead
    <3>2. CASE Write(w)
      BY <3>2 DEF Write, Put, serverVars, WorkerAhead
    <3> QED
      BY <1>6, <3>1, <3>2 DEF WorkerStep
  <2> QED
    BY <2>1, <2>2 DEF Ahead
<1> QED
  BY <1>2, <1>3, <1>4, <1>5, <1>6 DEF Next, StopHandler

(***************************************************************************)
(* Main, the clients, their workers and the stop handlers only go forward, *)
(* so with SomebodyCanGoOn a job comes to its end, or main is left waiting *)
(* after a slow set-up, provided that a step which can be taken is taken.  *)
(***************************************************************************)
THEOREM JobWindsDown == Spec => WindsDown
<1>1. Init => OffsetsBounded
  BY BakeAssumption DEF Init, QueueInit, OffsetsBounded, Clients
<1>2. IInv /\ OffsetsBounded /\ [Next]_vars => OffsetsBounded'
  BY OffsetStep DEF IInv
<1> QED
  BY <1>1, <1>2, NextAhead, Inductive, PTL DEF Spec, WindsDown

-----------------------------------------------------------------------------
(* The regions. *)

(***************************************************************************)
(* No region of a client is written by two of its workers, or twice,       *)
(* whatever the server does meanwhile.                                     *)
(***************************************************************************)
THEOREM RegionsWrittenOnce == Spec => []OneWriter
<1>1. Init => OneWriter
  BY DEF Init, QueueInit, OneWriter
<1>2. IInv /\ OneWriter /\ [Next]_vars => OneWriter'
  <2> SUFFICES ASSUME IInv, OneWriter, [Next]_vars PROVE OneWriter'
    OBVIOUS
  <2> USE BakeAssumption DEF IInv, TypeOK, QueueTypeOK, OneWriter, Writing
  <2>1. ASSUME NEW w \in Workers, Hand(w) PROVE OneWriter'
    <3>1. /\ next[PoolOf[w]] \notin written[PoolOf[w]]
          /\ \A v \in Workers : ~Writing(v, PoolOf[w], next[PoolOf[w]])
      BY NoneElse DEF QueueInv, Behind
    <3> QED
      BY <2>1, <3>1 DEF Hand
  <2>2. ASSUME NEW w \in Workers, Put(w) PROVE OneWriter'
    BY <2>2 DEF Put
  <2>3. ASSUME UNCHANGED queueVars PROVE OneWriter'
    BY <2>3 DEF queueVars
  <2>4. [QueueNext]_queueVars
    BY StepKinds DEF QueueNext
  <2> QED
    BY <2>1, <2>2, <2>3, <2>4 DEF QueueNext
<1> QED
  BY <1>1, <1>2, Inductive, PTL DEF Spec
=============================================================================
