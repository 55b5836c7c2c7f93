------------------------- MODULE NoopPrograms_proofs -------------------------
(***************************************************************************)
(* Proofs about NoopPrograms and what it is composed of, for every number  *)
(* of clients, calls and forwards.                                         *)
(***************************************************************************)
EXTENDS NoopPrograms, FiniteSetTheorems, WellFoundedInduction, TLAPS

(***************************************************************************)
(* NoopService                                                             *)
(***************************************************************************)

(* The calls that were answered, each client's numbered from 1.            *)
Answered(c, k) == k <= Iters - left[c] \/ (c \in answers /\ k = Iters - left[c] + 1)

Responded == {p \in Callers \X (1..Iters) : Answered(p[1], p[2])}

(* A client has one call at a time, which is on its way to the server or   *)
(* back.                                                                   *)
ClientInv ==
    /\ \A c \in arrived : c \notin answers /\ cpc[c] \in {"await", "failed"} /\ left[c] >= 1
    /\ \A c \in answers : cpc[c] \in {"await", "failed"}
    /\ \A c \in Clients : /\ cpc[c] # "done" => c \in Callers
                          /\ cpc[c] \in {"call", "await"} => left[c] >= 1

(* Every answer belongs to a handler that counted itself or is about to.   *)
CountInv ==
    /\ serviced + suspended = Cardinality(Responded)
    /\ serviced \in Nat /\ suspended \in Nat
    /\ eventual = "set" => serviced = Total
    /\ mpc = "leave" => eventual = "set"

ServiceType ==
    /\ program \in Programs
    /\ timed \in BOOLEAN
    /\ mpc \in {"setup", "wait", "leave"}
    /\ eventual \in {"null", "unset", "set"}
    /\ arrived \subseteq Clients
    /\ answers \subseteq Clients
    /\ cpc \in [Clients -> {"call", "await", "done", "failed"}]
    /\ left \in [Clients -> 0..Iters]

ServiceInv == ServiceType /\ ClientInv /\ CountInv

-----------------------------------------------------------------------------
LEMMA CallerTypes ==
    /\ IsFiniteSet(Callers) /\ Callers \subseteq Clients
    /\ Cardinality(Callers) \in Nat
    /\ Iters \in Nat \ {0} /\ Warmup \in 0..(Iters - 1)
    /\ Total \in Nat
<1>1. IsFiniteSet(Clients) /\ Clients # {} /\ Iters \in Nat \ {0} /\ Warmup \in 0..(Iters - 1)
  BY NoopAssumption
<1>2. (CHOOSE c \in Clients : TRUE) \in Clients
  BY <1>1
<1>3. Callers \subseteq Clients
  BY <1>2 DEF Callers
<1>4. IsFiniteSet(Callers) /\ Cardinality(Callers) \in Nat
  BY <1>1, <1>3, FS_Subset, FS_CardinalityType
<1> QED
  BY <1>1, <1>3, <1>4 DEF Total

(* All calls of all clients. *)
LEMMA AllCalls ==
    /\ IsFiniteSet(Callers \X (1..Iters))
    /\ Cardinality(Callers \X (1..Iters)) = Total
<1>1. IsFiniteSet(1..Iters) /\ Cardinality(1..Iters) = Iters
  BY CallerTypes, FS_Interval
<1> QED
  BY <1>1, CallerTypes, FS_Product DEF Total

LEMMA RespondedBound ==
    /\ IsFiniteSet(Responded)
    /\ Cardinality(Responded) \in Nat
    /\ Cardinality(Responded) <= Total
    /\ Cardinality(Responded) = Total => Responded = Callers \X (1..Iters)
<1>1. Responded \in SUBSET (Callers \X (1..Iters))
  BY DEF Responded
<1> QED
  BY <1>1, AllCalls, FS_Subset, FS_CardinalityType

LEMMA AddCall ==
    ASSUME NEW p, p \notin Responded
    PROVE  Cardinality(Responded \cup {p}) = Cardinality(Responded) + 1
  BY RespondedBound, FS_AddElement

LEMMA ServiceInit == Init => ServiceInv
<1> SUFFICES ASSUME Init PROVE ServiceInv
  OBVIOUS
<1>1. ServiceType
  <2>1. timed \in BOOLEAN
    BY DEF Init
  <2>2. /\ cpc \in [Clients -> {"call", "await", "done", "failed"}]
        /\ left \in [Clients -> 0..Iters]
    BY CallerTypes DEF Init
  <2> QED
    BY <2>1, <2>2 DEF Init, ServiceType
<1>2. ClientInv
  BY CallerTypes DEF Init, ClientInv
<1>3. Responded = {}
  <2> SUFFICES ASSUME NEW c \in Callers, NEW k \in 1..Iters, Answered(c, k) PROVE FALSE
    BY DEF Responded
  <2>1. left[c] = Iters /\ answers = {}
    BY CallerTypes DEF Init
  <2> QED
    BY <2>1, CallerTypes DEF Answered
<1>4. CountInv
  BY <1>3, FS_EmptySet DEF Init, CountInv
<1> QED
  BY <1>1, <1>2, <1>4 DEF ServiceInv

(* Calls and answers, as sets of pairs. *)
LEMMA SameCalls ==
    ASSUME UNCHANGED <<program, left, answers>>
    PROVE  Callers' = Callers /\ Total' = Total /\ Responded' = Responded
  BY DEF Callers, Total, Responded, Answered

LEMMA ServiceTypeStep == ServiceType /\ ClientInv /\ [Next]_vars => ServiceType'
<1> SUFFICES ASSUME ServiceType, ClientInv, [Next]_vars PROVE ServiceType'
  OBVIOUS
<1> USE CallerTypes DEF ServiceType, options, serverVars, clientVars
<1>1. CASE CreateEventual \/ Wake
  BY <1>1 DEF CreateEventual, Wake
<1>2. CASE Count
  BY <1>2 DEF Count, Signal
<1>3. ASSUME NEW c \in Clients, Respond(c) PROVE ServiceType'
  BY <1>3 DEF Respond
<1>4. ASSUME NEW c \in Clients, Forward(c) PROVE ServiceType'
  BY <1>4 DEF Forward
<1>5. ASSUME NEW c \in Clients, Receive(c) PROVE ServiceType'
  <2>1. left[c] >= 1
    BY <1>5 DEF Receive, ClientInv
  <2> QED
    BY <1>5, <2>1 DEF Receive
<1>6. ASSUME NEW c \in Clients, GiveUp(c) \/ Abort(c) PROVE ServiceType'
  BY <1>6 DEF GiveUp, Abort
<1>7. CASE UNCHANGED vars
  BY <1>7 DEF vars
<1> QED
  BY <1>1, <1>2, <1>3, <1>4, <1>5, <1>6, <1>7 DEF Next

LEMMA ClientStep == ServiceType /\ ClientInv /\ [Next]_vars => ClientInv'
<1> SUFFICES ASSUME ServiceType, ClientInv, [Next]_vars PROVE ClientInv'
  OBVIOUS
<1> USE CallerTypes DEF ServiceType, ClientInv, options, serverVars, clientVars
<1>0. Callers' = Callers
  BY DEF Next, CreateEventual, Wake, Count, Respond, Forward, Receive, GiveUp, Abort, vars, Callers
<1>1. CASE CreateEventual \/ Wake \/ Count
  BY <1>0, <1>1 DEF CreateEventual, Wake, Count
<1>2. ASSUME NEW c \in Clients, Respond(c) PROVE ClientInv'
  BY <1>0, <1>2 DEF Respond
<1>3. ASSUME NEW c \in Clients, Forward(c) PROVE ClientInv'
  <2>1. c \notin answers /\ cpc'[c] = "await" /\ \A d \in Clients \ {c} : cpc'[d] = cpc[d]
    BY <1>3 DEF Forward
  <2>2. arrived' = arrived \cup {c} /\ UNCHANGED <<answers, left>>
    BY <1>3 DEF Forward
  <2>3. c \in Callers /\ left[c] >= 1
    BY <1>3 DEF Forward
  <2> QED
    BY <1>0, <2>1, <2>2, <2>3
<1>4. ASSUME NEW c \in Clients, Receive(c) PROVE ClientInv'
  <2>1. c \notin arrived /\ cpc[c] = "await" /\ c \in Callers /\ left[c] >= 1
    BY <1>4 DEF Receive
  <2>2. /\ arrived' = arrived /\ answers' = answers \ {c}
        /\ \A d \in Clients \ {c} : cpc'[d] = cpc[d] /\ left'[d] = left[d]
        /\ left'[c] = left[c] - 1
        /\ cpc'[c] = IF left[c] > 1 THEN "call" ELSE "done"
    BY <1>4 DEF Receive
  <2> QED
    BY <1>0, <2>1, <2>2
<1>5. ASSUME NEW c \in Clients, GiveUp(c) PROVE ClientInv'
  BY <1>0, <1>5 DEF GiveUp
<1>6. ASSUME NEW c \in Clients, Abort(c) PROVE ClientInv'
  <2>1. c \in Callers /\ cpc'[c] = "failed" /\ \A d \in Clients \ {c} : cpc'[d] = cpc[d]
    BY <1>6 DEF Abort
  <2>2. arrived' \subseteq arrived /\ UNCHANGED <<answers, left>>
    BY <1>6 DEF Abort
  <2> QED
    BY <1>0, <2>1, <2>2
<1>7. CASE UNCHANGED vars
  BY <1>0, <1>7 DEF vars
<1> QED
  BY <1>1, <1>2, <1>3, <1>4, <1>5, <1>6, <1>7 DEF Next

(* Answering adds one call, receiving the answer none. *)
LEMMA RespondAdds ==
    ASSUME ServiceType, ClientInv, NEW c \in Clients, Respond(c)
    PROVE  Cardinality(Responded') = Cardinality(Responded) + 1 /\ Total' = Total
<1> DEFINE p == <<c, Iters - left[c] + 1>>
<1> USE CallerTypes DEF ServiceType
<1>1. /\ c \in Callers /\ left[c] >= 1 /\ c \notin answers /\ left[c] \in 0..Iters
      /\ answers' = answers \cup {c} /\ UNCHANGED <<program, left>>
  BY DEF Respond, ClientInv, options, clientVars
<1>2. Callers' = Callers /\ Total' = Total
  BY <1>1 DEF Callers, Total
<1>3. p \in Callers \X (1..Iters) /\ p \notin Responded
  BY <1>1 DEF Responded, Answered
<1>4. Responded' = Responded \cup {p}
  <2>1. ASSUME NEW q \in Callers \X (1..Iters)
        PROVE  Answered(q[1], q[2])' <=> Answered(q[1], q[2]) \/ q = p
    <3>1. CASE q[1] = c
      BY <1>1, <3>1 DEF Answered
    <3>2. CASE q[1] # c
      BY <1>1, <3>2 DEF Answered
    <3> QED
      BY <3>1, <3>2
  <2> QED
    BY <1>2, <1>3, <2>1 DEF Responded
<1> QED
  BY <1>2, <1>3, <1>4, AddCall

LEMMA ReceiveAddsNone ==
    ASSUME ServiceType, ClientInv, NEW c \in Clients, Receive(c)
    PROVE  Responded' = Responded /\ Total' = Total
<1> USE CallerTypes DEF ServiceType
<1>1. /\ c \in Callers /\ left[c] >= 1 /\ c \in answers /\ left[c] \in 0..Iters
      /\ answers' = answers \ {c} /\ UNCHANGED program
      /\ left'[c] = left[c] - 1 /\ \A d \in Clients \ {c} : left'[d] = left[d]
  BY DEF Receive, ClientInv, options
<1>2. Callers' = Callers /\ Total' = Total
  BY <1>1 DEF Callers, Total
<1>3. ASSUME NEW q \in Callers \X (1..Iters)
      PROVE  Answered(q[1], q[2])' <=> Answered(q[1], q[2])
  <2>1. CASE q[1] = c
    BY <1>1, <2>1 DEF Answered
  <2>2. CASE q[1] # c
    BY <1>1, <2>2 DEF Answered
  <2> QED
    BY <2>1, <2>2
<1> QED
  BY <1>2, <1>3 DEF Responded

LEMMA CountStep == ServiceInv /\ [Next]_vars => CountInv'
<1> SUFFICES ASSUME ServiceInv, [Next]_vars PROVE CountInv'
  OBVIOUS
<1> USE CallerTypes, RespondedBound DEF ServiceInv, CountInv
<1>1. CASE CreateEventual
  <2>1. UNCHANGED <<program, left, answers, suspended, serviced>> /\ mpc' = "wait"
        /\ eventual' = "unset"
    BY <1>1 DEF CreateEventual, options, clientVars
  <2> QED
    BY <2>1, SameCalls
<1>2. CASE Wake
  <2>1. UNCHANGED <<program, left, answers, suspended, serviced, eventual>> /\ eventual = "set"
    BY <1>2 DEF Wake, options, clientVars
  <2> QED
    BY <2>1, SameCalls
<1>3. CASE Count
  <2>1. /\ UNCHANGED <<program, left, answers, mpc>>
        /\ suspended' = suspended - 1 /\ serviced' = serviced + 1 /\ suspended > 0
        /\ eventual' = IF serviced' = Total /\ eventual # "null" THEN "set" ELSE eventual
    BY <1>3 DEF Count, Signal, options, clientVars
  <2>2. serviced # Total
    BY <2>1
  <2> QED
    BY <2>1, <2>2, SameCalls
<1>4. ASSUME NEW c \in Clients, Respond(c) PROVE CountInv'
  <2>1. suspended' = suspended + 1 /\ UNCHANGED <<serviced, eventual, mpc>>
    BY <1>4 DEF Respond
  <2> QED
    BY <1>4, <2>1, RespondAdds
<1>5. ASSUME NEW c \in Clients, Receive(c) PROVE CountInv'
  <2>1. UNCHANGED <<suspended, serviced, eventual, mpc>>
    BY <1>5 DEF Receive, serverVars
  <2> QED
    BY <1>5, <2>1, ReceiveAddsNone
<1>6. ASSUME NEW c \in Clients, Forward(c) \/ GiveUp(c) \/ Abort(c) PROVE CountInv'
  <2>1. UNCHANGED <<program, left, answers, suspended, serviced, eventual, mpc>>
    BY <1>6 DEF Forward, GiveUp, Abort, options, serverVars
  <2> QED
    BY <2>1, SameCalls
<1>7. CASE UNCHANGED vars
  <2>1. UNCHANGED <<program, left, answers, suspended, serviced, eventual, mpc>>
    BY <1>7 DEF vars, options, serverVars, clientVars
  <2> QED
    BY <2>1, SameCalls
<1> QED
  BY <1>1, <1>2, <1>3, <1>4, <1>5, <1>6, <1>7 DEF Next

LEMMA ServiceInvariance == Spec => []ServiceInv
<1>1. ServiceInv /\ [Next]_vars => ServiceInv'
  BY ServiceTypeStep, ClientStep, CountStep DEF ServiceInv
<1> QED
  BY <1>1, ServiceInit, PTL DEF Spec

LEMMA ServiceTypeOK == ServiceInv => TypeOK
<1> SUFFICES ASSUME ServiceInv PROVE TypeOK
  OBVIOUS
<1>1. serviced \in 0..Total
  BY CallerTypes, RespondedBound DEF ServiceInv, CountInv
<1> QED
  BY <1>1 DEF ServiceInv, ServiceType, CountInv, TypeOK

LEMMA AllServiced == ServiceInv => LeavesWhenServiced
<1> SUFFICES ASSUME ServiceInv, mpc = "leave"
             PROVE  /\ serviced = Total /\ suspended = 0 /\ arrived = {}
                    /\ \A c \in Clients : cpc[c] # "call"
  BY DEF LeavesWhenServiced
<1> USE CallerTypes, RespondedBound DEF ServiceInv
<1>1. serviced = Total
  BY DEF CountInv
<1>2. suspended = 0 /\ Cardinality(Responded) = Total
  BY <1>1 DEF CountInv
<1>3. Responded = Callers \X (1..Iters)
  BY <1>2
<1>4. ASSUME NEW c \in Callers, left[c] >= 1 PROVE c \in answers
  <2>1. left[c] \in 0..Iters
    BY DEF ServiceType
  <2>2. <<c, Iters - left[c] + 1>> \in Responded
    BY <1>3, <1>4, <2>1
  <2> QED
    BY <1>4, <2>1, <2>2 DEF Responded, Answered
<1>5. \A c \in Clients : cpc[c] # "call"
  BY <1>4 DEF ClientInv, ServiceType
<1>6. arrived = {}
  BY <1>4 DEF ClientInv, ServiceType
<1> QED
  BY <1>1, <1>2, <1>5, <1>6

(***************************************************************************)
(* LatencyStats                                                            *)
(***************************************************************************)

(* A set of natural numbers has a least element. *)
LEMMA Least ==
    ASSUME NEW T, T \subseteq Nat, T # {}
    PROVE  \E x \in T : \A y \in T : x <= y
<1> DEFINE R == OpToRel(<, Nat)
<1>1. IsWellFoundedOn(R, Nat)
  BY NatLessThanWellFounded
<1>2. \A x, y \in Nat : y < x => <<y, x>> \in R
  BY DEF OpToRel
<1> HIDE DEF R
<1>3. \E x \in T : \A y \in T : ~ (<<y, x>> \in R)
  BY <1>1, WFMin
<1>4. PICK x \in T : \A y \in T : ~ (<<y, x>> \in R)
  BY <1>3
<1>5. ASSUME NEW y \in T PROVE x <= y
  <2>1. x \in Nat /\ y \in Nat
    OBVIOUS
  <2>2. ~(y < x)
    BY <1>2, <1>4, <2>1
  <2> QED
    BY <2>1, <2>2
<1> QED
  BY <1>5

LEMMA IndexTypes ==
    ASSUME NEW n \in Nat
    PROVE  /\ IsFiniteSet(Indexes(n)) /\ Cardinality(Indexes(n)) = n
           /\ \A T \in SUBSET Indexes(n) : IsFiniteSet(T) /\ Cardinality(T) \in Nat
<1>1. IsFiniteSet(Indexes(n)) /\ Cardinality(Indexes(n)) = n
  <2>1. 0 \in Int /\ n - 1 \in Int
    OBVIOUS
  <2> QED
    BY <2>1, FS_Interval DEF Indexes
<1> QED
  BY <1>1, FS_Subset, FS_CardinalityType

(* Among some of the measurements one is the largest: the one with the     *)
(* fewest larger ones.                                                     *)
LEMMA Largest ==
    ASSUME NEW n \in Nat, NEW m \in [Indexes(n) -> Nat],
           NEW T \in SUBSET Indexes(n), T # {}
    PROVE  \E j \in T : \A l \in T : m[l] <= m[j]
<1> DEFINE Larger(j) == {l \in T : m[j] < m[l]}
<1>1. \A j \in T : IsFiniteSet(Larger(j)) /\ Cardinality(Larger(j)) \in Nat
  BY IndexTypes
<1>2. PICK x \in {Cardinality(Larger(j)) : j \in T} :
         \A y \in {Cardinality(Larger(j)) : j \in T} : x <= y
  <2>1. {Cardinality(Larger(j)) : j \in T} \subseteq Nat
    BY <1>1
  <2>2. {Cardinality(Larger(j)) : j \in T} # {}
    OBVIOUS
  <2> HIDE DEF Larger
  <2> QED
    BY <2>1, <2>2, Least
<1>3. PICK j \in T : x = Cardinality(Larger(j))
  BY <1>2
<1>4. ASSUME NEW l \in T, m[j] < m[l] PROVE FALSE
  <2>1. m[j] \in Nat /\ m[l] \in Nat
    OBVIOUS
  <2>2. Larger(l) \in SUBSET Larger(j)
    BY <1>4, <2>1
  <2>3. l \in Larger(j) /\ l \notin Larger(l)
    BY <1>4, <2>1
  <2>4. Cardinality(Larger(j)) <= Cardinality(Larger(l))
    BY <1>2, <1>3
  <2> HIDE DEF Larger
  <2>5. /\ Cardinality(Larger(l)) <= Cardinality(Larger(j))
        /\ Cardinality(Larger(l)) # Cardinality(Larger(j))
    BY <1>1, <2>2, <2>3, FS_Subset
  <2> QED
    BY <1>1, <2>4, <2>5
<1>5. ASSUME NEW l \in T PROVE m[l] <= m[j]
  <2>1. m[j] \in Nat /\ m[l] \in Nat
    OBVIOUS
  <2> QED
    BY <1>4, <2>1
<1> QED
  BY <1>5

(* Sort finds, for each place, the value that belongs there. *)
LEMMA SortPicks ==
    ASSUME NEW n \in Nat, NEW m \in [Indexes(n) -> Nat], NEW k \in Indexes(n)
    PROVE  /\ Sort(m, n)[k] \in Nat
           /\ Cardinality({j \in Indexes(n) : m[j] < Sort(m, n)[k]}) <= k
           /\ k < Cardinality({j \in Indexes(n) : m[j] <= Sort(m, n)[k]})
<1> DEFINE Values == {m[j] : j \in Indexes(n)}
           Below(v) == {j \in Indexes(n) : m[j] < v}
           UpTo(v) == {j \in Indexes(n) : m[j] <= v}
           Fits(v) == Cardinality(Below(v)) <= k /\ k < Cardinality(UpTo(v))
<1>1. \A v : Cardinality(Below(v)) \in Nat /\ Cardinality(UpTo(v)) \in Nat
             /\ IsFiniteSet(UpTo(v)) /\ Below(v) \in SUBSET Indexes(n)
  BY IndexTypes
<1>2. k \in Nat /\ k < n
  BY DEF Indexes
<1> DEFINE G == {j \in Indexes(n) : k < Cardinality(UpTo(m[j]))}
<1>3. G # {}
  <2>1. PICK j \in Indexes(n) : \A l \in Indexes(n) : m[l] <= m[j]
    BY <1>2, Largest
  <2>2. UpTo(m[j]) = Indexes(n)
    BY <2>1
  <2> QED
    BY <1>2, <2>2, IndexTypes
<1>4. PICK v \in {m[j] : j \in G} : \A w \in {m[j] : j \in G} : v <= w
  <2>1. {m[j] : j \in G} \subseteq Nat
    OBVIOUS
  <2>2. {m[j] : j \in G} # {}
    BY <1>3
  <2> HIDE DEF G
  <2> QED
    BY <2>1, <2>2, Least
<1>5. v \in Values /\ v \in Nat /\ k < Cardinality(UpTo(v))
  BY <1>4
<1>6. Cardinality(Below(v)) <= k
  <2>1. CASE Below(v) = {}
    BY <1>2, <2>1, FS_EmptySet
  <2>2. CASE Below(v) # {}
    <3>1. PICK l \in Below(v) : \A x \in Below(v) : m[x] <= m[l]
      BY <1>1, <2>2, Largest
    <3>2. l \in Indexes(n) /\ m[l] < v /\ m[l] \in Nat
      BY <3>1
    <3>3. l \notin G
      <4> SUFFICES ASSUME l \in G PROVE FALSE
        OBVIOUS
      <4>1. m[l] \in {m[j] : j \in G}
        OBVIOUS
      <4>2. v <= m[l]
        BY <1>4, <4>1
      <4> QED
        BY <1>5, <3>2, <4>2
    <3>4. Cardinality(UpTo(m[l])) <= k
      <4>1. ~(k < Cardinality(UpTo(m[l])))
        BY <3>2, <3>3
      <4>2. Cardinality(UpTo(m[l])) \in Nat
        BY <1>1
      <4> HIDE DEF UpTo
      <4> QED
        BY <1>2, <4>1, <4>2
    <3>5. Below(v) \in SUBSET UpTo(m[l])
      BY <3>1
    <3> HIDE DEF Below, UpTo
    <3>6. Cardinality(Below(v)) <= Cardinality(UpTo(m[l]))
      BY <1>1, <3>5, FS_Subset
    <3> QED
      BY <1>1, <1>2, <3>4, <3>6
  <2> QED
    BY <2>1, <2>2
<1>7. Fits(v)
  BY <1>5, <1>6
<1>8. Sort(m, n)[k] = CHOOSE w \in Values : Fits(w)
  BY DEF Sort
<1> HIDE DEF Fits, Values
<1>9. Sort(m, n)[k] \in Values /\ Fits(Sort(m, n)[k])
  BY <1>5, <1>7, <1>8
<1> QED
  BY <1>9 DEF Fits, Values

LEMMA SortAscends ==
    ASSUME NEW n \in Nat, NEW m \in [Indexes(n) -> Nat]
    PROVE  /\ Sort(m, n) \in [Indexes(n) -> Nat]
           /\ Ascending(Sort(m, n), n)
<1>1. Sort(m, n) \in [Indexes(n) -> Nat]
  BY SortPicks DEF Sort
<1>2. ASSUME NEW j \in Indexes(n), NEW k \in Indexes(n), j <= k,
             Sort(m, n)[k] < Sort(m, n)[j]
      PROVE  FALSE
  <2> DEFINE UpToK == {x \in Indexes(n) : m[x] <= Sort(m, n)[k]}
             BelowJ == {x \in Indexes(n) : m[x] < Sort(m, n)[j]}
  <2>1. Sort(m, n)[j] \in Nat /\ Sort(m, n)[k] \in Nat
    BY SortPicks
  <2>2. UpToK \in SUBSET BelowJ
    BY <1>2, <2>1
  <2>3. Cardinality(BelowJ) <= j /\ k < Cardinality(UpToK)
    BY SortPicks
  <2>4. /\ IsFiniteSet(BelowJ) /\ Cardinality(BelowJ) \in Nat
        /\ Cardinality(UpToK) \in Nat
    BY IndexTypes
  <2> HIDE DEF UpToK, BelowJ
  <2>5. Cardinality(UpToK) <= Cardinality(BelowJ)
    BY <2>2, <2>4, FS_Subset
  <2>6. j \in Nat /\ k \in Nat
    BY DEF Indexes
  <2> QED
    BY <1>2, <2>3, <2>4, <2>5, <2>6
<1> QED
  BY <1>1, <1>2 DEF Ascending

(***************************************************************************)
(* From four measurements on the brackets of bench_routine_print are in    *)
(* the array, and minimum, quartiles, median and maximum in their order.   *)
(***************************************************************************)
THEOREM StatisticsInOrder ==
    ASSUME NEW n \in Nat, n >= 4, NEW m \in [Indexes(n) -> Nat]
    PROVE  Brackets(n) \subseteq Indexes(n) /\ Ordered(Sort(m, n), n)
<1> DEFINE q == n \div 4
           h == n \div 2
           a == Sort(m, n)
           q1 == Bracket2(Q1Bracket(n), n, 4)
           h1 == Bracket2(MedBracket(n), n, 2)
           q3 == Bracket2(Q3Bracket(n), n, 4)
<1>1. /\ q \in Nat /\ h \in Nat /\ q >= 1
      /\ n % 4 \in 0..3 /\ n = (4 * q) + (n % 4)
      /\ n % 2 \in 0..1 /\ n = (2 * h) + (n % 2)
  OBVIOUS
<1>2. /\ q1 = IF n % 4 # 0 THEN q + 1 ELSE q
      /\ h1 = IF n % 2 # 0 THEN h + 1 ELSE h
      /\ q3 = IF n % 4 # 0 THEN 3 * q + 1 ELSE 3 * q
  BY DEF Bracket2, Q1Bracket, MedBracket, Q3Bracket
<1>3. /\ q1 \in Nat /\ h1 \in Nat /\ q3 \in Nat
      /\ q <= h /\ q1 <= h1 /\ h <= 3 * q /\ h1 <= q3 /\ q3 <= n - 1 /\ 3 * q <= n - 1
      /\ q <= n - 1 /\ h <= n - 1 /\ q1 <= n - 1 /\ h1 <= n - 1 /\ 3 * q \in Nat
  <2> HIDE DEF q, h, q1, h1, q3
  <2> QED
    BY <1>1, <1>2
<1>4. {0, n - 1, q, q1, h, h1, 3 * q, q3} \subseteq Indexes(n)
  <2> HIDE DEF q, h, q1, h1, q3
  <2>1. q \in Indexes(n) /\ q1 \in Indexes(n) /\ h \in Indexes(n) /\ h1 \in Indexes(n)
    BY <1>1, <1>3 DEF Indexes
  <2>2. 3 * q \in Indexes(n) /\ q3 \in Indexes(n)
    BY <1>3 DEF Indexes
  <2>3. 0 \in Indexes(n) /\ n - 1 \in Indexes(n)
    BY DEF Indexes
  <2> QED
    BY <2>1, <2>2, <2>3
<1>5. Brackets(n) = {h, h1, q, q1, 3 * q, q3}
  BY DEF Brackets, MedBracket, Q1Bracket, Q3Bracket
<1>6. /\ TwiceQ1(a, n) = a[q] + a[q1]
      /\ TwiceMed(a, n) = a[h] + a[h1]
      /\ TwiceQ3(a, n) = a[3 * q] + a[q3]
  BY DEF TwiceQ1, TwiceMed, TwiceQ3, MedBracket, Q1Bracket, Q3Bracket
<1>7. a \in [Indexes(n) -> Nat] /\ Ascending(a, n)
  BY SortAscends
<1> HIDE DEF q, h, a, q1, h1, q3
<1>8. /\ a[0] <= a[q] /\ a[0] <= a[q1] /\ a[q] <= a[h] /\ a[q1] <= a[h1]
      /\ a[h] <= a[3 * q] /\ a[h1] <= a[q3] /\ a[3 * q] <= a[n - 1] /\ a[q3] <= a[n - 1]
  BY <1>1, <1>3, <1>4, <1>7 DEF Ascending
<1>9. \A k \in {0, n - 1, q, q1, h, h1, 3 * q, q3} : a[k] \in Nat
  BY <1>4, <1>7
<1>10. Ordered(a, n)
  BY <1>6, <1>8, <1>9 DEF Ordered
<1> QED
  BY <1>4, <1>5, <1>10 DEF a

(***************************************************************************)
(* MercuryHalf                                                             *)
(***************************************************************************)

NmType ==
    /\ NmTypeOK
    /\ thread["client"] # "serve"
    /\ thread["server"] \notin {"forward", "wait", "blocked", "destroy"}

(* The client's thread stops waiting when all forwards were answered, and  *)
(* then none is on its way.                                                *)
ForwardInv ==
    /\ thread["client"] \in {"none", "start", "forward"} => done_count = 0 /\ forward = "idle"
    /\ done_count = Forwards => forward = "idle"
    /\ thread["client"] \in {"destroy", "join", "destroy_context", "done"}
           => done_count = Forwards

(* A thread sets its progress loop up, and takes its context down, once.   *)
ContextInv ==
    \A s \in Sides :
        /\ thread[s] \in {"none", "start"} => context[s] = "none"
        /\ thread[s] = "destroy_context" => loop[s] = "ended"
        /\ thread[s] = "done" => context[s] = "destroyed"
        /\ context[s] = "destroyed" => loop[s] = "ended" /\ thread[s] = "done"

NmInv == NmType /\ ForwardInv /\ ContextInv

LEMMA NmSides == Sides = {"client", "server"} /\ Forwards \in Nat \ {0}
  BY ForwardsAssumption DEF Sides

LEMMA NmInitInv == NmInit => NmInv
  BY NmSides DEF NmInit, NmInv, NmType, NmTypeOK, ForwardInv, ContextInv, ThreadState, ForwardState

LEMMA NmStep ==
    NmInv /\ (NmNext \/ (\E s \in Sides : StartThread(s)) \/ UNCHANGED nmVars) => NmInv'
<1> SUFFICES ASSUME NmInv, NmNext \/ (\E s \in Sides : StartThread(s)) \/ UNCHANGED nmVars
             PROVE  NmInv'
  OBVIOUS
<1> USE NmSides DEF NmInv, NmType, NmTypeOK, ForwardInv, ContextInv, ThreadState, ForwardState
<1>1. ASSUME NEW s \in Sides, SetUp(s) PROVE NmInv'
  BY <1>1 DEF SetUp
<1>2. ASSUME NEW s \in Sides, Stop(s) PROVE NmInv'
  BY <1>2 DEF Stop
<1>3. ASSUME NEW s \in Sides, Join(s) PROVE NmInv'
  BY <1>3 DEF Join, JoinNoWait
<1>4. ASSUME NEW s \in Sides, DestroyContext(s) PROVE NmInv'
  BY <1>4 DEF DestroyContext
<1>5. CASE ForwardFirst
  BY <1>5 DEF ForwardFirst
<1>6. CASE Wait
  BY <1>6 DEF Wait
<1>7. ASSUME NEW s \in Sides, LoopEnd(s) PROVE NmInv'
  BY <1>7 DEF LoopEnd
<1>8. CASE Callback
  <2>1. done_count < Forwards /\ done_count' = done_count + 1
    BY <1>8 DEF Callback
  <2>2. UNCHANGED <<loop, shutdown_flag, context>>
    BY <1>8 DEF Callback
  <2>3. \/ thread' = thread
        \/ thread["client"] = "blocked" /\ thread' = [thread EXCEPT !["client"] = "wait"]
    BY <1>8 DEF Callback, SignalClient
  <2>4. forward' = IF done_count' = Forwards THEN "idle" ELSE "counted"
    BY <1>8 DEF Callback
  <2>5. thread["client"] \notin {"none", "start", "forward", "destroy", "join",
                                 "destroy_context", "done"}
    BY <1>8, <2>1 DEF Callback
  <2>6. NmType'
    BY <2>1, <2>2, <2>3, <2>4
  <2>7. ForwardInv'
    BY <2>1, <2>3, <2>4, <2>5
  <2>8. ContextInv'
    BY <2>2, <2>3
  <2> QED
    BY <2>6, <2>7, <2>8
<1>9. CASE ForwardAgain \/ Answer \/ Deliver \/ Lose \/ CallbackFails
  BY <1>9 DEF ForwardAgain, Answer, Deliver, Lose, CallbackFails
<1>10. CASE SpuriousWakeup
  BY <1>10 DEF SpuriousWakeup
<1>11. ASSUME NEW s \in Sides, StartThread(s) PROVE NmInv'
  BY <1>11 DEF StartThread
<1>12. CASE UNCHANGED nmVars
  BY <1>12 DEF nmVars
<1> QED
  BY <1>1, <1>2, <1>3, <1>4, <1>5, <1>6, <1>7, <1>8, <1>9, <1>10, <1>11, <1>12
     DEF NmNext, ThreadStep, LoopStep

(***************************************************************************)
(* NoopPrograms                                                            *)
(***************************************************************************)

(* What is measured: the calls behind the warm-up, in their order. *)
MeasureInv ==
    /\ measured \in [Indexes(Measurements) -> Latencies \cup {0}]
    /\ count \in 0..Measurements
    /\ \A c \in Clients : cpc[c] = "done" => left[c] = 0
    /\ program = "latency" =>
         \A c \in Callers :
             /\ count = IF left[c] <= Measurements THEN Measurements - left[c] ELSE 0
             /\ \A k \in Indexes(Measurements) : k < count => measured[k] \in Latencies

FinalInv == finalized \subseteq Sides /\ \A s \in finalized : context[s] = "destroyed"

ProgramInv == ServiceInv /\ NmInv /\ MeasureInv /\ FinalInv

LEMMA MeasurementTypes ==
    /\ Measurements \in Nat \ {0} /\ Measurements <= Iters
    /\ Indexes(Measurements) \subseteq Nat
    /\ \A k \in Nat : k \in Indexes(Measurements) <=> k < Measurements
    /\ Latencies \subseteq Nat
  BY CallerTypes, LatenciesAssumption DEF Measurements, Indexes

(* Every step of a program is one of the service, one of its Mercury half, *)
(* or one of main.                                                         *)
LEMMA Parts ==
    ASSUME [ProgramNext]_programVars
    PROVE  /\ [Next]_vars
           /\ NmNext \/ (\E s \in Sides : StartThread(s)) \/ UNCHANGED nmVars
<1>1. CASE ServiceStep
  BY <1>1, NmSides DEF ServiceStep, CreateAndStart, Next
<1>2. CASE StartClient \/ MercuryNetwork
  BY <1>2, NmSides DEF StartClient, MercuryNetwork, NmNext
<1>3. ASSUME NEW c \in Clients, HandlerStep(c) \/ Call(c) \/ TimedReceive(c) \/ TimeOut(c)
      PROVE  [Next]_vars /\ UNCHANGED nmVars
  BY <1>3 DEF HandlerStep, Call, TimedReceive, TimeOut, Next
<1>4. ASSUME NEW s \in Sides, MercuryThread(s) \/ MercuryLoop(s) \/ Finalize(s)
      PROVE  UNCHANGED vars /\ (NmNext \/ UNCHANGED nmVars)
  BY <1>4 DEF MercuryThread, MercuryLoop, Finalize, FinalizeUnjoined, NmNext
<1>5. CASE ClientAborts
  BY <1>5, CallerTypes DEF ClientAborts, Next, NmNext
<1>6. CASE UNCHANGED programVars
  BY <1>6 DEF programVars
<1> QED
  BY <1>1, <1>2, <1>3, <1>4, <1>5, <1>6 DEF ProgramNext

LEMMA ProgramInitInv == ProgramInit => ProgramInv
<1> SUFFICES ASSUME ProgramInit PROVE ProgramInv
  OBVIOUS
<1>1. ServiceInv
  BY ServiceInit DEF ProgramInit
<1>2. NmInv
  BY NmInitInv DEF ProgramInit
<1>3. MeasureInv
  <2>1. \A c \in Clients : cpc[c] = "done" => left[c] = 0
    BY DEF ProgramInit, Init
  <2>2. \A c \in Callers : left[c] = Iters
    BY CallerTypes DEF ProgramInit, Init
  <2>3. count = 0 /\ measured \in [Indexes(Measurements) -> Latencies \cup {0}]
    BY DEF ProgramInit
  <2>4. 0 \in 0..Measurements
    BY MeasurementTypes
  <2>5. \A k \in Indexes(Measurements) : ~(k < 0)
    BY MeasurementTypes
  <2>6. (IF Iters <= Measurements THEN Measurements - Iters ELSE 0) = 0
    BY MeasurementTypes, CallerTypes
  <2> QED
    BY <2>1, <2>2, <2>3, <2>4, <2>5, <2>6 DEF MeasureInv
<1>4. FinalInv
  BY DEF ProgramInit, FinalInv
<1> QED
  BY <1>1, <1>2, <1>3, <1>4 DEF ProgramInv

(* Only the latency test measures, and only when a call returns. *)
LEMMA MeasureFrame ==
    ASSUME ServiceInv, MeasureInv, UNCHANGED <<measured, count, program, left>>,
           \A c \in Clients : cpc'[c] = "done" => cpc[c] = "done"
    PROVE  MeasureInv'
<1>1. Callers' = Callers
  BY DEF Callers
<1> QED
  BY <1>1 DEF MeasureInv, Measurements, Indexes

LEMMA MeasureReceive ==
    ASSUME ServiceInv, MeasureInv, NEW c \in Clients, TimedReceive(c)
    PROVE  MeasureInv'
<1> USE CallerTypes, MeasurementTypes
<1>1. /\ c \in Callers /\ left[c] \in 0..Iters /\ left[c] >= 1
      /\ UNCHANGED program /\ Callers' = Callers
      /\ left'[c] = left[c] - 1
      /\ \A d \in Clients \ {c} : cpc'[d] = cpc[d] /\ left'[d] = left[d]
      /\ cpc'[c] = IF left[c] > 1 THEN "call" ELSE "done"
  BY DEF TimedReceive, Receive, ServiceInv, ServiceType, ClientInv, options, Callers
<1>2. \A d \in Clients : cpc'[d] = "done" => left'[d] = 0
  BY <1>1 DEF MeasureInv
<1>3. Measurements' = Measurements /\ Indexes(Measurements)' = Indexes(Measurements)
  BY DEF Measurements, Indexes
<1>4. CASE program = "latency" /\ left[c] <= Measurements
  <2> DEFINE k == Measurements - left[c]
  <2>1. PICK v \in Latencies : measured' = [measured EXCEPT ![k] = v]
    BY <1>4 DEF TimedReceive, Measure
  <2>2. count = k /\ count' = k + 1 /\ k \in Nat /\ k < Measurements
    BY <1>1, <1>4 DEF TimedReceive, Measure, MeasureInv
  <2>3. \A d \in Callers : d = c
    BY <1>1, <1>4 DEF Callers
  <2>4. k \in Indexes(Measurements)
    BY <2>2
  <2>5. measured' \in [Indexes(Measurements) -> Latencies \cup {0}]
    BY <2>1, <2>4 DEF MeasureInv
  <2>6. \A l \in Indexes(Measurements) : l < count' => measured'[l] \in Latencies
    <3> SUFFICES ASSUME NEW l \in Indexes(Measurements), l < count'
                 PROVE  measured'[l] \in Latencies
      OBVIOUS
    <3>1. CASE l = k
      BY <2>1, <2>4, <3>1 DEF MeasureInv
    <3>2. CASE l # k
      <4>1. l < count
        BY <2>2, <3>2
      <4>2. measured'[l] = measured[l]
        BY <2>1, <3>2 DEF MeasureInv
      <4> QED
        BY <1>1, <1>4, <4>1, <4>2 DEF MeasureInv
    <3> QED
      BY <3>1, <3>2
  <2>7. count' \in 0..Measurements
    BY <2>2
  <2>8. count' = IF left'[c] <= Measurements THEN Measurements - left'[c] ELSE 0
    BY <1>1, <1>4, <2>2
  <2> QED
    BY <1>1, <1>2, <1>3, <2>3, <2>5, <2>6, <2>7, <2>8 DEF MeasureInv
<1>5. CASE program = "latency" /\ ~(left[c] <= Measurements)
  <2>1. UNCHANGED <<measured, count>>
    BY <1>5 DEF TimedReceive, Measure
  <2>2. \A d \in Callers : d = c
    BY <1>1, <1>5 DEF Callers
  <2>3. count = 0 /\ left'[c] >= Measurements
    BY <1>1, <1>5 DEF MeasureInv
  <2>4. count' = IF left'[c] <= Measurements THEN Measurements - left'[c] ELSE 0
    BY <1>1, <2>1, <2>3
  <2> QED
    BY <1>1, <1>2, <1>3, <2>1, <2>2, <2>3, <2>4 DEF MeasureInv
<1>6. CASE program # "latency"
  <2>1. UNCHANGED <<measured, count>>
    BY <1>6 DEF TimedReceive, Measure
  <2> QED
    BY <1>1, <1>2, <1>3, <1>6, <2>1 DEF MeasureInv
<1> QED
  BY <1>4, <1>5, <1>6

LEMMA MeasureStep == ServiceInv /\ MeasureInv /\ [ProgramNext]_programVars => MeasureInv'
<1> SUFFICES ASSUME ServiceInv, MeasureInv, [ProgramNext]_programVars PROVE MeasureInv'
  OBVIOUS
<1> USE DEF ownVars, options, serverVars, clientVars
<1>1. CASE ServiceStep
  BY <1>1, MeasureFrame DEF ServiceStep, CreateAndStart, CreateEventual, Wake, Count
<1>2. CASE StartClient \/ MercuryNetwork
  BY <1>2, MeasureFrame DEF StartClient, MercuryNetwork, vars
<1>3. ASSUME NEW c \in Clients, HandlerStep(c) PROVE MeasureInv'
  BY <1>3, MeasureFrame DEF HandlerStep, Respond
<1>4. ASSUME NEW c \in Clients, Call(c) PROVE MeasureInv'
  <2>1. \A d \in Clients : cpc'[d] = "done" => cpc[d] = "done"
    BY <1>4 DEF Call, Forward, ServiceInv, ServiceType
  <2> QED
    BY <1>4, <2>1, MeasureFrame DEF Call, Forward
<1>5. ASSUME NEW c \in Clients, TimeOut(c) PROVE MeasureInv'
  <2>1. \A d \in Clients : cpc'[d] = "done" => cpc[d] = "done"
    BY <1>5 DEF TimeOut, GiveUp, ServiceInv, ServiceType
  <2> QED
    BY <1>5, <2>1, MeasureFrame DEF TimeOut, GiveUp
<1>6. ASSUME NEW s \in Sides, MercuryThread(s) \/ MercuryLoop(s) \/ Finalize(s) PROVE MeasureInv'
  BY <1>6, MeasureFrame DEF MercuryThread, MercuryLoop, Finalize, FinalizeUnjoined, vars
<1>7. CASE ClientAborts
  <2>1. \A d \in Clients : cpc'[d] = "done" => cpc[d] = "done"
    BY <1>7 DEF ClientAborts, Abort, ServiceInv, ServiceType
  <2> QED
    BY <1>7, <2>1, MeasureFrame DEF ClientAborts, Abort
<1>8. CASE UNCHANGED programVars
  BY <1>8, MeasureFrame DEF programVars, vars
<1> QED
  BY <1>1, <1>2, <1>3, <1>4, <1>5, <1>6, <1>7, <1>8, MeasureReceive DEF ProgramNext

LEMMA FinalStep == NmInv /\ FinalInv /\ [ProgramNext]_programVars => FinalInv'
<1> SUFFICES ASSUME NmInv, FinalInv, [ProgramNext]_programVars PROVE FinalInv'
  OBVIOUS
<1>1. \A s \in Sides : context[s] = "destroyed" => context'[s] = "destroyed"
  <2>1. CASE UNCHANGED context
    BY <2>1
  <2>2. ASSUME NEW s \in Sides, SetUp(s) \/ DestroyContext(s)
        PROVE  \A t \in Sides : context[t] = "destroyed" => context'[t] = "destroyed"
    BY <2>2, NmSides DEF SetUp, DestroyContext, NmInv, NmType, NmTypeOK, ContextInv
  <2> QED
    BY <2>1, <2>2, Parts
       DEF NmNext, ThreadStep, LoopStep, Stop, Join, JoinNoWait, ForwardFirst, Wait, LoopEnd,
           Callback, CallbackFails, ForwardAgain, Answer, Deliver, Lose, SpuriousWakeup,
           StartThread, nmVars
<1>2. CASE UNCHANGED finalized
  BY <1>1, <1>2 DEF FinalInv
<1>3. ASSUME NEW s \in Sides, Finalize(s) PROVE FinalInv'
  BY <1>1, <1>3 DEF Finalize, FinalizeUnjoined, FinalInv, NmInv, ContextInv
<1> QED
  BY <1>2, <1>3
     DEF ProgramNext, ServiceStep, CreateAndStart, StartClient, MercuryNetwork, HandlerStep, Call,
         TimedReceive, TimeOut, MercuryThread, MercuryLoop, ClientAborts, ownVars, programVars

LEMMA ProgramInvariance == ProgramSpec => []ProgramInv
<1>1. ServiceInv /\ [Next]_vars => ServiceInv'
  BY ServiceTypeStep, ClientStep, CountStep DEF ServiceInv
<1>2. ProgramInv /\ [ProgramNext]_programVars => ProgramInv'
  BY <1>1, Parts, NmStep, MeasureStep, FinalStep DEF ProgramInv
<1> QED
  BY <1>2, ProgramInitInv, PTL DEF ProgramSpec

-----------------------------------------------------------------------------
(* In the composition the service is still the service: the actions of the *)
(* programs are made of its own.                                           *)
LEMMA ProgramsImplementService == ProgramSpec => Spec
<1>1. ProgramInit => Init
  BY DEF ProgramInit
<1>2. [ProgramNext]_programVars => [Next]_vars
  BY Parts
<1> QED
  BY <1>1, <1>2, PTL DEF ProgramSpec, Spec

(***************************************************************************)
(* Every variable of the three programs keeps its type; no more RPCs are   *)
(* serviced than main expects.                                             *)
(***************************************************************************)
THEOREM TypeCorrect == ProgramSpec => []ProgramTypeOK
<1>1. ProgramInv => ProgramTypeOK
  BY ServiceTypeOK DEF ProgramInv, NmInv, NmType, MeasureInv, FinalInv, ProgramTypeOK
<1> QED
  BY <1>1, ProgramInvariance, PTL

(***************************************************************************)
(* Main leaves its wait only when every call of every client was serviced  *)
(* and no handler is left, wherever the handlers run.                      *)
(***************************************************************************)
THEOREM LeavesAfterService == Spec => []LeavesWhenServiced
  BY ServiceInvariance, AllServiced, PTL

(***************************************************************************)
(* The client's handle has no forward in flight when it is destroyed, in   *)
(* spite of spurious wakeups, lost forwards and a server that stops early. *)
(***************************************************************************)
THEOREM HandleIdleWhenDestroyed == ProgramSpec => []HandleIdle
<1>1. ProgramInv => HandleIdle
  BY DEF ProgramInv, NmInv, ForwardInv, HandleIdle
<1> QED
  BY <1>1, ProgramInvariance, PTL

(***************************************************************************)
(* Progress thread, context and margo end in this order on both sides.     *)
(***************************************************************************)
THEOREM TornDown == ProgramSpec => []TornDownInOrder
<1>1. ProgramInv => TornDownInOrder
  BY DEF ProgramInv, NmInv, ContextInv, FinalInv, TornDownInOrder
<1> QED
  BY <1>1, ProgramInvariance, PTL

(***************************************************************************)
(* When the latency test prints, every measurement was taken and, from     *)
(* four on, the columns are in order.                                      *)
(***************************************************************************)
THEOREM StatisticsCorrect == ProgramSpec => []StatisticsOrdered
<1>1. ProgramInv => StatisticsOrdered
  <2> SUFFICES ASSUME ProgramInv, program = "latency", \A c \in Callers : cpc[c] = "done"
               PROVE  /\ count = Measurements
                      /\ \A k \in Indexes(Measurements) : measured[k] \in Latencies
                      /\ Measurements >= 4 =>
                            /\ Brackets(Measurements) \subseteq Indexes(Measurements)
                            /\ Ordered(Sort(measured, Measurements), Measurements)
    BY DEF StatisticsOrdered
  <2> USE CallerTypes, MeasurementTypes
  <2>1. PICK c \in Callers : TRUE
    BY NoopAssumption DEF Callers
  <2>2. left[c] = 0
    BY DEF ProgramInv, MeasureInv
  <2>3. count = Measurements
    BY <2>2 DEF ProgramInv, MeasureInv
  <2>4. \A k \in Indexes(Measurements) : measured[k] \in Latencies
    BY <2>1, <2>3 DEF ProgramInv, MeasureInv
  <2>5. measured \in [Indexes(Measurements) -> Nat]
    <3>1. measured \in [Indexes(Measurements) -> Latencies \cup {0}]
      BY DEF ProgramInv, MeasureInv
    <3>2. Latencies \cup {0} \subseteq Nat
      OBVIOUS
    <3> QED
      BY <3>1, <3>2
  <2> QED
    BY <2>3, <2>4, <2>5, StatisticsInOrder
<1> QED
  BY <1>1, ProgramInvariance, PTL

-----------------------------------------------------------------------------
(* Deadlock, and the signal that may be lost.                              *)

(* Who can take a step of the service, with the guards spelled out. *)
CanServe ==
    \/ mpc = "setup"
    \/ mpc = "wait" /\ eventual = "set"
    \/ suspended > 0 /\ HandlersRun

CanHandle(c) == c \in arrived /\ HandlersRun

CanAsk(c) == cpc[c] = "call" \/ (c \in answers /\ cpc[c] = "await")

NeverStuck ==
    \/ Finished \/ GaveUp \/ (~primary /\ SignalLost)
    \/ CanServe
    \/ \E c \in Clients : CanHandle(c) \/ CanAsk(c)

(* A client that waits is served or answered; only a measured call of the  *)
(* latency test may fail, or the client with the Mercury half; and where   *)
(* handlers share main's ES none counts itself before the eventual is      *)
(* created.                                                                *)
WaitInv ==
    /\ \A c \in Clients : /\ cpc[c] = "await" => c \in arrived \cup answers
                          /\ cpc[c] = "done" => left[c] = 0
                          /\ cpc[c] = "failed" => timed \/ program = "mixed"
    /\ timed => program = "latency"
    /\ mpc # "setup" => eventual # "null"
    /\ primary => /\ mpc = "setup" => serviced = 0 /\ suspended = 0
                  /\ serviced = Total => eventual = "set"

LEMMA TotalPositive == Total > 0
<1>1. Callers # {}
  BY NoopAssumption DEF Callers
<1>2. Cardinality(Callers) # 0
  BY <1>1, CallerTypes, FS_EmptySet
<1> QED
  BY <1>2, CallerTypes DEF Total

LEMMA WaitInit == Init => WaitInv
<1> SUFFICES ASSUME Init PROVE WaitInv
  OBVIOUS
<1>1. timed => program = "latency"
  BY DEF Init
<1>2. \A c \in Clients : cpc[c] # "await" /\ cpc[c] # "failed" /\ (cpc[c] = "done" => left[c] = 0)
  BY DEF Init
<1>3. mpc = "setup" /\ serviced = 0 /\ suspended = 0
  BY DEF Init
<1> QED
  BY <1>1, <1>2, <1>3, TotalPositive DEF WaitInv

LEMMA WaitStep == ServiceInv /\ WaitInv /\ [Next]_vars => WaitInv'
<1> SUFFICES ASSUME ServiceInv, WaitInv, [Next]_vars PROVE WaitInv'
  OBVIOUS
<1> USE CallerTypes DEF ServiceInv, ServiceType, WaitInv, primary
<1>0. UNCHANGED options /\ Total' = Total
  BY DEF Next, CreateEventual, Wake, Count, Respond, Forward, Receive, GiveUp, Abort, vars,
         options, Callers, Total
<1>1. CASE CreateEventual
  <2>1. primary => serviced # Total
    BY <1>1, TotalPositive DEF CreateEventual
  <2> QED
    BY <1>0, <1>1, <2>1 DEF CreateEventual, options, clientVars
<1>2. CASE Wake
  BY <1>0, <1>2 DEF Wake, options, clientVars
<1>3. CASE Count
  <2>1. primary => mpc # "setup" /\ eventual # "null"
    BY <1>3 DEF Count, HandlersRun
  <2>2. /\ UNCHANGED <<mpc, arrived, answers, cpc, left>>
        /\ eventual' = IF serviced' = Total /\ eventual # "null" THEN "set" ELSE eventual
    BY <1>3 DEF Count, Signal, clientVars
  <2>3. mpc' # "setup" => eventual' # "null"
    BY <2>2
  <2>4. primary => mpc' # "setup" /\ (serviced' = Total => eventual' = "set")
    BY <2>1, <2>2
  <2> QED
    BY <1>0, <2>2, <2>3, <2>4 DEF options
<1>4. ASSUME NEW c \in Clients, Respond(c) PROVE WaitInv'
  <2>1. primary => mpc # "setup"
    BY <1>4 DEF Respond, HandlersRun
  <2> QED
    BY <1>0, <1>4, <2>1 DEF Respond, options, clientVars
<1>5. ASSUME NEW c \in Clients, Forward(c) PROVE WaitInv'
  BY <1>0, <1>5 DEF Forward, options, serverVars
<1>6. ASSUME NEW c \in Clients, Receive(c) PROVE WaitInv'
  <2>1. left[c] >= 1 /\ left[c] \in 0..Iters
    BY <1>6 DEF Receive, ClientInv
  <2>2. /\ UNCHANGED <<mpc, eventual, suspended, serviced, arrived>>
        /\ answers' = answers \ {c}
        /\ left' = [left EXCEPT ![c] = left[c] - 1]
        /\ cpc' = [cpc EXCEPT ![c] = IF left[c] > 1 THEN "call" ELSE "done"]
    BY <1>6 DEF Receive, serverVars
  <2>3. \A d \in Clients : /\ cpc'[d] = "await" => d \in arrived' \cup answers'
                           /\ cpc'[d] = "done" => left'[d] = 0
                           /\ cpc'[d] = "failed" => timed \/ program = "mixed"
    BY <2>1, <2>2
  <2> QED
    BY <1>0, <2>2, <2>3 DEF options
<1>7. ASSUME NEW c \in Clients, GiveUp(c) PROVE WaitInv'
  BY <1>0, <1>7 DEF GiveUp, options, serverVars
<1>8. ASSUME NEW c \in Clients, Abort(c) PROVE WaitInv'
  <2>1. /\ program = "mixed" /\ cpc' = [cpc EXCEPT ![c] = "failed"]
        /\ \A d \in Clients \ {c} : d \in arrived => d \in arrived'
        /\ UNCHANGED <<answers, left, mpc, eventual, suspended, serviced>>
    BY <1>8 DEF Abort, serverVars
  <2> QED
    BY <1>0, <2>1 DEF options
<1>9. CASE UNCHANGED vars
  BY <1>0, <1>9 DEF vars, options, serverVars, clientVars
<1> QED
  BY <1>1, <1>2, <1>3, <1>4, <1>5, <1>6, <1>7, <1>8, <1>9 DEF Next

LEMMA WaitInvariance == Spec => []WaitInv
  BY ServiceInvariance, WaitInit, WaitStep, PTL DEF Spec

(***************************************************************************)
(* The last handler finds the eventual wherever it runs on main's ES: the  *)
(* signal can get lost in margo-calls-from-pthreads and nowhere else.      *)
(***************************************************************************)
THEOREM SignalReachesMain == Spec => [](SignalLost => program = "pthreads")
<1>1. WaitInv => (SignalLost => program = "pthreads")
  BY DEF WaitInv, SignalLost, primary
<1> QED
  BY <1>1, WaitInvariance, PTL

(* When every client is done, every call was answered. *)
LEMMA AllAnswered ==
    ASSUME ServiceInv, WaitInv, \A c \in Clients : cpc[c] = "done"
    PROVE  serviced + suspended = Total
<1> USE CallerTypes DEF ServiceInv
<1>1. \A c \in Callers : left[c] = 0
  BY DEF WaitInv
<1>2. Responded = Callers \X (1..Iters)
  BY <1>1 DEF Responded, Answered
<1> QED
  BY <1>2, AllCalls DEF CountInv

(***************************************************************************)
(* Server and clients wait for each other in no circle: unless a call ran  *)
(* out of time, or the pthreads program lost its signal, somebody can take *)
(* a step until all have finished.                                         *)
(***************************************************************************)
THEOREM SomebodyCanGoOn == Spec => []NeverStuck
<1>1. ServiceInv /\ WaitInv => NeverStuck
  <2> SUFFICES ASSUME ServiceInv, WaitInv, ~CanServe, ~GaveUp,
                      \A c \in Clients : ~CanHandle(c) /\ ~CanAsk(c)
               PROVE  Finished \/ (~primary /\ SignalLost)
    BY DEF NeverStuck
  <2> USE DEF ServiceInv, ServiceType
  <2>1. mpc \in {"wait", "leave"} /\ HandlersRun
    BY DEF CanServe, HandlersRun
  <2>2. suspended = 0
    BY <2>1 DEF CanServe, CountInv
  <2>3. \A c \in Clients : cpc[c] = "done"
    BY <2>1 DEF WaitInv, GaveUp, CanHandle, CanAsk
  <2>4. serviced = Total
    BY <2>2, <2>3, AllAnswered DEF CountInv
  <2>5. CASE mpc = "leave"
    BY <2>3, <2>5 DEF Finished
  <2>6. CASE mpc = "wait"
    BY <2>4, <2>6 DEF CanServe, WaitInv, SignalLost
  <2> QED
    BY <2>1, <2>5, <2>6
<1> QED
  BY <1>1, ServiceInvariance, WaitInvariance, PTL

-----------------------------------------------------------------------------
(* The end comes.                                                          *)

(* Where the call of a client is: at the client, under way to its handler, *)
(* answered; a client that has failed may still be answered.               *)
CallOrder == [call |-> 0, await |-> 1, done |-> 2, failed |-> 3]

CallStage(c) == CallOrder[cpc[c]] + IF c \in answers THEN 2 ELSE 0

MainOrder == [setup |-> 0, wait |-> 1, leave |-> 2]

(* One more step of main, one more handler counted, or one call further:   *)
(* no client goes back to a call it has made.                              *)
Ahead ==
    \/ MainOrder[mpc'] > MainOrder[mpc] /\ UNCHANGED <<serviced, answers, clientVars>>
    \/ serviced' = serviced + 1 /\ UNCHANGED <<mpc, answers, clientVars>>
    \/ /\ UNCHANGED <<mpc, serviced>>
       /\ \E c \in Clients :
            /\ \/ left'[c] < left[c]
               \/ left'[c] = left[c] /\ CallStage(c)' > CallStage(c)
            /\ \A d \in Clients \ {c} : left'[d] = left[d] /\ CallStage(d)' = CallStage(d)

(* The service holds no cycle, and no more RPCs are counted than main      *)
(* waits for.                                                              *)
WindsDown == [](serviced <= Total) /\ [][Ahead]_vars

LEMMA CallAhead ==
    ASSUME ServiceInv, NEW c \in Clients,
           Respond(c) \/ Forward(c) \/ Receive(c) \/ GiveUp(c) \/ Abort(c)
    PROVE  Ahead
<1> USE CallerTypes DEF ServiceInv, ServiceType, ClientInv, options, serverVars, clientVars
<1>1. UNCHANGED <<mpc, serviced>>
  BY DEF Respond, Forward, Receive, GiveUp, Abort
<1>2. \A d \in Clients \ {c} : left'[d] = left[d] /\ cpc'[d] = cpc[d]
                               /\ (d \in answers' <=> d \in answers)
  BY DEF Respond, Forward, Receive, GiveUp, Abort
<1>3. \A d \in Clients \ {c} : left'[d] = left[d] /\ CallStage(d)' = CallStage(d)
  BY <1>2 DEF CallStage
<1>4. CASE Respond(c)
  <2>1. cpc[c] \in {"await", "failed"} /\ c \notin answers /\ c \in answers'
        /\ UNCHANGED <<cpc, left>>
    BY <1>4 DEF Respond
  <2>2. CallStage(c)' > CallStage(c)
    BY <2>1 DEF CallStage, CallOrder
  <2> QED
    BY <1>1, <1>3, <2>1, <2>2 DEF Ahead
<1>5. CASE Forward(c)
  <2>1. cpc[c] = "call" /\ cpc'[c] = "await" /\ UNCHANGED <<answers, left>>
    BY <1>5 DEF Forward
  <2>2. CallStage(c)' > CallStage(c)
    BY <2>1 DEF CallStage, CallOrder
  <2> QED
    BY <1>1, <1>3, <2>1, <2>2 DEF Ahead
<1>6. CASE Receive(c)
  <2>1. left'[c] < left[c]
    BY <1>6 DEF Receive
  <2> QED
    BY <1>1, <1>3, <2>1 DEF Ahead
<1>7. CASE GiveUp(c)
  <2>1. cpc[c] = "await" /\ cpc'[c] = "failed" /\ UNCHANGED <<answers, left>>
    BY <1>7 DEF GiveUp
  <2>2. CallStage(c)' > CallStage(c)
    BY <2>1 DEF CallStage, CallOrder
  <2> QED
    BY <1>1, <1>3, <2>1, <2>2 DEF Ahead
<1>8. CASE Abort(c)
  <2>1. /\ cpc[c] \in {"call", "await", "done"} /\ cpc'[c] = "failed"
        /\ UNCHANGED <<answers, left>>
    BY <1>8 DEF Abort
  <2>2. CallStage(c)' > CallStage(c)
    BY <2>1 DEF CallStage, CallOrder
  <2> QED
    BY <1>1, <1>3, <2>1, <2>2 DEF Ahead
<1> QED
  BY <1>4, <1>5, <1>6, <1>7, <1>8

LEMMA ServiceAhead == ServiceInv /\ Next => Ahead
<1> SUFFICES ASSUME ServiceInv, Next PROVE Ahead
  OBVIOUS
<1>1. CASE CreateEventual \/ Wake
  BY <1>1 DEF CreateEventual, Wake, Ahead, MainOrder
<1>2. CASE Count
  BY <1>2 DEF Count, Ahead
<1> QED
  BY <1>1, <1>2, CallAhead DEF Next

(***************************************************************************)
(* Every step of the service brings it nearer to its end.  With            *)
(* SomebodyCanGoOn, all that is left to fairness is that a step which can  *)
(* be taken is taken.                                                      *)
(***************************************************************************)
THEOREM ServiceWindsDown == Spec => WindsDown
<1>1. ServiceInv /\ [Next]_vars => [Ahead]_vars
  BY ServiceAhead
<1>2. ServiceInv => serviced <= Total
  BY CallerTypes, RespondedBound DEF ServiceInv, CountInv
<1> QED
  BY <1>1, <1>2, ServiceInvariance, PTL DEF Spec, WindsDown

-----------------------------------------------------------------------------
(* The same for margo-plus-non-margo with its Mercury half.                *)

CanThread(s) ==
    /\ Alive(s)
    /\ \/ thread[s] \in {"start", "forward", "wait", "destroy", "serve", "destroy_context"}
       \/ thread[s] = "join" /\ loop[s] = "ended"

CanLoop(s) ==
    /\ Alive(s)
    /\ loop[s] = "run"
    /\ \/ shutdown_flag[s]
       \/ s = "client" /\ forward \in {"answered", "counted"}
       \/ s = "server" /\ forward = "arrived"

CanFinalize(s) ==
    /\ thread[s] = "done"
    /\ s \notin finalized
    /\ IF s = "client" THEN \A c \in Callers : cpc[c] = "done" ELSE mpc = "leave"

CanAbort ==
    /\ loop["client"] = "run"
    /\ forward = "failed"
    /\ \E c \in Callers : cpc[c] # "failed"

(* Neither a spurious wakeup nor a loss is needed to get on. *)
MixedNeverStuck ==
    program = "mixed" =>
        \/ BothThrough \/ ServerForsaken
        \/ CanServe \/ CanAbort
        \/ thread["client"] = "none"
        \/ \E c \in Clients : CanHandle(c) \/ (thread["client"] # "none" /\ CanAsk(c))
        \/ \E s \in Sides : CanThread(s) \/ CanLoop(s) \/ CanFinalize(s)

(* No wakeup is lost: a client that blocks still has a forward under way.  *)
(* A progress loop ends only when its thread has told it to.               *)
WakeupInv ==
    /\ thread["client"] = "blocked" => done_count < Forwards
    /\ thread["client"] \in {"wait", "blocked"} /\ done_count < Forwards => forward # "idle"
    /\ \A s \in Sides :
         /\ loop[s] = "none" <=> thread[s] \in {"none", "start"}
         /\ loop[s] = "ended" => shutdown_flag[s]
         /\ shutdown_flag[s] <=> thread[s] \in {"join", "destroy_context", "done"}

(* Of the client's process all or nothing is ended. *)
AbortInv ==
    program = "mixed" => \A c \in Callers : cpc[c] = "failed" <=> forward = "aborted"

(* The server starts its thread when it creates the eventual. *)
StartInv == program = "mixed" => (mpc = "setup" <=> thread["server"] = "none")

LEMMA WakeupInit == NmInit => WakeupInv
  BY NmSides DEF NmInit, WakeupInv

LEMMA WakeupStep ==
    NmInv /\ WakeupInv /\ (NmNext \/ (\E s \in Sides : StartThread(s)) \/ UNCHANGED nmVars)
        => WakeupInv'
<1> SUFFICES ASSUME NmInv, WakeupInv,
                    NmNext \/ (\E s \in Sides : StartThread(s)) \/ UNCHANGED nmVars
             PROVE  WakeupInv'
  OBVIOUS
<1> USE NmSides DEF NmInv, NmType, NmTypeOK, ForwardInv, ThreadState, ForwardState, WakeupInv
<1>1. ASSUME NEW s \in Sides, SetUp(s) PROVE WakeupInv'
  BY <1>1 DEF SetUp
<1>2. ASSUME NEW s \in Sides, Stop(s) PROVE WakeupInv'
  BY <1>2 DEF Stop
<1>3. ASSUME NEW s \in Sides, Join(s) PROVE WakeupInv'
  BY <1>3 DEF Join, JoinNoWait
<1>4. ASSUME NEW s \in Sides, DestroyContext(s) PROVE WakeupInv'
  BY <1>4 DEF DestroyContext
<1>5. CASE ForwardFirst
  BY <1>5 DEF ForwardFirst
<1>6. CASE Wait
  BY <1>6 DEF Wait
<1>7. ASSUME NEW s \in Sides, LoopEnd(s) PROVE WakeupInv'
  BY <1>7 DEF LoopEnd
<1>8. CASE Callback
  <2>1. done_count < Forwards /\ done_count' = done_count + 1
    BY <1>8 DEF Callback
  <2>2. UNCHANGED <<loop, shutdown_flag>>
    BY <1>8 DEF Callback
  <2>3. CASE done_count' = Forwards
    <3>1. thread' = IF thread["client"] = "blocked" THEN [thread EXCEPT !["client"] = "wait"]
                                                    ELSE thread
      BY <1>8, <2>3 DEF Callback, SignalClient
    <3> QED
      BY <2>1, <2>2, <2>3, <3>1
  <2>4. CASE done_count' # Forwards
    <3>1. thread' = thread /\ forward' = "counted"
      BY <1>8, <2>4 DEF Callback
    <3> QED
      BY <2>1, <2>2, <2>4, <3>1
  <2> QED
    BY <2>3, <2>4
<1>9. CASE ForwardAgain \/ Answer \/ Deliver \/ Lose \/ CallbackFails
  BY <1>9 DEF ForwardAgain, Answer, Deliver, Lose, CallbackFails
<1>10. CASE SpuriousWakeup
  BY <1>10 DEF SpuriousWakeup
<1>11. ASSUME NEW s \in Sides, StartThread(s) PROVE WakeupInv'
  BY <1>11 DEF StartThread
<1>12. CASE UNCHANGED nmVars
  BY <1>12 DEF nmVars
<1> QED
  BY <1>1, <1>2, <1>3, <1>4, <1>5, <1>6, <1>7, <1>8, <1>9, <1>10, <1>11, <1>12
     DEF NmNext, ThreadStep, LoopStep

LEMMA StartStep == ProgramInv /\ StartInv /\ [ProgramNext]_programVars => StartInv'
<1> SUFFICES ASSUME ProgramInv, StartInv, [ProgramNext]_programVars PROVE StartInv'
  OBVIOUS
<1> USE NmSides DEF StartInv, ProgramInv, NmInv, NmType, NmTypeOK
<1>1. CASE CreateAndStart
  BY <1>1 DEF CreateAndStart, CreateEventual, StartThread, options
<1>2. CASE (Wake \/ Count) /\ UNCHANGED <<nmVars, ownVars>>
  BY <1>2 DEF Wake, Count, nmVars, options
<1>3. CASE StartClient
  BY <1>3 DEF StartClient, StartThread, vars, options, serverVars
<1>4. ASSUME NEW c \in Clients, HandlerStep(c) \/ Call(c) \/ TimedReceive(c) \/ TimeOut(c)
      PROVE  StartInv'
  BY <1>4 DEF HandlerStep, Call, TimedReceive, TimeOut, Respond, Forward, Receive, GiveUp,
              nmVars, options, serverVars
<1>5. CASE MercuryNetwork
  BY <1>5 DEF MercuryNetwork, Deliver, Lose, SpuriousWakeup, vars, options, serverVars
<1>6. ASSUME NEW s \in Sides, MercuryThread(s) \/ MercuryLoop(s) PROVE StartInv'
  <2>1. thread'["server"] = "none" <=> thread["server"] = "none"
    BY <1>6 DEF MercuryThread, MercuryLoop, ThreadStep, LoopStep, SetUp, Stop, Join, JoinNoWait,
                DestroyContext, ForwardFirst, Wait, LoopEnd, Callback, SignalClient,
                ForwardAgain, Answer
  <2> QED
    BY <1>6, <2>1 DEF MercuryThread, MercuryLoop, vars, options, serverVars
<1>7. ASSUME NEW s \in Sides, Finalize(s) PROVE StartInv'
  BY <1>7 DEF Finalize, FinalizeUnjoined, vars, options, serverVars, nmVars
<1>8. CASE ClientAborts
  BY <1>8 DEF ClientAborts, CallbackFails, Abort, options, serverVars
<1>9. CASE UNCHANGED programVars
  BY <1>9 DEF programVars, vars, options, serverVars, nmVars
<1> QED
  BY <1>1, <1>2, <1>3, <1>4, <1>5, <1>6, <1>7, <1>8, <1>9 DEF ProgramNext, ServiceStep

LEMMA AbortStep == ProgramInv /\ WaitInv /\ AbortInv /\ [ProgramNext]_programVars => AbortInv'
<1> SUFFICES ASSUME ProgramInv, WaitInv, AbortInv, [ProgramNext]_programVars PROVE AbortInv'
  OBVIOUS
<1> USE CallerTypes DEF ProgramInv, ServiceInv, ServiceType
<1>0. UNCHANGED program /\ Callers' = Callers
  BY Parts DEF Next, CreateEventual, Wake, Count, Respond, Forward, Receive, GiveUp, Abort, vars,
               options, Callers
<1>1. CASE ClientAborts
  <2>1. PICK c \in Callers : Abort(c)
    BY <1>1 DEF ClientAborts
  <2>2. \A d \in Callers : d = c
    BY <2>1 DEF Abort, Callers
  <2>3. cpc'[c] = "failed" /\ forward' = "aborted"
    BY <1>1, <2>1 DEF Abort, ClientAborts, CallbackFails
  <2> QED
    BY <1>0, <2>2, <2>3 DEF AbortInv
<1>2. ASSUME NEW c \in Clients, HandlerStep(c) \/ Call(c) \/ TimedReceive(c) \/ TimeOut(c)
      PROVE  AbortInv'
  <2>1. program = "mixed" => \A d \in Callers : cpc'[d] = "failed" <=> cpc[d] = "failed"
    BY <1>2 DEF HandlerStep, Call, TimedReceive, TimeOut, Respond, Forward, Receive, GiveUp,
                clientVars, WaitInv
  <2>2. UNCHANGED forward
    BY <1>2 DEF HandlerStep, Call, TimedReceive, TimeOut, nmVars
  <2> QED
    BY <1>0, <2>1, <2>2 DEF AbortInv
<1>3. CASE ServiceStep
  <2>1. UNCHANGED <<cpc, forward>>
    BY <1>3 DEF ServiceStep, CreateAndStart, CreateEventual, Wake, Count, StartThread, nmVars,
                clientVars
  <2> QED
    BY <1>0, <2>1 DEF AbortInv
<1>4. CASE StartClient \/ (\E s \in Sides : Finalize(s)) \/ UNCHANGED programVars
  <2>1. UNCHANGED <<cpc, forward>>
    BY <1>4 DEF StartClient, StartThread, Finalize, FinalizeUnjoined, programVars, vars, nmVars,
                clientVars
  <2> QED
    BY <1>0, <2>1 DEF AbortInv
<1>5. CASE MercuryNetwork \/ \E s \in Sides : MercuryThread(s) \/ MercuryLoop(s)
  <2>1. UNCHANGED cpc
    BY <1>5 DEF MercuryNetwork, MercuryThread, MercuryLoop, vars, clientVars
  <2>2. forward' = "aborted" <=> forward = "aborted"
    BY <1>5 DEF MercuryNetwork, MercuryThread, MercuryLoop, Deliver, Lose, SpuriousWakeup,
                ThreadStep, LoopStep, Alive, SetUp, Stop, Join, JoinNoWait, DestroyContext,
                ForwardFirst, Wait, LoopEnd, Callback, ForwardAgain, Answer
  <2> QED
    BY <1>0, <2>1, <2>2 DEF AbortInv
<1> QED
  BY <1>1, <1>2, <1>3, <1>4, <1>5 DEF ProgramNext

LEMMA WakeupInvariance == ProgramSpec => [](WakeupInv /\ StartInv /\ AbortInv)
<1>1. ProgramInit => WakeupInv /\ StartInv
  BY WakeupInit, NmSides DEF ProgramInit, Init, NmInit, StartInv
<1>2. ProgramInit => AbortInv
  BY CallerTypes DEF ProgramInit, Init, NmInit, AbortInv
<1>3. ProgramInv /\ WakeupInv /\ [ProgramNext]_programVars => WakeupInv'
  BY Parts, WakeupStep DEF ProgramInv
<1> QED
  BY <1>1, <1>2, <1>3, StartStep, AbortStep, ProgramInvariance, ProgramsImplementService,
     WaitInvariance, PTL DEF ProgramSpec

(***************************************************************************)
(* The two halves of margo-plus-non-margo never end up waiting for each    *)
(* other, and the client's thread misses no wakeup: somebody can take a    *)
(* step until both sides are finalized, or the server is and a forward of  *)
(* the client was never answered or ended it, or the server waits for      *)
(* calls of a client that was ended.                                       *)
(***************************************************************************)
THEOREM MixedCanGoOn == ProgramSpec => []MixedNeverStuck
<1>1. ProgramInv /\ WaitInv /\ WakeupInv /\ StartInv /\ AbortInv /\ NeverStuck => MixedNeverStuck
  <2> SUFFICES ASSUME ProgramInv, WaitInv, WakeupInv, StartInv, AbortInv, NeverStuck,
                      program = "mixed", thread["client"] # "none",
                      ~CanServe, ~CanAbort, \A c \in Clients : ~CanHandle(c) /\ ~CanAsk(c),
                      \A s \in Sides : ~CanThread(s) /\ ~CanLoop(s) /\ ~CanFinalize(s)
               PROVE  BothThrough \/ ServerForsaken
    BY DEF MixedNeverStuck
  <2> USE NmSides DEF ProgramInv, NmInv, NmType, NmTypeOK
  <2>1. thread["server"] = "done"
    <3>1. thread["server"] \notin {"none", "start", "serve", "destroy_context"}
      BY DEF CanThread, Alive, StartInv, CanServe
    <3>2. thread["server"] # "join"
      BY DEF CanThread, CanLoop, Alive, WakeupInv
    <3> QED
      BY <3>1, <3>2 DEF ThreadState
  <2>2. CASE forward = "aborted"
    <3>1. mpc \in {"wait", "leave"} /\ HandlersRun
      BY DEF CanServe, HandlersRun, ServiceInv, ServiceType
    <3>2. suspended = 0 /\ arrived = {}
      BY <3>1 DEF CanServe, CanHandle, ServiceInv, CountInv, ServiceType
    <3>3. CASE mpc = "leave"
      BY <2>1, <2>2, <3>3 DEF CanFinalize, BothThrough
    <3>4. CASE mpc = "wait"
      <4>1. serviced # Total /\ serviced \in Nat /\ serviced <= Total
        BY <3>4, CallerTypes, RespondedBound
           DEF CanServe, WaitInv, primary, ServiceInv, CountInv
      <4> QED
        BY <2>1, <2>2, <3>2, <3>4, <4>1, CallerTypes DEF ServerForsaken
    <3> QED
      BY <3>1, <3>3, <3>4
  <2> SUFFICES ASSUME forward # "aborted" PROVE BothThrough
    BY <2>2
  <2>a. \A c \in Clients : cpc[c] # "failed"
    BY DEF AbortInv, ServiceInv, ClientInv
  <2>b. Finished
    BY <2>a DEF NeverStuck, GaveUp, primary
  <2>3. "server" \in finalized
    BY <2>1, <2>b DEF CanFinalize, Finished
  <2>4. CASE thread["client"] = "done"
    <3>1. \A c \in Callers : cpc[c] = "done"
      BY <2>b, CallerTypes DEF Finished
    <3>2. "client" \in finalized
      BY <2>4, <3>1 DEF CanFinalize
    <3> QED
      BY <2>3, <3>2 DEF BothThrough
  <2>5. CASE thread["client"] = "blocked"
    <3>1. loop["client"] = "run" /\ forward # "idle"
      BY <2>5 DEF WakeupInv
    <3>2. forward # "failed"
      BY <2>a, <3>1, CallerTypes, NoopAssumption DEF CanAbort, Callers
    <3>3. forward \in {"sent", "arrived", "lost"}
      BY <3>1, <3>2 DEF CanLoop, Alive, ForwardState
    <3> QED
      BY <2>3, <3>3 DEF BothThrough
  <2>6. thread["client"] \in {"done", "blocked"}
    <3>1. thread["client"] \notin {"start", "forward", "wait", "destroy", "serve",
                                   "destroy_context"}
      BY DEF CanThread, Alive
    <3>2. thread["client"] # "join"
      BY DEF CanThread, CanLoop, Alive, WakeupInv
    <3> QED
      BY <3>1, <3>2 DEF ThreadState
  <2> QED
    BY <2>4, <2>5, <2>6
<1> QED
  BY <1>1, ProgramInvariance, ProgramsImplementService, WaitInvariance, WakeupInvariance,
     SomebodyCanGoOn, PTL

ThreadOrder == [none |-> 0, start |-> 1, forward |-> 2, serve |-> 2, wait |-> 3, blocked |-> 4,
                destroy |-> 5, join |-> 6, destroy_context |-> 7, done |-> 8]

LoopOrder == [none |-> 0, run |-> 1, ended |-> 2]

ForwardOrder == [idle |-> 0, counted |-> 0, sent |-> 1, arrived |-> 2, answered |-> 3, lost |-> 4,
                 failed |-> 4, aborted |-> 5]

(* Nothing of the Mercury half goes back while no forward is counted. *)
NotBack ==
    /\ done_count' = done_count
    /\ ForwardOrder[forward'] >= ForwardOrder[forward]
    /\ \A s \in Sides : /\ ThreadOrder[thread'[s]] >= ThreadOrder[thread[s]]
                        /\ LoopOrder[loop'[s]] >= LoopOrder[loop[s]]

(* One more forward is counted, or nothing goes back and something ahead. *)
HalfAhead ==
    \/ done_count' = done_count + 1
    \/ /\ NotBack
       /\ \/ ForwardOrder[forward'] > ForwardOrder[forward]
          \/ \E s \in Sides : \/ ThreadOrder[thread'[s]] > ThreadOrder[thread[s]]
                              \/ LoopOrder[loop'[s]] > LoopOrder[loop[s]]

(* A spurious wakeup is the one step back: it sends the client's thread    *)
(* round its wait again.                                                   *)
ProgramAhead ==
    \/ Ahead /\ NotBack /\ UNCHANGED finalized
    \/ UNCHANGED <<vars, finalized>> /\ (HalfAhead \/ SpuriousWakeup)
    \/ UNCHANGED <<vars, nmVars>> /\ finalized \subseteq finalized' /\ finalized' # finalized

ProgramsWindDown ==
    /\ [](serviced <= Total /\ done_count <= Forwards /\ finalized \subseteq Sides)
    /\ [][ProgramAhead]_programVars

LEMMA HalfStep ==
    ASSUME NmInv, WakeupInv, NmNext \/ \E s \in Sides : StartThread(s)
    PROVE  HalfAhead \/ SpuriousWakeup
<1> USE NmSides DEF NmInv, NmType, NmTypeOK, ThreadState, ForwardState, HalfAhead, NotBack,
                    ThreadOrder, LoopOrder, ForwardOrder
<1>1. ASSUME NEW s \in Sides, SetUp(s) PROVE HalfAhead
  <2>1. thread[s] = "start" /\ UNCHANGED <<forward, done_count>>
    BY <1>1 DEF SetUp
  <2>2. \A t \in Sides : /\ thread'[t] = IF t = s THEN IF s = "client" THEN "forward" ELSE "serve"
                                                 ELSE thread[t]
                         /\ loop'[t] = IF t = s THEN "run" ELSE loop[t]
    BY <1>1 DEF SetUp
  <2>3. loop[s] = "none"
    BY <2>1 DEF WakeupInv
  <2> QED
    BY <2>1, <2>2, <2>3
<1>2. ASSUME NEW s \in Sides, Stop(s) PROVE HalfAhead
  BY <1>2 DEF Stop
<1>3. ASSUME NEW s \in Sides, Join(s) PROVE HalfAhead
  BY <1>3 DEF Join, JoinNoWait
<1>4. ASSUME NEW s \in Sides, DestroyContext(s) PROVE HalfAhead
  BY <1>4 DEF DestroyContext
<1>5. CASE ForwardFirst
  BY <1>5 DEF ForwardFirst, ForwardInv
<1>6. CASE Wait
  BY <1>6 DEF Wait
<1>7. ASSUME NEW s \in Sides, LoopEnd(s) PROVE HalfAhead
  BY <1>7 DEF LoopEnd
<1>8. CASE Callback
  BY <1>8 DEF Callback
<1>9. CASE ForwardAgain \/ Answer \/ Deliver \/ Lose \/ CallbackFails
  BY <1>9 DEF ForwardAgain, Answer, Deliver, Lose, CallbackFails
<1>10. ASSUME NEW s \in Sides, StartThread(s) PROVE HalfAhead
  BY <1>10 DEF StartThread
<1> QED
  BY <1>1, <1>2, <1>3, <1>4, <1>5, <1>6, <1>7, <1>8, <1>9, <1>10 DEF NmNext, ThreadStep, LoopStep

LEMMA NotBackStays == NmInv /\ UNCHANGED nmVars => NotBack
  BY NmSides DEF NmInv, NmType, NmTypeOK, nmVars, NotBack, ThreadState, ForwardState, ThreadOrder,
                 LoopOrder, ForwardOrder

LEMMA NotBackStart == NmInv /\ (\E s \in Sides : StartThread(s)) => NotBack
  BY NmSides DEF NmInv, NmType, NmTypeOK, StartThread, NotBack, ThreadState, ForwardState,
                 ThreadOrder, LoopOrder, ForwardOrder

(***************************************************************************)
(* All three programs wind down, margo-plus-non-margo with its Mercury     *)
(* half: but for spurious wakeups they hold no cycle.                      *)
(***************************************************************************)
THEOREM AllWindDown == ProgramSpec => ProgramsWindDown
<1>1. ProgramInv /\ WakeupInv /\ [ProgramNext]_programVars => [ProgramAhead]_programVars
  <2> SUFFICES ASSUME ProgramInv, WakeupInv, ProgramNext PROVE ProgramAhead
    OBVIOUS
  <2> USE NmSides DEF ProgramInv
  <2>1. CASE CreateAndStart
    <3>1. Ahead
      BY <2>1, ServiceAhead DEF CreateAndStart, Next
    <3>2. NotBack
      BY <2>1, NotBackStays, NotBackStart DEF CreateAndStart
    <3> QED
      BY <2>1, <3>1, <3>2 DEF CreateAndStart, ownVars, ProgramAhead
  <2>2. CASE (Wake \/ Count) /\ UNCHANGED <<nmVars, ownVars>>
    BY <2>2, ServiceAhead, NotBackStays DEF Next, ownVars, ProgramAhead
  <2>3. CASE StartClient
    <3>1. HalfAhead \/ SpuriousWakeup
      BY <2>3, HalfStep DEF StartClient
    <3> QED
      BY <2>3, <3>1 DEF StartClient, ownVars, ProgramAhead
  <2>4. ASSUME NEW c \in Clients, HandlerStep(c) \/ Call(c) \/ TimedReceive(c) \/ TimeOut(c)
        PROVE  ProgramAhead
    <3>1. Ahead
      BY <2>4, ServiceAhead DEF HandlerStep, Call, TimedReceive, TimeOut, Next
    <3>2. NotBack /\ UNCHANGED finalized
      BY <2>4, NotBackStays DEF HandlerStep, Call, TimedReceive, TimeOut, ownVars
    <3> QED
      BY <3>1, <3>2 DEF ProgramAhead
  <2>5. ASSUME NEW s \in Sides, MercuryThread(s) \/ MercuryLoop(s) \/ MercuryNetwork
        PROVE  ProgramAhead
    <3>1. NmNext /\ UNCHANGED <<vars, finalized>>
      BY <2>5 DEF MercuryThread, MercuryLoop, MercuryNetwork, NmNext, ownVars
    <3> QED
      BY <3>1, HalfStep DEF ProgramAhead
  <2>6. ASSUME NEW s \in Sides, Finalize(s) PROVE ProgramAhead
    BY <2>6 DEF Finalize, FinalizeUnjoined, ProgramAhead
  <2>7. CASE ClientAborts
    <3>1. Ahead
      BY <2>7, ServiceAhead, CallerTypes DEF ClientAborts, Next
    <3>2. NotBack
      BY <2>7 DEF ClientAborts, CallbackFails, NmInv, NmType, NmTypeOK, NotBack, ThreadState,
                  ThreadOrder, LoopOrder, ForwardOrder
    <3> QED
      BY <2>7, <3>1, <3>2 DEF ClientAborts, ownVars, ProgramAhead
  <2> QED
    BY <2>1, <2>2, <2>3, <2>4, <2>5, <2>6, <2>7 DEF ProgramNext, ServiceStep
<1>2. ProgramInv => serviced <= Total /\ done_count <= Forwards /\ finalized \subseteq Sides
  BY CallerTypes, RespondedBound, NmSides
     DEF ProgramInv, ServiceInv, CountInv, NmInv, NmType, NmTypeOK, FinalInv
<1> QED
  BY <1>1, <1>2, ProgramInvariance, WakeupInvariance, PTL DEF ProgramSpec, ProgramsWindDown
=============================================================================
