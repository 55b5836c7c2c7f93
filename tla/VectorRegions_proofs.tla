------------------------ MODULE VectorRegions_proofs ------------------------
(***************************************************************************)
(* Proofs about VectorRegions for every accepted size and length.          *)
(***************************************************************************)
EXTENDS VectorRegions, BwTransfer_proofs

(* What an accepted length divides. *)
LEMMA Division ==
    ASSUME NEW X \in Nat, NEW V \in Nat, VectorAccepted(X, V)
    PROVE  /\ RegionSize(X, V) \in Nat \ {0}
           /\ X = RegionSize(X, V) * V
<1>1. V >= 1 /\ X >= 1 /\ X % V = 0
  BY DEF VectorAccepted
<1>2. X \div V \in Nat /\ X = (V * (X \div V)) + (X % V)
  BY <1>1
<1>3. X \div V # 0
  BY <1>1, <1>2
<1> QED
  BY <1>1, <1>2, <1>3 DEF RegionSize

(***************************************************************************)
(* The regions that margo-p2p-vector registers follow each other without a *)
(* gap or an overlap and end with the buffer, for every -x and -v that     *)
(* parse_args accepts.                                                     *)
(***************************************************************************)
THEOREM RegionsTile ==
    ASSUME NEW X \in Nat, NEW V \in Nat, VectorAccepted(X, V)
    PROVE  Tiles(X, V)
<1> DEFINE S == RegionSize(X, V)
<1>1. S \in Nat /\ X = S * V /\ V >= 1
  BY Division DEF VectorAccepted
<1> HIDE DEF S
<1>2. S * 0 = 0
  BY <1>1
<1>3. ASSUME NEW m \in 0..(V - 2) PROVE S * (m + 1) = S * m + S
  BY <1>1
<1>4. S * (V - 1) + S = X
  BY <1>1
<1> QED
  BY <1>2, <1>3, <1>4 DEF Tiles, RegionStart, RegionEnd, S

(* Equal regions are disjoint. *)
LEMMA LaterRegion ==
    ASSUME NEW S \in Nat, NEW m \in Nat, NEW j \in Nat, m < j
    PROVE  S * m + S <= S * j
<1>1. m + 1 <= j
  OBVIOUS
<1>2. PICK d \in Nat : j = m + 1 + d
  <2>1. j - (m + 1) \in Nat /\ j = m + 1 + (j - (m + 1))
    BY <1>1
  <2> QED
    BY <2>1
<1>3. S * j = S * m + S + S * d
  BY <1>2
<1>4. S * d \in Nat
  BY <1>2
<1>5. S * m \in Nat /\ S * j \in Nat
  OBVIOUS
<1> QED
  BY <1>3, <1>4, <1>5

(***************************************************************************)
(* Every byte of the buffer is in one region and no other, so a transfer   *)
(* of the vector moves it once.                                            *)
(***************************************************************************)
THEOREM EveryByteOnce ==
    ASSUME NEW X \in Nat, NEW V \in Nat, VectorAccepted(X, V), NEW b \in 0..(X - 1)
    PROVE  InOneRegion(b, X, V)
<1> DEFINE S == RegionSize(X, V)
           k == b \div S
<1>1. S \in Nat \ {0} /\ X = S * V /\ b \in Nat /\ b < X
  BY Division
<1> HIDE DEF S
<1>2. k \in Nat /\ S * k <= b /\ b < S * k + S
  <2>1. b % S \in 0..(S - 1) /\ b = (S * (b \div S)) + (b % S) /\ b \div S \in Nat
    BY <1>1
  <2>2. S * (b \div S) \in Nat
    BY <2>1, <1>1
  <2> QED
    BY <2>1, <2>2, <1>1
<1> HIDE DEF k
<1>3. k < V
  <2> SUFFICES ASSUME V <= k PROVE FALSE
    BY <1>2
  <2>1. S * V <= S * k
    <3>1. CASE V = k
      BY <3>1, <1>1, <1>2
    <3>2. CASE V < k
      <4>1. S * V + S <= S * k
        BY <3>2, <1>1, <1>2, LaterRegion
      <4> QED
        BY <4>1, <1>1, <1>2
    <3> QED
      BY <3>1, <3>2, <1>2
  <2> QED
    BY <2>1, <1>1, <1>2
<1>4. ASSUME NEW j \in 0..(V - 1), b \in S * j .. ((S * j + S) - 1) PROVE j = k
  <2>1. j \in Nat /\ S * j \in Nat /\ S * k \in Nat
    BY <1>1, <1>2
  <2>2. S * j <= b /\ b < S * j + S
    BY <1>4, <2>1, <1>1
  <2>3. ~(k < j)
    <3> SUFFICES ASSUME k < j PROVE FALSE
      OBVIOUS
    <3>1. S * k + S <= S * j
      BY <1>1, <1>2, <2>1, LaterRegion
    <3> QED
      BY <3>1, <2>1, <2>2, <1>1, <1>2
  <2>4. ~(j < k)
    <3> SUFFICES ASSUME j < k PROVE FALSE
      OBVIOUS
    <3>1. S * j + S <= S * k
      BY <1>1, <1>2, <2>1, LaterRegion
    <3> QED
      BY <3>1, <2>1, <2>2, <1>1, <1>2
  <2> QED
    BY <2>1, <2>3, <2>4, <1>2
<1>5. b \in S * k .. ((S * k + S) - 1) /\ k \in 0..(V - 1)
  <2>1. S * k \in Nat
    BY <1>1, <1>2
  <2> QED
    BY <1>1, <1>2, <1>3, <2>1
<1>6. \A m : Region(m, X, V) = S * m .. ((S * m + S) - 1)
  BY DEF Region, RegionStart, RegionEnd, S
<1>7. b \in Region(k, X, V)
  BY <1>5, <1>6
<1>8. \A j \in 0..(V - 1) : b \in Region(j, X, V) => j = k
  BY <1>4, <1>6
<1>9. k \in 0..(V - 1)
  BY <1>5
<1> QED
  BY <1>7, <1>8, <1>9, Zenon DEF InOneRegion

(***************************************************************************)
(* margo-p2p-vector is margo-p2p-bw with a ring of one transfer: with a    *)
(* buffer of one transfer the offset that bw_worker leaves behind and the  *)
(* bytes that both ranks check are the same in the two programs.           *)
(***************************************************************************)
THEOREM RingOfOne ==
    ASSUME BufSize = XferSize
    PROVE  /\ Slots = 1
           /\ BytesToCheck = VectorBytesToCheck(XferSize, out)
           /\ WrapAround(0 + XferSize) = VectorNext(0)
<1>1. XferSize \in Nat \ {0}
  BY BwAssumption DEF OptionsAccepted
<1>2. Slots = 1
  BY <1>1 DEF Slots
<1>3. Slots * XferSize = XferSize
  BY <1>1, <1>2
<1>4. WrapAround(0 + XferSize) = 0
  BY <1>1 DEF WrapAround
<1>5. BytesToCheck = VectorBytesToCheck(XferSize, out)
  BY <1>1, <1>3 DEF BytesToCheck, VectorBytesToCheck
<1> QED
  BY <1>2, <1>3, <1>4, <1>5 DEF VectorNext

(***************************************************************************)
(* "always transfer from beginning in this benchmark": with a buffer of    *)
(* one transfer the shared offset of the transfer phase is never anything  *)
(* but 0 when a worker uses it, whatever the workers do.                   *)
(***************************************************************************)
THEOREM VectorFromBeginning ==
    BufSize = XferSize => (Spec => [](\A w \in Workers : pc[w] \in InFlight => my_off[w] = 0))
<1> SUFFICES ASSUME BufSize = XferSize
             PROVE  Spec => [](\A w \in Workers : pc[w] \in InFlight => my_off[w] = 0)
  OBVIOUS
<1>1. XferFits
  BY BwAssumption DEF XferFits
<1>2. TypeOK /\ TransferAccepted => \A w \in Workers : pc[w] \in InFlight => my_off[w] = 0
  BY BwAssumption DEF TypeOK, TransferAccepted, Accepted
<1>3. Spec => []TypeOK
  BY TypeCorrect
<1>4. Spec => []TransferAccepted
  BY <1>1, TransfersStayInside
<1> QED
  BY <1>2, <1>3, <1>4, PTL
=============================================================================
