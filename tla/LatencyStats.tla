---------------------------- MODULE LatencyStats ----------------------------
(***************************************************************************)
(* bench_routine_print of margo-p2p-latency.c: the order statistics of the *)
(* measured latencies.  An array of n measurements is a function on        *)
(* 0..(n-1); median and quartiles are means of two elements and are kept   *)
(* here as the sum of the two, which is twice the value printed.           *)
(***************************************************************************)
EXTENDS Integers, FiniteSets

Indexes(n) == 0..(n - 1)

Ascending(a, n) == \A j, k \in Indexes(n) : j <= k => a[j] <= a[k]

Unsorted(m, n) == m

(* qsort with measurement_cmp: element k has at most k smaller ones before *)
(* it.                                                                     *)
Sort(m, n) ==
    [k \in Indexes(n) |->
        CHOOSE v \in {m[j] : j \in Indexes(n)} :
            /\ Cardinality({j \in Indexes(n) : m[j] < v}) <= k
            /\ k < Cardinality({j \in Indexes(n) : m[j] <= v})]

(* The second bracket is the next element unless the division was even. *)
Bracket2(bracket1, n, parts) == IF n % parts # 0 THEN bracket1 + 1 ELSE bracket1

MedBracket(n) == n \div 2
Q1Bracket(n)  == n \div 4
Q3Bracket(n)  == 3 * Q1Bracket(n)

TwiceMed(a, n) == a[MedBracket(n)] + a[Bracket2(MedBracket(n), n, 2)]
TwiceQ1(a, n)  == a[Q1Bracket(n)] + a[Bracket2(Q1Bracket(n), n, 4)]
TwiceQ3(a, n)  == a[Q3Bracket(n)] + a[Bracket2(Q3Bracket(n), n, 4)]

(* Every element the function reads. *)
Brackets(n) ==
    {MedBracket(n), Bracket2(MedBracket(n), n, 2),
     Q1Bracket(n), Bracket2(Q1Bracket(n), n, 4),
     Q3Bracket(n), Bracket2(Q3Bracket(n), n, 4)}

(* The columns of the output line are in the order of its header. *)
Ordered(a, n) ==
    /\ 2 * a[0] <= TwiceQ1(a, n)
    /\ TwiceQ1(a, n) <= TwiceMed(a, n)
    /\ TwiceMed(a, n) <= TwiceQ3(a, n)
    /\ TwiceQ3(a, n) <= 2 * a[n - 1]
=============================================================================
