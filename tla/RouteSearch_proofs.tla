------------------------- MODULE RouteSearch_proofs -------------------------
(***************************************************************************)
(* What the trade engine's walk and bisections (TakerDepth) and the search *)
(* for routes with the radar's verdict (RouteSearch) promise, for any      *)
(* currencies, books, requests and largest quantity.                       *)
(*                                                                         *)
(* The model computes with folds and recursive functions.  The provers     *)
(* cannot instantiate the library's induction and recursion theorems, so   *)
(* each recursive definition gets a lemma of its own, by least numbers:    *)
(* a function with these equations exists, and the definition's value is   *)
(* the last of its values.  From there on each is reasoned about value by  *)
(* value.                                                                  *)
(*                                                                         *)
(* The inductive invariant of the search, SearchInv, gives every call of   *)
(* visit and every route collected its meaning in the market (Shape), says *)
(* of every chain that buys something that it was collected or that some   *)
(* call on the stack will still find it (Complete), and keeps what the     *)
(* radar learnt on the way (Why) and said at the end (Told).               *)
(***************************************************************************)
EXTENDS RouteSearch, FiniteSetTheorems, WellFoundedInduction, TLAPS

-----------------------------------------------------------------------------
(* Induction and recursion, with sets for parameters.                      *)

LEMMA Least ==
    ASSUME NEW S, S \subseteq Nat, S # {}
    PROVE  \E n \in S : \A m \in S : n <= m
<1>1. IsWellFoundedOn(OpToRel(<, Nat), Nat)
  BY NatLessThanWellFounded
<1>2. PICK n \in S : \A m \in S : ~(<<m, n>> \in OpToRel(<, Nat))
  BY <1>1, WFMin
<1>3. ASSUME NEW m \in S PROVE n <= m
  <2>1. ~(m < n)
    BY <1>2 DEF OpToRel
  <2> QED BY <2>1
<1> QED BY <1>3

\* What holds of zero, and of every number's successor with it, holds of all.
LEMMA NatInduct ==
    ASSUME NEW S, 0 \in S, \A n \in Nat : n \in S => n + 1 \in S
    PROVE  \A n \in Nat : n \in S
<1> SUFFICES ASSUME Nat \ S # {} PROVE FALSE
  OBVIOUS
<1>1. PICK n \in Nat \ S : \A m \in Nat \ S : n <= m
  BY Least
<1>2. n # 0 /\ n - 1 \in Nat /\ n - 1 \in S
  BY <1>1
<1>3. (n - 1) + 1 \in S
  BY <1>2
<1> QED BY <1>1, <1>3

LEMMA MaxOfPrefix ==
    ASSUME NEW n \in Nat, NEW s \in SUBSET (1..n), n \in s
    PROVE  Max(s) = n
<1>1. \A x \in s : (\A y \in s : x >= y) => x = n
  OBVIOUS
<1>2. \A y \in s : n >= y
  OBVIOUS
<1> QED BY <1>1, <1>2 DEF Max

LEMMA PrefixSets ==
    ASSUME NEW n \in Nat
    PROVE  /\ 1..0 = {} /\ 0 \in 0..n
           /\ \A k \in 0..n : 1..k \in SUBSET (1..n)
           /\ \A k \in 1..n : /\ (1..k) \ {k} = 1..(k - 1) /\ 1..k # {}
                              /\ Max(1..k) = k
                              /\ k \in 0..n /\ k - 1 \in 0..n
<1>1. ASSUME NEW k \in 1..n
      PROVE  Max(1..k) = k
  <2>1. k \in Nat /\ 1..k \in SUBSET (1..k) /\ k \in 1..k
    OBVIOUS
  <2> QED BY <2>1, MaxOfPrefix
<1>2. ASSUME NEW k \in 1..n
      PROVE  (1..k) \ {k} = 1..(k - 1) /\ 1..k # {} /\ k \in 0..n /\ k - 1 \in 0..n
  <2>1. k \in Nat /\ k >= 1 /\ k \in 1..k
    OBVIOUS
  <2>2. \A x : x \in (1..k) \ {k} <=> x \in 1..(k - 1)
    BY <2>1
  <2> QED BY <2>1, <2>2
<1>3. 1..0 = {} /\ 0 \in 0..n /\ \A k \in 0..n : 1..k \in SUBSET (1..n)
  OBVIOUS
<1> QED BY <1>1, <1>2, <1>3

\* The recursion the folds of the community modules are made of: over the
\* subsets of 1..n, the greatest element last.
IsFold(iter, n, b, G) ==
    \A s \in SUBSET (1..n) :
        iter[s] = IF s = {} THEN b ELSE G[<<iter[s \ {Max(s)}], Max(s)>>]

LEMMA FoldExists ==
    ASSUME NEW n \in Nat, NEW W, NEW b \in W, NEW G \in [W \X (1..n) -> W]
    PROVE  \E iter \in [SUBSET (1..n) -> W] : IsFold(iter, n, b, G)
<1> DEFINE Good(k) == k \in 0..n => \E iter \in [SUBSET (1..k) -> W] : \A s \in SUBSET (1..k) :
              iter[s] = IF s = {} THEN b ELSE G[<<iter[s \ {Max(s)}], Max(s)>>]
           S == {k \in Nat : Good(k)}
<1>0. \A k : k \in S <=> k \in Nat /\ Good(k)
  <2> HIDE DEF Good
  <2> QED OBVIOUS
<1> HIDE DEF S
<1>1. 0 \in S
  <2> DEFINE iter == [s \in SUBSET (1..0) |-> b]
  <2>1. iter \in [SUBSET (1..0) -> W] /\ \A s \in SUBSET (1..0) : s = {} /\ iter[s] = b
    OBVIOUS
  <2>2. Good(0)
    <3> HIDE DEF iter
    <3> QED BY <2>1
  <2> QED BY <1>0, <2>2
<1>2. ASSUME NEW k \in Nat, k \in S PROVE k + 1 \in S
  <2>0. Good(k) /\ (Good(k + 1) => k + 1 \in S)
    <3> HIDE DEF Good
    <3> QED BY <1>0, <1>2
  <2> SUFFICES ASSUME k + 1 \in 0..n
               PROVE \E iter \in [SUBSET (1..(k + 1)) -> W] : \A s \in SUBSET (1..(k + 1)) :
                        iter[s] = IF s = {} THEN b ELSE G[<<iter[s \ {Max(s)}], Max(s)>>]
    BY <2>0
  <2>1. PICK iter \in [SUBSET (1..k) -> W] : \A s \in SUBSET (1..k) :
              iter[s] = IF s = {} THEN b ELSE G[<<iter[s \ {Max(s)}], Max(s)>>]
    <3>1. k \in 0..n
      OBVIOUS
    <3> QED BY <2>0, <3>1
  <2> DEFINE new == [s \in SUBSET (1..(k + 1)) |->
                        IF k + 1 \in s THEN G[<<iter[s \ {k + 1}], k + 1>>] ELSE iter[s]]
  <2>2. \A s \in SUBSET (1..(k + 1)) : /\ k + 1 \in s => s \ {k + 1} \in SUBSET (1..k)
                                       /\ k + 1 \notin s => s \in SUBSET (1..k)
    OBVIOUS
  <2>3. new \in [SUBSET (1..(k + 1)) -> W]
    <3> SUFFICES ASSUME NEW s \in SUBSET (1..(k + 1)) PROVE new[s] \in W
      OBVIOUS
    <3>1. CASE k + 1 \in s
      <4>1. iter[s \ {k + 1}] \in W /\ k + 1 \in 1..n
        BY <2>2, <3>1
      <4> QED BY <3>1, <4>1
    <3>2. CASE k + 1 \notin s
      BY <2>2, <3>2
    <3> QED BY <3>1, <3>2
  <2>4. ASSUME NEW s \in SUBSET (1..(k + 1))
        PROVE  new[s] = IF s = {} THEN b ELSE G[<<new[s \ {Max(s)}], Max(s)>>]
    <3>1. CASE k + 1 \in s
      <4>1. Max(s) = k + 1 /\ s # {}
        BY <3>1, MaxOfPrefix
      <4>2. s \ {k + 1} \in SUBSET (1..(k + 1)) /\ k + 1 \notin s \ {k + 1}
        OBVIOUS
      <4>3. new[s \ {k + 1}] = iter[s \ {k + 1}]
        BY <4>2
      <4>4. new[s] = G[<<iter[s \ {k + 1}], k + 1>>]
        BY <3>1
      <4> QED BY <4>1, <4>3, <4>4
    <3>2. CASE k + 1 \notin s
      <4>1. s \in SUBSET (1..k) /\ new[s] = iter[s]
        BY <2>2, <3>2
      <4>2. s \ {Max(s)} \in SUBSET (1..k) /\ s \ {Max(s)} \in SUBSET (1..(k + 1))
        BY <4>1
      <4>3. k + 1 \notin s \ {Max(s)}
        BY <3>2
      <4>4. new[s \ {Max(s)}] = iter[s \ {Max(s)}]
        BY <4>2, <4>3
      <4>5. iter[s] = IF s = {} THEN b ELSE G[<<iter[s \ {Max(s)}], Max(s)>>]
        BY <2>1, <4>1
      <4> HIDE DEF new
      <4> QED BY <4>1, <4>4, <4>5
    <3> QED BY <3>1, <3>2
  <2> HIDE DEF new
  <2> QED BY <2>3, <2>4
<1>3. n \in S
  <2> HIDE DEF Good
  <2> QED BY <1>1, <1>2, NatInduct
<1>4. Good(n)
  <2> HIDE DEF Good
  <2> QED BY <1>0, <1>3
<1>5. n \in 0..n
  OBVIOUS
<1> QED BY <1>4, <1>5 DEF IsFold

\* The same recursion along the numbers.
IsRec(f, n, b, G) == f[0] = b /\ \A k \in 1..n : f[k] = G[<<f[k - 1], k>>]

LEMMA RecExists ==
    ASSUME NEW n \in Nat, NEW W, NEW b \in W, NEW G \in [W \X (1..n) -> W]
    PROVE  \E f \in [0..n -> W] : IsRec(f, n, b, G)
<1>0. PICK iter \in [SUBSET (1..n) -> W] : IsFold(iter, n, b, G)
  BY FoldExists
<1>1. \A s \in SUBSET (1..n) :
              iter[s] = IF s = {} THEN b ELSE G[<<iter[s \ {Max(s)}], Max(s)>>]
  BY <1>0 DEF IsFold
<1> DEFINE f == [k \in 0..n |-> iter[1..k]]
<1>2. \A k \in 0..n : 1..k \in SUBSET (1..n)
  OBVIOUS
<1>3. f \in [0..n -> W]
  BY <1>2
<1>4. f[0] = b
  <2>1. iter[1..0] = b
    BY <1>1, PrefixSets
  <2> QED BY <2>1, PrefixSets
<1>5. ASSUME NEW k \in 1..n PROVE f[k] = G[<<f[k - 1], k>>]
  <2>1. iter[1..k] = G[<<iter[1..(k - 1)], k>>]
    BY <1>1, PrefixSets, ZenonT(40)
  <2>2. f[k] = iter[1..k] /\ f[k - 1] = iter[1..(k - 1)]
    BY PrefixSets
  <2> HIDE DEF f
  <2> QED BY <2>1, <2>2
<1> HIDE DEF f
<1> QED BY <1>3, <1>4, <1>5 DEF IsRec

\* The greatest number of a set of them.
LEMMA MaxExists ==
    ASSUME NEW n \in Nat, NEW t \in SUBSET (1..n), t # {}
    PROVE  Max(t) \in t /\ Max(t) \in 1..n
<1>1. \A x \in t : n - x \in Nat
  OBVIOUS
<1>2. {n - x : x \in t} \subseteq Nat /\ {n - x : x \in t} # {}
  BY <1>1
<1>3. PICK m \in {n - x : x \in t} : \A k \in {n - x : x \in t} : m <= k
  BY <1>2, Least
<1>4. PICK x \in t : m = n - x
  OBVIOUS
<1>5. \A y \in t : n - x <= n - y
  BY <1>3, <1>4
<1>6. \A y \in t : x >= y
  BY <1>5
<1> QED BY <1>6 DEF Max

\* What a fold has made of the first k elements, for every k: the recursion
\* over sets, read along the prefixes.
Grows(it, n, W, G) ==
    \A k \in 1..n : it[1..(k - 1)] \in W => it[1..k] = G[<<it[1..(k - 1)], k>>]

Follows(f, n, b, G, end) ==
    f[0] = b /\ f[n] = end /\ \A k \in 1..n : f[k] = G[<<f[k - 1], k>>]

LEMMA AlongPrefixes ==
    ASSUME NEW n \in Nat, NEW W, NEW b \in W, NEW G \in [W \X (1..n) -> W],
           NEW it,
           it[{}] = b, Grows(it, n, W, G)
    PROVE  \E f \in [0..n -> W] : Follows(f, n, b, G, it[1..n])
<1> DEFINE f == [k \in 0..n |-> it[1..k]]
           T == {k \in Nat : k \in 0..n => f[k] \in W}
<1>1. f[0] = b /\ f[n] = it[1..n]
  BY PrefixSets
<1>2. 0 \in T
  BY <1>1
<1>3. ASSUME NEW k \in 1..n, f[k - 1] \in W
      PROVE  f[k] = G[<<f[k - 1], k>>] /\ f[k] \in W
  <2>1. f[k] = it[1..k] /\ f[k - 1] = it[1..(k - 1)]
    BY PrefixSets
  <2> HIDE DEF f
  <2> QED BY <2>1, <1>3 DEF Grows
<1>4. ASSUME NEW k \in Nat, k \in T PROVE k + 1 \in T
  <2> SUFFICES ASSUME k + 1 \in 0..n PROVE f[k + 1] \in W
    OBVIOUS
  <2>1. f[k] \in W /\ k + 1 \in 1..n /\ (k + 1) - 1 = k
    BY <1>4
  <2> HIDE DEF f
  <2> QED BY <2>1, <1>3
<1>5. \A k \in Nat : k \in T
  <2> HIDE DEF T
  <2> QED BY <1>2, <1>4, NatInduct
<1>6. \A k \in 0..n : f[k] \in W
  <2> HIDE DEF f
  <2> QED BY <1>5
<1>7. f \in [0..n -> W]
  <2>1. f = [k \in 0..n |-> f[k]]
    OBVIOUS
  <2> HIDE DEF f
  <2> QED BY <1>6, <2>1
<1>8. \A k \in 1..n : f[k] = G[<<f[k - 1], k>>]
  <2> HIDE DEF f
  <2>1. \A k \in 1..n : k - 1 \in 0..n
    OBVIOUS
  <2> QED BY <1>3, <1>6, <2>1
<1> HIDE DEF f
<1> QED BY <1>1, <1>7, <1>8 DEF Follows

\* The folds of the model, element by element: the walk over the levels ...
FoldsByTake(f, n, b, s) ==
    /\ f[0] = b
    /\ \A k \in 1..n : f[k] = Take(f[k - 1], s[k])
    /\ FoldLeft(Take, b, s) = f[n]

LEMMA FoldOfTake ==
    ASSUME NEW W, NEW b \in W, NEW n \in Nat, NEW s, DOMAIN s = 1..n,
           \A w \in W : \A i \in 1..n : Take(w, s[i]) \in W
    PROVE  \E f \in [0..n -> W] : FoldsByTake(f, n, b, s)
<1> DEFINE Op(w, i) == Take(w, s[i])
           G == [x \in W \X (1..n) |-> Op(x[1], x[2])]
           Step(it, t) == IF t = {} THEN b ELSE Op(it[t \ {Max(t)}], Max(t))
<1>1. G \in [W \X (1..n) -> W] /\ \A w \in W : \A i \in 1..n : G[<<w, i>>] = Op(w, i)
  <2>1. \A w \in W : \A i \in 1..n : Op(w, i) \in W
    OBVIOUS
  <2> HIDE DEF Op
  <2> QED BY <2>1
<1>2. PICK it0 \in [SUBSET (1..n) -> W] : IsFold(it0, n, b, G)
  <2> HIDE DEF G, Step
  <2> QED BY <1>1, FoldExists
<1>3. ASSUME NEW t \in SUBSET (1..n) PROVE it0[t] = Step(it0, t)
  <2> HIDE DEF Op, G
  <2>1. it0[t] = IF t = {} THEN b ELSE G[<<it0[t \ {Max(t)}], Max(t)>>]
    BY <1>2 DEF IsFold
  <2>2. ASSUME t # {} PROVE it0[t \ {Max(t)}] \in W /\ Max(t) \in 1..n
    BY <2>2, MaxExists
  <2> QED BY <1>1, <2>1, <2>2
<1>4. it0 = [t \in SUBSET (1..n) |-> Step(it0, t)]
  <2>1. it0 = [t \in SUBSET (1..n) |-> it0[t]]
    OBVIOUS
  <2> HIDE DEF Step
  <2> QED BY <1>3, <2>1
<1> DEFINE it1 == CHOOSE z : z = [t \in SUBSET (1..n) |-> Step(z, t)]
<1>5. it1 = [t \in SUBSET (1..n) |-> Step(it1, t)]
  <2> HIDE DEF Step
  <2> QED BY <1>4
<1>6. FoldLeft(Take, b, s) = it1[1..n]
  BY DEF FoldLeft, MapThenFoldSet
<1>a. PICK it : /\ it = [t \in SUBSET (1..n) |-> Step(it, t)]
                /\ FoldLeft(Take, b, s) = it[1..n]
  <2> HIDE DEF it1, Step
  <2> QED BY <1>5, <1>6
<1>7. \A t \in SUBSET (1..n) : it[t] = Step(it, t)
  <2> HIDE DEF Step
  <2> QED BY <1>a
<1>8. it[{}] = b
  BY <1>7
<1>9. ASSUME NEW k \in 1..n PROVE it[1..k] = Op(it[1..(k - 1)], k)
  <2>1. /\ 1..k \in SUBSET (1..n) /\ 1..k # {}
        /\ Max(1..k) = k /\ (1..k) \ {k} = 1..(k - 1)
    BY PrefixSets
  <2>2. it[1..k] = Step(it, 1..k)
    <3> HIDE DEF Step
    <3> QED BY <1>7, <2>1
  <2> HIDE DEF Op
  <2> QED BY <2>1, <2>2
<1>10. Grows(it, n, W, G)
  <2> HIDE DEF Op, G
  <2> QED BY <1>1, <1>9 DEF Grows
<1>11. PICK f \in [0..n -> W] : Follows(f, n, b, G, it[1..n])
  <2> HIDE DEF Op, G
  <2> QED BY <1>1, <1>8, <1>10, AlongPrefixes
<1>12. \A k \in 1..n : f[k] = Op(f[k - 1], k)
  <2>1. \A k \in 1..n : f[k - 1] \in W
    BY PrefixSets
  <2> HIDE DEF Op, G
  <2> QED BY <1>1, <1>11, <2>1 DEF Follows
<1> QED BY <1>a, <1>11, <1>12 DEF Follows, FoldsByTake

\* ... what the payments of a bill take in all ...
FoldsByIn(f, n, b, s) ==
    /\ f[0] = b
    /\ \A k \in 1..n : f[k] = f[k - 1] + s[k].in
    /\ FoldLeft(LAMBDA sum, p : sum + p.in, b, s) = f[n]

LEMMA FoldOfIn ==
    ASSUME NEW W, NEW b \in W, NEW n \in Nat, NEW s, DOMAIN s = 1..n,
           \A w \in W : \A i \in 1..n : w + s[i].in \in W
    PROVE  \E f \in [0..n -> W] : FoldsByIn(f, n, b, s)
<1> DEFINE Op(w, i) == w + s[i].in
           G == [x \in W \X (1..n) |-> Op(x[1], x[2])]
           Step(it, t) == IF t = {} THEN b ELSE Op(it[t \ {Max(t)}], Max(t))
<1>1. G \in [W \X (1..n) -> W] /\ \A w \in W : \A i \in 1..n : G[<<w, i>>] = Op(w, i)
  <2>1. \A w \in W : \A i \in 1..n : Op(w, i) \in W
    OBVIOUS
  <2> HIDE DEF Op
  <2> QED BY <2>1
<1>2. PICK it0 \in [SUBSET (1..n) -> W] : IsFold(it0, n, b, G)
  <2> HIDE DEF G, Step
  <2> QED BY <1>1, FoldExists
<1>3. ASSUME NEW t \in SUBSET (1..n) PROVE it0[t] = Step(it0, t)
  <2> HIDE DEF Op, G
  <2>1. it0[t] = IF t = {} THEN b ELSE G[<<it0[t \ {Max(t)}], Max(t)>>]
    BY <1>2 DEF IsFold
  <2>2. ASSUME t # {} PROVE it0[t \ {Max(t)}] \in W /\ Max(t) \in 1..n
    BY <2>2, MaxExists
  <2> QED BY <1>1, <2>1, <2>2
<1>4. it0 = [t \in SUBSET (1..n) |-> Step(it0, t)]
  <2>1. it0 = [t \in SUBSET (1..n) |-> it0[t]]
    OBVIOUS
  <2> HIDE DEF Step
  <2> QED BY <1>3, <2>1
<1> DEFINE it1 == CHOOSE z : z = [t \in SUBSET (1..n) |-> Step(z, t)]
<1>5. it1 = [t \in SUBSET (1..n) |-> Step(it1, t)]
  <2> HIDE DEF Step
  <2> QED BY <1>4
<1>6. FoldLeft(LAMBDA sum, p : sum + p.in, b, s) = it1[1..n]
  BY DEF FoldLeft, MapThenFoldSet
<1>a. PICK it : /\ it = [t \in SUBSET (1..n) |-> Step(it, t)]
                /\ FoldLeft(LAMBDA sum, p : sum + p.in, b, s) = it[1..n]
  <2> HIDE DEF it1, Step
  <2> QED BY <1>5, <1>6
<1>7. \A t \in SUBSET (1..n) : it[t] = Step(it, t)
  <2> HIDE DEF Step
  <2> QED BY <1>a
<1>8. it[{}] = b
  BY <1>7
<1>9. ASSUME NEW k \in 1..n PROVE it[1..k] = Op(it[1..(k - 1)], k)
  <2>1. /\ 1..k \in SUBSET (1..n) /\ 1..k # {}
        /\ Max(1..k) = k /\ (1..k) \ {k} = 1..(k - 1)
    BY PrefixSets
  <2>2. it[1..k] = Step(it, 1..k)
    <3> HIDE DEF Step
    <3> QED BY <1>7, <2>1
  <2> HIDE DEF Op
  <2> QED BY <2>1, <2>2
<1>10. Grows(it, n, W, G)
  <2> HIDE DEF Op, G
  <2> QED BY <1>1, <1>9 DEF Grows
<1>11. PICK f \in [0..n -> W] : Follows(f, n, b, G, it[1..n])
  <2> HIDE DEF Op, G
  <2> QED BY <1>1, <1>8, <1>10, AlongPrefixes
<1>12. \A k \in 1..n : f[k] = Op(f[k - 1], k)
  <2>1. \A k \in 1..n : f[k - 1] \in W
    BY PrefixSets
  <2> HIDE DEF Op, G
  <2> QED BY <1>1, <1>11, <2>1 DEF Follows
<1> QED BY <1>a, <1>11, <1>12 DEF Follows, FoldsByIn

\* ... what they pay out ...
FoldsByOut(f, n, b, s) ==
    /\ f[0] = b
    /\ \A k \in 1..n : f[k] = f[k - 1] + s[k].out
    /\ FoldLeft(LAMBDA sum, p : sum + p.out, b, s) = f[n]

LEMMA FoldOfOut ==
    ASSUME NEW W, NEW b \in W, NEW n \in Nat, NEW s, DOMAIN s = 1..n,
           \A w \in W : \A i \in 1..n : w + s[i].out \in W
    PROVE  \E f \in [0..n -> W] : FoldsByOut(f, n, b, s)
<1> DEFINE Op(w, i) == w + s[i].out
           G == [x \in W \X (1..n) |-> Op(x[1], x[2])]
           Step(it, t) == IF t = {} THEN b ELSE Op(it[t \ {Max(t)}], Max(t))
<1>1. G \in [W \X (1..n) -> W] /\ \A w \in W : \A i \in 1..n : G[<<w, i>>] = Op(w, i)
  <2>1. \A w \in W : \A i \in 1..n : Op(w, i) \in W
    OBVIOUS
  <2> HIDE DEF Op
  <2> QED BY <2>1
<1>2. PICK it0 \in [SUBSET (1..n) -> W] : IsFold(it0, n, b, G)
  <2> HIDE DEF G, Step
  <2> QED BY <1>1, FoldExists
<1>3. ASSUME NEW t \in SUBSET (1..n) PROVE it0[t] = Step(it0, t)
  <2> HIDE DEF Op, G
  <2>1. it0[t] = IF t = {} THEN b ELSE G[<<it0[t \ {Max(t)}], Max(t)>>]
    BY <1>2 DEF IsFold
  <2>2. ASSUME t # {} PROVE it0[t \ {Max(t)}] \in W /\ Max(t) \in 1..n
    BY <2>2, MaxExists
  <2> QED BY <1>1, <2>1, <2>2
<1>4. it0 = [t \in SUBSET (1..n) |-> Step(it0, t)]
  <2>1. it0 = [t \in SUBSET (1..n) |-> it0[t]]
    OBVIOUS
  <2> HIDE DEF Step
  <2> QED BY <1>3, <2>1
<1> DEFINE it1 == CHOOSE z : z = [t \in SUBSET (1..n) |-> Step(z, t)]
<1>5. it1 = [t \in SUBSET (1..n) |-> Step(it1, t)]
  <2> HIDE DEF Step
  <2> QED BY <1>4
<1>6. FoldLeft(LAMBDA sum, p : sum + p.out, b, s) = it1[1..n]
  BY DEF FoldLeft, MapThenFoldSet
<1>a. PICK it : /\ it = [t \in SUBSET (1..n) |-> Step(it, t)]
                /\ FoldLeft(LAMBDA sum, p : sum + p.out, b, s) = it[1..n]
  <2> HIDE DEF it1, Step
  <2> QED BY <1>5, <1>6
<1>7. \A t \in SUBSET (1..n) : it[t] = Step(it, t)
  <2> HIDE DEF Step
  <2> QED BY <1>a
<1>8. it[{}] = b
  BY <1>7
<1>9. ASSUME NEW k \in 1..n PROVE it[1..k] = Op(it[1..(k - 1)], k)
  <2>1. /\ 1..k \in SUBSET (1..n) /\ 1..k # {}
        /\ Max(1..k) = k /\ (1..k) \ {k} = 1..(k - 1)
    BY PrefixSets
  <2>2. it[1..k] = Step(it, 1..k)
    <3> HIDE DEF Step
    <3> QED BY <1>7, <2>1
  <2> HIDE DEF Op
  <2> QED BY <2>1, <2>2
<1>10. Grows(it, n, W, G)
  <2> HIDE DEF Op, G
  <2> QED BY <1>1, <1>9 DEF Grows
<1>11. PICK f \in [0..n -> W] : Follows(f, n, b, G, it[1..n])
  <2> HIDE DEF Op, G
  <2> QED BY <1>1, <1>8, <1>10, AlongPrefixes
<1>12. \A k \in 1..n : f[k] = Op(f[k - 1], k)
  <2>1. \A k \in 1..n : f[k - 1] \in W
    BY PrefixSets
  <2> HIDE DEF Op, G
  <2> QED BY <1>1, <1>11, <2>1 DEF Follows
<1> QED BY <1>a, <1>11, <1>12 DEF Follows, FoldsByOut

\* The step of the fold in WorstStranded.
Worse(worst, leg) ==
    LET share == [num |-> leg.left, den |-> leg.asked]
    IN  IF Less(worst, share) THEN share ELSE worst

\* ... and the worst share of a route that got stuck.
FoldsByWorse(f, n, b, s) ==
    /\ f[0] = b
    /\ \A k \in 1..n : f[k] = Worse(f[k - 1], s[k])
    /\ FoldLeft(Worse, b, s) = f[n]

LEMMA FoldOfWorse ==
    ASSUME NEW W, NEW b \in W, NEW n \in Nat, NEW s, DOMAIN s = 1..n,
           \A w \in W : \A i \in 1..n : Worse(w, s[i]) \in W
    PROVE  \E f \in [0..n -> W] : FoldsByWorse(f, n, b, s)
<1> DEFINE Op(w, i) == Worse(w, s[i])
           G == [x \in W \X (1..n) |-> Op(x[1], x[2])]
           Step(it, t) == IF t = {} THEN b ELSE Op(it[t \ {Max(t)}], Max(t))
<1>1. G \in [W \X (1..n) -> W] /\ \A w \in W : \A i \in 1..n : G[<<w, i>>] = Op(w, i)
  <2>1. \A w \in W : \A i \in 1..n : Op(w, i) \in W
    OBVIOUS
  <2> HIDE DEF Op
  <2> QED BY <2>1
<1>2. PICK it0 \in [SUBSET (1..n) -> W] : IsFold(it0, n, b, G)
  <2> HIDE DEF G, Step
  <2> QED BY <1>1, FoldExists
<1>3. ASSUME NEW t \in SUBSET (1..n) PROVE it0[t] = Step(it0, t)
  <2> HIDE DEF Op, G
  <2>1. it0[t] = IF t = {} THEN b ELSE G[<<it0[t \ {Max(t)}], Max(t)>>]
    BY <1>2 DEF IsFold
  <2>2. ASSUME t # {} PROVE it0[t \ {Max(t)}] \in W /\ Max(t) \in 1..n
    BY <2>2, MaxExists
  <2> QED BY <1>1, <2>1, <2>2
<1>4. it0 = [t \in SUBSET (1..n) |-> Step(it0, t)]
  <2>1. it0 = [t \in SUBSET (1..n) |-> it0[t]]
    OBVIOUS
  <2> HIDE DEF Step
  <2> QED BY <1>3, <2>1
<1> DEFINE it1 == CHOOSE z : z = [t \in SUBSET (1..n) |-> Step(z, t)]
<1>5. it1 = [t \in SUBSET (1..n) |-> Step(it1, t)]
  <2> HIDE DEF Step
  <2> QED BY <1>4
<1>6. FoldLeft(Worse, b, s) = it1[1..n]
  BY DEF FoldLeft, MapThenFoldSet
<1>a. PICK it : /\ it = [t \in SUBSET (1..n) |-> Step(it, t)]
                /\ FoldLeft(Worse, b, s) = it[1..n]
  <2> HIDE DEF it1, Step
  <2> QED BY <1>5, <1>6
<1>7. \A t \in SUBSET (1..n) : it[t] = Step(it, t)
  <2> HIDE DEF Step
  <2> QED BY <1>a
<1>8. it[{}] = b
  BY <1>7
<1>9. ASSUME NEW k \in 1..n PROVE it[1..k] = Op(it[1..(k - 1)], k)
  <2>1. /\ 1..k \in SUBSET (1..n) /\ 1..k # {}
        /\ Max(1..k) = k /\ (1..k) \ {k} = 1..(k - 1)
    BY PrefixSets
  <2>2. it[1..k] = Step(it, 1..k)
    <3> HIDE DEF Step
    <3> QED BY <1>7, <2>1
  <2> HIDE DEF Op
  <2> QED BY <2>1, <2>2
<1>10. Grows(it, n, W, G)
  <2> HIDE DEF Op, G
  <2> QED BY <1>1, <1>9 DEF Grows
<1>11. PICK f \in [0..n -> W] : Follows(f, n, b, G, it[1..n])
  <2> HIDE DEF Op, G
  <2> QED BY <1>1, <1>8, <1>10, AlongPrefixes
<1>12. \A k \in 1..n : f[k] = Op(f[k - 1], k)
  <2>1. \A k \in 1..n : f[k - 1] \in W
    BY PrefixSets
  <2> HIDE DEF Op, G
  <2> QED BY <1>1, <1>11, <2>1 DEF Follows
<1> QED BY <1>a, <1>11, <1>12 DEF Follows, FoldsByWorse

-----------------------------------------------------------------------------
(* Products, quotients and fractions of natural numbers.                   *)

LEMMA MulNats ==
    ASSUME NEW a \in Nat, NEW b \in Nat
    PROVE  a * b \in Nat /\ a * b = b * a
OBVIOUS

LEMMA MulMono ==
    ASSUME NEW a \in Nat, NEW b \in Nat, NEW c \in Nat, a <= b
    PROVE  a * c <= b * c
OBVIOUS

LEMMA MulCancel ==
    ASSUME NEW a \in Nat, NEW b \in Nat, NEW c \in Nat \ {0}, a * c <= b * c
    PROVE  a <= b
OBVIOUS

LEMMA MulSwap ==
    ASSUME NEW a \in Nat, NEW b \in Nat, NEW c \in Nat
    PROVE  (a * b) * c = (a * c) * b
OBVIOUS

\* A fraction is a/p with p positive; a/p <= b/q is written a * q <= b * p.
LEMMA FractionsLeq ==
    ASSUME NEW a \in Nat, NEW b \in Nat, NEW c \in Nat,
           NEW p \in Nat \ {0}, NEW q \in Nat \ {0}, NEW r \in Nat \ {0},
           a * q <= b * p, b * r <= c * q
    PROVE  a * r <= c * p
<1>1. /\ a * q \in Nat /\ b * p \in Nat /\ b * r \in Nat /\ c * q \in Nat
      /\ a * r \in Nat /\ c * p \in Nat
  BY MulNats
<1>2. (a * q) * r <= (b * p) * r
  BY <1>1, MulMono
<1>3. (b * r) * p <= (c * q) * p
  BY <1>1, MulMono
<1>4. /\ (a * q) * r = (a * r) * q /\ (b * p) * r = (b * r) * p
      /\ (c * q) * p = (c * p) * q
  BY MulSwap
<1>5. (a * r) * q <= (c * p) * q
  <2>1. (a * r) * q \in Nat /\ (b * r) * p \in Nat /\ (c * p) * q \in Nat
    BY <1>1, MulNats
  <2> QED BY <1>2, <1>3, <1>4, <2>1
<1> QED BY <1>1, <1>5, MulCancel

LEMMA FractionsLess ==
    ASSUME NEW a \in Nat, NEW b \in Nat, NEW c \in Nat,
           NEW p \in Nat \ {0}, NEW q \in Nat \ {0}, NEW r \in Nat \ {0}
    PROVE  /\ a * q < b * p /\ b * r <= c * q => a * r < c * p
           /\ a * q <= b * p /\ b * r < c * q => a * r < c * p
<1>1. /\ a * q \in Nat /\ b * p \in Nat /\ b * r \in Nat /\ c * q \in Nat
      /\ a * r \in Nat /\ c * p \in Nat
  BY MulNats
<1>2. b * r <= c * q /\ c * p <= a * r => b * p <= a * q
  BY FractionsLeq
<1>3. c * p <= a * r /\ a * q <= b * p => c * q <= b * r
  BY FractionsLeq
<1> QED BY <1>1, <1>2, <1>3

LEMMA Quotients ==
    ASSUME NEW a \in Nat, NEW b \in Nat \ {0}
    PROVE  /\ a \div b \in Nat
           /\ (a \div b) * b <= a
           /\ a < ((a \div b) + 1) * b
           /\ a < b <=> a \div b = 0
OBVIOUS

LEMMA QuotientsMono ==
    ASSUME NEW a \in Nat, NEW c \in Nat, NEW b \in Nat \ {0}, a <= c
    PROVE  a \div b <= c \div b
<1> DEFINE p == a \div b
           q == c \div b
<1>1. p \in Nat /\ q \in Nat /\ p * b <= a /\ c < (q + 1) * b
  BY Quotients
<1> HIDE DEF p, q
<1>2. p * b \in Nat /\ (q + 1) * b \in Nat
  BY <1>1, MulNats
<1>3. ASSUME q + 1 <= p PROVE FALSE
  <2>1. (q + 1) * b <= p * b
    BY <1>1, <1>3, MulMono
  <2> QED BY <1>1, <1>2, <2>1
<1> QED BY <1>1, <1>3 DEF p, q

-----------------------------------------------------------------------------
(* Strict orders on finite sets: there is a first, and a sorted sequence.  *)

IsOrder(R, T) ==
    /\ \A x \in T : <<x, x>> \notin R
    /\ \A x, y \in T : x # y => <<x, y>> \in R \/ <<y, x>> \in R
    /\ \A x, y, z \in T : <<x, y>> \in R /\ <<y, z>> \in R => <<x, z>> \in R

IsFirst(x, R, T) == x \in T /\ \A y \in T \ {x} : <<x, y>> \in R

InOrder(s, R) == \A i, j \in DOMAIN s : i < j => <<s[i], s[j]>> \in R

LEMMA OrderOfPart ==
    ASSUME NEW R, NEW T, NEW U, IsOrder(R, T), U \subseteq T
    PROVE  IsOrder(R, U)
<1>1. \A x \in U : x \in T
  OBVIOUS
<1> QED BY <1>1 DEF IsOrder

LEMMA FirstExists ==
    ASSUME NEW R, NEW T, IsOrder(R, T), IsFiniteSet(T), T # {}
    PROVE  \E x \in T : IsFirst(x, R, T)
<1> DEFINE Good(n) == \A U \in SUBSET T :
                          IsFiniteSet(U) /\ Cardinality(U) = n + 1 =>
                              \E x \in U : IsFirst(x, R, U)
           S == {n \in Nat : Good(n)}
<1>0. \A n : n \in S <=> n \in Nat /\ Good(n)
  <2> HIDE DEF Good
  <2> QED OBVIOUS
<1> HIDE DEF S
<1>1. Good(0)
  <2> SUFFICES ASSUME NEW U \in SUBSET T, IsFiniteSet(U), Cardinality(U) = 1
               PROVE  \E x \in U : IsFirst(x, R, U)
    OBVIOUS
  <2>1. PICK x : U = {x}
    BY FS_Singleton
  <2> QED BY <2>1 DEF IsFirst
<1>2. ASSUME NEW n \in Nat, Good(n) PROVE Good(n + 1)
  <2> SUFFICES ASSUME NEW U \in SUBSET T, IsFiniteSet(U), Cardinality(U) = (n + 1) + 1
               PROVE  \E x \in U : IsFirst(x, R, U)
    OBVIOUS
  <2>1. U # {}
    BY FS_EmptySet
  <2>2. PICK u \in U : TRUE
    BY <2>1
  <2>3. IsFiniteSet(U \ {u}) /\ Cardinality(U \ {u}) = n + 1 /\ U \ {u} \in SUBSET T
    BY <2>2, FS_RemoveElement
  <2>4. PICK x \in U \ {u} : IsFirst(x, R, U \ {u})
    BY <1>2, <2>3
  <2>5. x \in T /\ u \in T /\ x # u /\ x \in U
    BY <2>2, <2>4
  <2>6. CASE <<x, u>> \in R
    <3>1. IsFirst(x, R, U)
      BY <2>4, <2>5, <2>6 DEF IsFirst
    <3> QED BY <2>5, <3>1
  <2>7. CASE <<u, x>> \in R
    <3>1. ASSUME NEW y \in U \ {u} PROVE <<u, y>> \in R
      <4>1. y = x \/ <<x, y>> \in R
        BY <2>4 DEF IsFirst
      <4>2. y \in T
        OBVIOUS
      <4> QED BY <2>5, <2>7, <4>1, <4>2 DEF IsOrder
    <3>2. IsFirst(u, R, U)
      BY <2>2, <3>1 DEF IsFirst
    <3> QED BY <2>2, <3>2
  <2> QED BY <2>5, <2>6, <2>7 DEF IsOrder
<1>3. \A n \in Nat : Good(n)
  <2> HIDE DEF Good
  <2>1. \A n \in Nat : n \in S => n + 1 \in S
    BY <1>0, <1>2
  <2>2. 0 \in S
    BY <1>0, <1>1
  <2> QED BY <1>0, <2>1, <2>2, NatInduct
<1>4. Cardinality(T) \in Nat /\ Cardinality(T) # 0
  BY FS_CardinalityType, FS_EmptySet
<1>5. Good(Cardinality(T) - 1) /\ Cardinality(T) = (Cardinality(T) - 1) + 1
  <2> HIDE DEF Good
  <2> QED BY <1>3, <1>4
<1> QED BY <1>5

LEMMA SortedExists ==
    ASSUME NEW R, NEW T, IsOrder(R, T), IsFiniteSet(T)
    PROVE  \E s \in [1..Cardinality(T) -> T] : InOrder(s, R)
<1> DEFINE Good(n) == \A U \in SUBSET T :
                          IsFiniteSet(U) /\ Cardinality(U) = n =>
                              \E s \in [1..n -> U] : InOrder(s, R)
           S == {n \in Nat : Good(n)}
<1>0. \A n : n \in S <=> n \in Nat /\ Good(n)
  <2> HIDE DEF Good
  <2> QED OBVIOUS
<1> HIDE DEF S
<1>1. Good(0)
  <2> SUFFICES ASSUME NEW U \in SUBSET T PROVE \E s \in [1..0 -> U] : InOrder(s, R)
    OBVIOUS
  <2>1. [i \in 1..0 |-> R] \in [1..0 -> U] /\ InOrder([i \in 1..0 |-> R], R)
    BY DEF InOrder
  <2> QED BY <2>1
<1>2. ASSUME NEW n \in Nat, Good(n) PROVE Good(n + 1)
  <2> SUFFICES ASSUME NEW U \in SUBSET T, IsFiniteSet(U), Cardinality(U) = n + 1
               PROVE  \E s \in [1..(n + 1) -> U] : InOrder(s, R)
    OBVIOUS
  <2>1. U # {}
    BY FS_EmptySet
  <2>2. PICK x \in U : IsFirst(x, R, U)
    <3>1. IsOrder(R, U)
      BY OrderOfPart
    <3> QED BY <2>1, <3>1, FirstExists
  <2>3. IsFiniteSet(U \ {x}) /\ Cardinality(U \ {x}) = n /\ U \ {x} \in SUBSET T
    <3>1. IsFiniteSet(U \ {x}) /\ Cardinality(U \ {x}) = Cardinality(U) - 1
      BY FS_RemoveElement
    <3> QED BY <3>1
  <2>4. PICK s \in [1..n -> U \ {x}] : InOrder(s, R)
    BY <1>2, <2>3
  <2> DEFINE t == [i \in 1..(n + 1) |-> IF i = 1 THEN x ELSE s[i - 1]]
  <2>5. \A i \in 1..(n + 1) : i # 1 => i - 1 \in 1..n
    OBVIOUS
  <2>6. t \in [1..(n + 1) -> U]
    BY <2>5
  <2>7. ASSUME NEW i \in 1..(n + 1), NEW j \in 1..(n + 1), i < j
        PROVE  <<t[i], t[j]>> \in R
    <3>1. j # 1 /\ j - 1 \in 1..n /\ t[j] = s[j - 1] /\ s[j - 1] \in U \ {x}
      BY <2>5, <2>7
    <3>2. CASE i = 1
      BY <2>2, <3>1, <3>2 DEF IsFirst
    <3>3. CASE i # 1
      <4>1. i - 1 \in 1..n /\ t[i] = s[i - 1] /\ i - 1 < j - 1
        BY <2>5, <2>7, <3>3
      <4> HIDE DEF t
      <4> QED BY <2>4, <3>1, <4>1 DEF InOrder
    <3> QED BY <3>2, <3>3
  <2>8. InOrder(t, R)
    <3>1. DOMAIN t = 1..(n + 1)
      OBVIOUS
    <3> HIDE DEF t
    <3> QED BY <2>7, <3>1 DEF InOrder
  <2> HIDE DEF t
  <2> QED BY <2>6, <2>8
<1>3. \A n \in Nat : Good(n)
  <2> HIDE DEF Good
  <2>1. \A n \in Nat : n \in S => n + 1 \in S
    BY <1>0, <1>2
  <2>2. 0 \in S
    BY <1>0, <1>1
  <2> QED BY <1>0, <2>1, <2>2, NatInduct
<1>4. Cardinality(T) \in Nat
  BY FS_CardinalityType
<1>5. Good(Cardinality(T))
  <2> HIDE DEF Good
  <2> QED BY <1>3, <1>4
<1> QED BY <1>5

-----------------------------------------------------------------------------
(* The order a book is filled in.                                          *)

BeforeIn(levels) == {pair \in levels \X levels : Before(pair[1], pair[2])}

LEMMA BeforeIsAnOrder ==
    ASSUME NEW levels, IsBook(levels)
    PROVE  IsOrder(BeforeIn(levels), levels)
<1> DEFINE Rate(x, y) == x.num * y.den
<1>0. \A l \in levels : /\ l.num \in Nat \ {0} /\ l.den \in Nat \ {0} /\ l.stock \in Int
                        /\ l.trust \in Int /\ l.id \in Int
  BY DEF IsBook, Listings
<1>1. \A l, m \in levels : Rate(l, m) \in Int
  BY <1>0, MulNats
<1>2. \A l, m, k \in levels :
         /\ Rate(l, m) >= Rate(m, l) /\ Rate(m, k) >= Rate(k, m) => Rate(l, k) >= Rate(k, l)
         /\ Rate(l, m) > Rate(m, l) /\ Rate(m, k) >= Rate(k, m) => Rate(l, k) > Rate(k, l)
         /\ Rate(l, m) >= Rate(m, l) /\ Rate(m, k) > Rate(k, m) => Rate(l, k) > Rate(k, l)
  <2> SUFFICES ASSUME NEW l \in levels, NEW m \in levels, NEW k \in levels
               PROVE /\ Rate(l, m) >= Rate(m, l) /\ Rate(m, k) >= Rate(k, m) => Rate(l, k) >= Rate(k, l)
                     /\ Rate(l, m) > Rate(m, l) /\ Rate(m, k) >= Rate(k, m) => Rate(l, k) > Rate(k, l)
                     /\ Rate(l, m) >= Rate(m, l) /\ Rate(m, k) > Rate(k, m) => Rate(l, k) > Rate(k, l)
    OBVIOUS
  <2>1. /\ l.num \in Nat /\ m.num \in Nat /\ k.num \in Nat
        /\ l.den \in Nat \ {0} /\ m.den \in Nat \ {0} /\ k.den \in Nat \ {0}
    BY <1>0
  <2>2. Rate(k, m) <= Rate(m, k) /\ Rate(m, l) <= Rate(l, m) => Rate(k, l) <= Rate(l, k)
    BY <2>1, FractionsLeq
  <2>3. /\ Rate(k, m) < Rate(m, k) /\ Rate(m, l) <= Rate(l, m) => Rate(k, l) < Rate(l, k)
        /\ Rate(k, m) <= Rate(m, k) /\ Rate(m, l) < Rate(l, m) => Rate(k, l) < Rate(l, k)
    BY <2>1, FractionsLess
  <2> HIDE DEF Rate
  <2> QED BY <1>1, <2>2, <2>3
<1>3. \A l, m \in levels :
         <<l, m>> \in BeforeIn(levels) <=>
             \/ Rate(l, m) > Rate(m, l)
             \/ /\ Rate(l, m) = Rate(m, l)
                /\ \/ l.trust > m.trust
                   \/ l.trust = m.trust /\ l.stock > m.stock
                   \/ l.trust = m.trust /\ l.stock = m.stock /\ l.id < m.id
  BY DEF BeforeIn, Before
<1>4. \A l, m \in levels : l # m => l.id # m.id
  BY DEF IsBook
<1> HIDE DEF Rate
<1>5. \A l \in levels : <<l, l>> \notin BeforeIn(levels)
  BY <1>0, <1>1, <1>3
<1>6. \A l, m \in levels : l # m => <<l, m>> \in BeforeIn(levels) \/ <<m, l>> \in BeforeIn(levels)
  BY <1>0, <1>1, <1>3, <1>4
<1>7. ASSUME NEW l \in levels, NEW m \in levels, NEW k \in levels,
             <<l, m>> \in BeforeIn(levels), <<m, k>> \in BeforeIn(levels)
      PROVE  <<l, k>> \in BeforeIn(levels)
  <2>1. /\ Rate(l, m) \in Int /\ Rate(m, l) \in Int /\ Rate(m, k) \in Int /\ Rate(k, m) \in Int
        /\ Rate(l, k) \in Int /\ Rate(k, l) \in Int
    BY <1>1
  <2>2. Rate(l, m) >= Rate(m, l) /\ Rate(m, k) >= Rate(k, m)
    BY <1>3, <1>7, <2>1
  <2>3. CASE Rate(l, m) > Rate(m, l) \/ Rate(m, k) > Rate(k, m)
    <3>1. Rate(l, k) > Rate(k, l)
      BY <1>2, <2>1, <2>2, <2>3
    <3> QED BY <1>3, <3>1
  <2>4. CASE Rate(l, m) = Rate(m, l) /\ Rate(m, k) = Rate(k, m)
    <3>1. Rate(m, l) >= Rate(l, m) /\ Rate(k, m) >= Rate(m, k)
      BY <2>1, <2>4
    <3>2. Rate(l, k) = Rate(k, l)
      BY <1>2, <2>1, <2>2, <3>1
    <3>3. /\ \/ l.trust > m.trust
             \/ l.trust = m.trust /\ l.stock > m.stock
             \/ l.trust = m.trust /\ l.stock = m.stock /\ l.id < m.id
          /\ \/ m.trust > k.trust
             \/ m.trust = k.trust /\ m.stock > k.stock
             \/ m.trust = k.trust /\ m.stock = k.stock /\ m.id < k.id
      BY <1>3, <1>7, <2>1, <2>4
    <3>4. \/ l.trust > k.trust
          \/ l.trust = k.trust /\ l.stock > k.stock
          \/ l.trust = k.trust /\ l.stock = k.stock /\ l.id < k.id
      <4>1. /\ l.trust \in Int /\ m.trust \in Int /\ k.trust \in Int
            /\ l.stock \in Int /\ m.stock \in Int /\ k.stock \in Int
            /\ l.id \in Int /\ m.id \in Int /\ k.id \in Int
        BY <1>0
      <4> QED BY <3>3, <4>1
    <3> QED BY <1>3, <3>2, <3>4
  <2> QED BY <2>1, <2>2, <2>3, <2>4
<1> QED BY <1>5, <1>6, <1>7 DEF IsOrder

\* The levels of a book, sorted: each is met once, and the rates only fall.
LEMMA OrderedBook ==
    ASSUME NEW levels, IsBook(levels)
    PROVE  /\ Cardinality(levels) \in Nat
           /\ Ordered(levels) \in [1..Cardinality(levels) -> levels]
           /\ DOMAIN Ordered(levels) = 1..Cardinality(levels)
           /\ \A i \in 1..Cardinality(levels) : /\ Ordered(levels)[i] \in levels
                                                /\ Ordered(levels)[i] \in Listings
           /\ \A i, j \in 1..Cardinality(levels) : i < j =>
                 Before(Ordered(levels)[i], Ordered(levels)[j])
<1> DEFINE R == BeforeIn(levels)
           n == Cardinality(levels)
           Sorted(s) == \A i, j \in DOMAIN s : i < j => Before(s[i], s[j])
<1>0. IsFiniteSet(levels) /\ levels \subseteq Listings
  BY DEF IsBook
<1>1. PICK s \in [1..n -> levels] : InOrder(s, R)
  BY <1>0, BeforeIsAnOrder, SortedExists
<1>2. Sorted(s)
  <2> SUFFICES ASSUME NEW i \in DOMAIN s, NEW j \in DOMAIN s, i < j
               PROVE  Before(s[i], s[j])
    OBVIOUS
  <2>1. <<s[i], s[j]>> \in R
    BY <1>1 DEF InOrder
  <2> QED BY <2>1 DEF BeforeIn
<1>3. Ordered(levels) \in [1..n -> levels] /\ Sorted(Ordered(levels))
  <2>1. Ordered(levels) = CHOOSE z \in [1..n -> levels] : Sorted(z)
    BY DEF Ordered
  <2> HIDE DEF Sorted
  <2> QED BY <1>1, <1>2, <2>1
<1>4. n \in Nat
  BY <1>0, FS_CardinalityType
<1>5. DOMAIN Ordered(levels) = 1..n
  BY <1>3
<1> HIDE DEF n
<1>6. \A i \in 1..n : Ordered(levels)[i] \in levels
  BY <1>3
<1> QED BY <1>0, <1>3, <1>4, <1>5, <1>6 DEF n

LEMMA BeforeFalls ==
    ASSUME NEW l \in Listings, NEW m \in Listings, Before(l, m)
    PROVE  m.num * l.den <= l.num * m.den /\ l # m
<1>1. /\ l.num * m.den \in Nat /\ m.num * l.den \in Nat
      /\ l.trust \in Int /\ l.stock \in Int /\ l.id \in Int
  BY MulNats DEF Listings
<1> QED BY <1>1 DEF Before

-----------------------------------------------------------------------------
(* One level of the walk.                                                  *)

\* The capacity of a level is the largest order within the boundary its
\* stock draws, and an order of that size pays out no more than the stock:
\* the claim of the test of depth.rs 1036, for every rate and stock.
THEOREM CapacityIsTheStockBoundary ==
    ASSUME NEW l \in Listings
    PROVE  /\ Capacity(l) \in Nat
           /\ Capacity(l) * l.num <= l.stock * l.den
           /\ l.stock * l.den < (Capacity(l) + 1) * l.num
           /\ FloorScaled(Capacity(l), l) <= l.stock
<1> DEFINE c == Capacity(l)
<1>0. l.num \in Nat \ {0} /\ l.den \in Nat \ {0} /\ l.stock \in Nat
  BY DEF Listings
<1>1. l.stock * l.den \in Nat
  BY <1>0, MulNats
<1>2. /\ c \in Nat
      /\ c * l.num <= l.stock * l.den
      /\ l.stock * l.den < (c + 1) * l.num
  BY <1>0, <1>1, Quotients DEF Capacity
<1> HIDE DEF c
<1>3. c * l.num \in Nat
  BY <1>0, <1>2, MulNats
<1>4. (c * l.num) \div l.den <= (l.stock * l.den) \div l.den
  BY <1>0, <1>1, <1>2, <1>3, QuotientsMono
<1>5. (l.stock * l.den) \div l.den = l.stock
  BY <1>0
<1>6. FloorScaled(c, l) <= l.stock
  BY <1>4, <1>5 DEF FloorScaled
<1> QED BY <1>2, <1>6 DEF c

\* An order that grows buys no less at one level.
THEOREM OneLevelIsMonotone ==
    ASSUME NEW l \in Listings, NEW n \in Nat, NEW m \in Nat, n <= m
    PROVE  FloorScaled(n, l) <= FloorScaled(m, l)
<1>1. l.num \in Nat \ {0} /\ l.den \in Nat \ {0}
  BY DEF Listings
<1>2. n * l.num \in Nat /\ m * l.num \in Nat /\ n * l.num <= m * l.num
  BY <1>1, MulNats, MulMono
<1> QED BY <1>1, <1>2, QuotientsMono DEF FloorScaled

Payment == [level : Listings, in : Nat, out : Nat]

Walk == [asked : Nat, left : Nat, used : Nat, out : Nat, fills : Seq(Payment)]

\* What Take spends on a level, and what it gets for it.
Use(walk, l) == IF walk.left < Capacity(l) THEN walk.left ELSE Capacity(l)

Got(walk, l) == FloorScaled(Use(walk, l), l)

LEMMA WhatTakeDoes ==
    ASSUME NEW walk \in Walk, NEW l \in Listings
    PROVE  LET use == Use(walk, l)
               got == Got(walk, l)
               pay == [level |-> l, in |-> use, out |-> got]
           IN  /\ use \in Nat /\ got \in Nat /\ use <= walk.left
               /\ got * l.den <= use * l.num
               /\ got <= l.stock
               /\ pay \in Payment
               /\ Take(walk, l) \in Walk
               /\ use = 0 \/ got = 0 => Take(walk, l) = walk
               /\ use # 0 /\ got # 0 => 
                     Take(walk, l) = [asked |-> walk.asked,
                                      left  |-> walk.left - use,
                                      used  |-> walk.used + use,
                                      out   |-> walk.out + got,
                                      fills |-> Append(walk.fills, pay)]
<1> DEFINE use == Use(walk, l)
           got == Got(walk, l)
           pay == [level |-> l, in |-> use, out |-> got]
           after == [asked |-> walk.asked,
                     left  |-> walk.left - use,
                     used  |-> walk.used + use,
                     out   |-> walk.out + got,
                     fills |-> Append(walk.fills, pay)]
<1>0. l.num \in Nat \ {0} /\ l.den \in Nat \ {0} /\ l.stock \in Nat
  BY DEF Listings
<1>1. Capacity(l) \in Nat /\ FloorScaled(Capacity(l), l) <= l.stock
  BY CapacityIsTheStockBoundary
<1>2. /\ walk.left \in Nat /\ walk.asked \in Nat /\ walk.used \in Nat /\ walk.out \in Nat
      /\ walk.fills \in Seq(Payment)
  BY DEF Walk
<1>3. use \in Nat /\ use <= Capacity(l) /\ use <= walk.left
  BY <1>1, <1>2 DEF Use
<1>4. use * l.num \in Nat
  BY <1>0, <1>3, MulNats
<1>5. got \in Nat /\ got * l.den <= use * l.num
  BY <1>0, <1>4, Quotients DEF Got, FloorScaled
<1>6. got <= l.stock
  <2>1. got <= FloorScaled(Capacity(l), l)
    BY <1>1, <1>3, OneLevelIsMonotone DEF Got
  <2>2. FloorScaled(Capacity(l), l) \in Nat
    <3>1. Capacity(l) * l.num \in Nat
      BY <1>0, <1>1, MulNats
    <3> QED BY <1>0, <3>1, Quotients DEF FloorScaled
  <2> QED BY <1>0, <1>1, <1>5, <2>1, <2>2
<1>7. Take(walk, l) = IF use = 0 \/ got = 0 THEN walk ELSE after
  BY DEF Take, Use, Got
<1> HIDE DEF use, got
<1>8. pay \in Payment
  BY <1>3, <1>5 DEF Payment
<1>9. after \in Walk
  <2>1. walk.left - use \in Nat /\ walk.used + use \in Nat /\ walk.out + got \in Nat
    BY <1>2, <1>3, <1>5
  <2>2. Append(walk.fills, pay) \in Seq(Payment)
    BY <1>2, <1>8
  <2> QED BY <1>2, <2>1, <2>2 DEF Walk
<1> QED BY <1>3, <1>5, <1>6, <1>7, <1>8, <1>9 DEF use, got

\* The same, for what the comparison of two walks needs.
LEMMA WhatTakeLeaves ==
    ASSUME NEW walk \in Walk, NEW l \in Listings
    PROVE  /\ Use(walk, l) \in Nat /\ Got(walk, l) \in Nat /\ Use(walk, l) <= walk.left
           /\ Use(walk, l) = 0 \/ Got(walk, l) = 0 => Take(walk, l) = walk
           /\ Use(walk, l) # 0 /\ Got(walk, l) # 0 =>
                 /\ Take(walk, l).left = walk.left - Use(walk, l)
                 /\ Take(walk, l).out = walk.out + Got(walk, l)
<1> DEFINE pay == [level |-> l, in |-> Use(walk, l), out |-> Got(walk, l)]
<1>1. /\ Use(walk, l) \in Nat /\ Got(walk, l) \in Nat /\ Use(walk, l) <= walk.left
      /\ Use(walk, l) = 0 \/ Got(walk, l) = 0 => Take(walk, l) = walk
      /\ Use(walk, l) # 0 /\ Got(walk, l) # 0 =>
            Take(walk, l) = [asked |-> walk.asked,
                             left  |-> walk.left - Use(walk, l),
                             used  |-> walk.used + Use(walk, l),
                             out   |-> walk.out + Got(walk, l),
                             fills |-> Append(walk.fills, pay)]
  BY WhatTakeDoes
<1> HIDE DEF pay
<1> QED BY <1>1

\* No level pays out more than it holds, nor better than its rate.
Honest(f) ==
    /\ f.out <= f.level.stock
    /\ f.out * f.level.den <= f.in * f.level.num

\* What a walk has spent and what is left is what it was asked, and every
\* payment in it is honest.
Balanced(walk) ==
    /\ walk \in Walk
    /\ walk.used + walk.left = walk.asked
    /\ \A k \in DOMAIN walk.fills : Honest(walk.fills[k])

\* One level of the walk keeps the bill balanced and honest, whatever it is
\* handed and whatever the level holds.
THEOREM TakeKeepsTheBill ==
    ASSUME NEW walk, Balanced(walk), NEW l \in Listings
    PROVE  Balanced(Take(walk, l))
<1> DEFINE use == Use(walk, l)
           got == Got(walk, l)
           pay == [level |-> l, in |-> use, out |-> got]
           next == Take(walk, l)
<1>0. /\ walk \in Walk /\ walk.used + walk.left = walk.asked
      /\ \A k \in DOMAIN walk.fills : Honest(walk.fills[k])
  BY DEF Balanced
<1>1. /\ use \in Nat /\ got \in Nat /\ use <= walk.left
      /\ got * l.den <= use * l.num /\ got <= l.stock /\ pay \in Payment
      /\ next \in Walk
      /\ use = 0 \/ got = 0 => next = walk
      /\ use # 0 /\ got # 0 =>
            next = [asked |-> walk.asked,
                    left  |-> walk.left - use,
                    used  |-> walk.used + use,
                    out   |-> walk.out + got,
                    fills |-> Append(walk.fills, pay)]
  BY <1>0, WhatTakeDoes
<1>2. Honest(pay)
  BY <1>1 DEF Honest
<1> HIDE DEF use, got, pay, next
<1>3. CASE use = 0 \/ got = 0
  BY <1>0, <1>1, <1>3 DEF Balanced, next
<1>4. CASE use # 0 /\ got # 0
  <2>1. next.used + next.left = next.asked
    BY <1>0, <1>1, <1>4 DEF Walk
  <2>2. walk.fills \in Seq(Payment) /\ next.fills = Append(walk.fills, pay)
    BY <1>0, <1>1, <1>4 DEF Walk
  <2>3. \A k \in DOMAIN next.fills :
           \/ k \in DOMAIN walk.fills /\ next.fills[k] = walk.fills[k]
           \/ next.fills[k] = pay
    BY <1>1, <2>2
  <2> QED BY <1>0, <1>1, <1>2, <2>1, <2>3 DEF Balanced, next
<1> QED BY <1>3, <1>4

-----------------------------------------------------------------------------
(* The whole walk: the bill of an order.                                   *)

SumIn(s)  == FoldLeft(LAMBDA sum, p : sum + p.in, 0, s)
SumOut(s) == FoldLeft(LAMBDA sum, p : sum + p.out, 0, s)

LEMMA SumOfIns ==
    ASSUME NEW s \in Seq(Payment)
    PROVE  /\ SumIn(s) \in Nat
           /\ s = <<>> => SumIn(s) = 0
           /\ \A x \in Payment : SumIn(Append(s, x)) = SumIn(s) + x.in
<1> DEFINE n == Len(s)
<1>1. n \in Nat /\ DOMAIN s = 1..n /\ \A i \in 1..n : s[i].in \in Nat
  <2>1. n \in Nat /\ DOMAIN s = 1..n /\ \A i \in 1..n : s[i] \in Payment
    OBVIOUS
  <2> QED BY <2>1 DEF Payment
<1>2. \A w \in Nat : \A i \in 1..n : w + s[i].in \in Nat
  BY <1>1
<1>3. PICK f \in [0..n -> Nat] : FoldsByIn(f, n, 0, s)
  <2> HIDE DEF n
  <2>1. 0 \in Nat
    OBVIOUS
  <2> QED BY <1>1, <1>2, <2>1, FoldOfIn
<1>b. /\ f[0] = 0
      /\ \A k \in 1..n : f[k] = f[k - 1] + s[k].in
      /\ FoldLeft(LAMBDA sum, p : sum + p.in, 0, s) = f[n]
  BY <1>3 DEF FoldsByIn
<1>4. SumIn(s) = f[n] /\ n \in 0..n
  <2>1. SumIn(s) = f[n]
    BY <1>b DEF SumIn
  <2>2. n \in 0..n
    BY <1>1
  <2> QED BY <2>1, <2>2
<1>5. s = <<>> => SumIn(s) = 0
  BY <1>b, <1>4
<1>6. ASSUME NEW x \in Payment PROVE SumIn(Append(s, x)) = SumIn(s) + x.in
  <2> DEFINE t == Append(s, x)
             m == n + 1
  <2>1. /\ m \in Nat /\ DOMAIN t = 1..m /\ t[m] = x
        /\ \A i \in 1..n : t[i] = s[i]
        /\ \A i \in 1..m : t[i].in \in Nat
    <3>1. /\ m \in Nat /\ DOMAIN t = 1..m /\ t[m] = x
          /\ \A i \in 1..n : t[i] = s[i]
      BY <1>1
    <3>2. \A i \in 1..m : i = m \/ i \in 1..n
      BY <1>1
    <3>3. x.in \in Nat
      BY DEF Payment
    <3> HIDE DEF t, m
    <3> QED BY <1>1, <3>1, <3>2, <3>3
  <2> HIDE DEF t, m
  <2>2. \A w \in Nat : \A i \in 1..m : w + t[i].in \in Nat
    BY <2>1
  <2>3. PICK g \in [0..m -> Nat] : FoldsByIn(g, m, 0, t)
    <3>1. 0 \in Nat
      OBVIOUS
    <3> QED BY <2>1, <2>2, <3>1, FoldOfIn
  <2>c. /\ g[0] = 0
        /\ \A k \in 1..m : g[k] = g[k - 1] + t[k].in
        /\ FoldLeft(LAMBDA sum, p : sum + p.in, 0, t) = g[m]
    BY <2>3 DEF FoldsByIn
  <2> DEFINE S == {k \in Nat : k \in 0..n => g[k] = f[k]}
  <2>4. 0 \in S
    BY <1>b, <2>c
  <2>5. ASSUME NEW k \in Nat, k \in S PROVE k + 1 \in S
    <3> SUFFICES ASSUME k + 1 \in 0..n PROVE g[k + 1] = f[k + 1]
      OBVIOUS
    <3>1. k + 1 \in 1..n /\ k + 1 \in 1..m /\ (k + 1) - 1 = k /\ g[k] = f[k]
      BY <1>1, <2>5 DEF m
    <3> QED BY <1>b, <2>1, <2>c, <3>1, ZenonT(40)
  <2>6. \A k \in Nat : k \in S
    <3> HIDE DEF S
    <3> QED BY <2>4, <2>5, NatInduct
  <2>7. g[n] = f[n]
    BY <1>1, <2>6
  <2>d. m \in 1..m /\ m - 1 = n
    BY <1>1 DEF m
  <2>8. g[m] = g[n] + t[m].in
    BY <1>1, <2>c, <2>d
  <2>9. SumIn(t) = g[m]
    BY <2>c DEF SumIn
  <2> QED BY <1>4, <2>1, <2>7, <2>8, <2>9 DEF t
<1>7. SumIn(s) \in Nat
  BY <1>4
<1> QED BY <1>5, <1>6, <1>7

LEMMA SumOfOuts ==
    ASSUME NEW s \in Seq(Payment)
    PROVE  /\ SumOut(s) \in Nat
           /\ s = <<>> => SumOut(s) = 0
           /\ \A x \in Payment : SumOut(Append(s, x)) = SumOut(s) + x.out
<1> DEFINE n == Len(s)
<1>1. n \in Nat /\ DOMAIN s = 1..n /\ \A i \in 1..n : s[i].out \in Nat
  <2>1. n \in Nat /\ DOMAIN s = 1..n /\ \A i \in 1..n : s[i] \in Payment
    OBVIOUS
  <2> QED BY <2>1 DEF Payment
<1>2. \A w \in Nat : \A i \in 1..n : w + s[i].out \in Nat
  BY <1>1
<1>3. PICK f \in [0..n -> Nat] : FoldsByOut(f, n, 0, s)
  <2> HIDE DEF n
  <2>1. 0 \in Nat
    OBVIOUS
  <2> QED BY <1>1, <1>2, <2>1, FoldOfOut
<1>b. /\ f[0] = 0
      /\ \A k \in 1..n : f[k] = f[k - 1] + s[k].out
      /\ FoldLeft(LAMBDA sum, p : sum + p.out, 0, s) = f[n]
  BY <1>3 DEF FoldsByOut
<1>4. SumOut(s) = f[n] /\ n \in 0..n
  <2>1. SumOut(s) = f[n]
    BY <1>b DEF SumOut
  <2>2. n \in 0..n
    BY <1>1
  <2> QED BY <2>1, <2>2
<1>5. s = <<>> => SumOut(s) = 0
  BY <1>b, <1>4
<1>6. ASSUME NEW x \in Payment PROVE SumOut(Append(s, x)) = SumOut(s) + x.out
  <2> DEFINE t == Append(s, x)
             m == n + 1
  <2>1. /\ m \in Nat /\ DOMAIN t = 1..m /\ t[m] = x
        /\ \A i \in 1..n : t[i] = s[i]
        /\ \A i \in 1..m : t[i].out \in Nat
    <3>1. /\ m \in Nat /\ DOMAIN t = 1..m /\ t[m] = x
          /\ \A i \in 1..n : t[i] = s[i]
      BY <1>1
    <3>2. \A i \in 1..m : i = m \/ i \in 1..n
      BY <1>1
    <3>3. x.out \in Nat
      BY DEF Payment
    <3> HIDE DEF t, m
    <3> QED BY <1>1, <3>1, <3>2, <3>3
  <2> HIDE DEF t, m
  <2>2. \A w \in Nat : \A i \in 1..m : w + t[i].out \in Nat
    BY <2>1
  <2>3. PICK g \in [0..m -> Nat] : FoldsByOut(g, m, 0, t)
    <3>1. 0 \in Nat
      OBVIOUS
    <3> QED BY <2>1, <2>2, <3>1, FoldOfOut
  <2>c. /\ g[0] = 0
        /\ \A k \in 1..m : g[k] = g[k - 1] + t[k].out
        /\ FoldLeft(LAMBDA sum, p : sum + p.out, 0, t) = g[m]
    BY <2>3 DEF FoldsByOut
  <2> DEFINE S == {k \in Nat : k \in 0..n => g[k] = f[k]}
  <2>4. 0 \in S
    BY <1>b, <2>c
  <2>5. ASSUME NEW k \in Nat, k \in S PROVE k + 1 \in S
    <3> SUFFICES ASSUME k + 1 \in 0..n PROVE g[k + 1] = f[k + 1]
      OBVIOUS
    <3>1. k + 1 \in 1..n /\ k + 1 \in 1..m /\ (k + 1) - 1 = k /\ g[k] = f[k]
      BY <1>1, <2>5 DEF m
    <3> QED BY <1>b, <2>1, <2>c, <3>1, ZenonT(40)
  <2>6. \A k \in Nat : k \in S
    <3> HIDE DEF S
    <3> QED BY <2>4, <2>5, NatInduct
  <2>7. g[n] = f[n]
    BY <1>1, <2>6
  <2>d. m \in 1..m /\ m - 1 = n
    BY <1>1 DEF m
  <2>8. g[m] = g[n] + t[m].out
    BY <1>1, <2>c, <2>d
  <2>9. SumOut(t) = g[m]
    BY <2>c DEF SumOut
  <2> QED BY <1>4, <2>1, <2>7, <2>8, <2>9 DEF t
<1>7. SumOut(s) \in Nat
  BY <1>4
<1> QED BY <1>5, <1>6, <1>7

\* The walk over the first levels of a sorted book.
IsWalk(f, levels, n) ==
    /\ f \in [0..Cardinality(levels) -> Walk]
    /\ f[0] = Unfilled(n)
    /\ \A k \in 1..Cardinality(levels) : f[k] = Take(f[k - 1], Ordered(levels)[k])
    /\ FillTaker(levels, n) = f[Cardinality(levels)]

LEMMA WalkExists ==
    ASSUME NEW levels, IsBook(levels), NEW n \in Nat
    PROVE  \E f : IsWalk(f, levels, n)
<1> DEFINE m == Cardinality(levels)
           s == Ordered(levels)
<1>1. m \in Nat /\ DOMAIN s = 1..m /\ \A i \in 1..m : s[i] \in Listings
  BY OrderedBook
<1>2. Unfilled(n) \in Walk
  BY DEF Unfilled, Walk
<1> HIDE DEF m, s
<1>3. \A w \in Walk : \A i \in 1..m : Take(w, s[i]) \in Walk
  BY <1>1, WhatTakeDoes
<1>4. PICK f \in [0..m -> Walk] : FoldsByTake(f, m, Unfilled(n), s)
  BY <1>1, <1>2, <1>3, FoldOfTake
<1> QED BY <1>4 DEF IsWalk, FillTaker, FoldsByTake, m, s

\* The bill of an order of n units: what it spends and what it leaves is what
\* it was handed, no level pays out more than it holds or better than its
\* rate, and none is taken twice.
IsBill(leg, n) ==
    /\ Balanced(leg)
    /\ leg.asked = n
    /\ leg.used = SumIn(leg.fills)
    /\ leg.out = SumOut(leg.fills)
    /\ leg.used = 0 => leg.out = 0
    /\ \A i, j \in DOMAIN leg.fills : i # j => leg.fills[i].level # leg.fills[j].level

\* An order is filled by an honest bill, whatever the book holds.
THEOREM FillAddsUp ==
    ASSUME NEW levels, IsBook(levels), NEW n \in Nat
    PROVE  FillTaker(levels, n) \in Walk /\ IsBill(FillTaker(levels, n), n)
<1> DEFINE m == Cardinality(levels)
           s == Ordered(levels)
<1>1. /\ m \in Nat
      /\ \A i \in 1..m : s[i] \in Listings
      /\ \A i, j \in 1..m : i < j => Before(s[i], s[j])
  BY OrderedBook
<1>2. PICK f : IsWalk(f, levels, n)
  BY WalkExists
<1>3. /\ f \in [0..m -> Walk] /\ f[0] = Unfilled(n)
      /\ \A k \in 1..m : f[k] = Take(f[k - 1], s[k])
      /\ FillTaker(levels, n) = f[m]
  BY <1>2 DEF IsWalk
<1> HIDE DEF m, s
<1> DEFINE Met(k) == \A j \in DOMAIN f[k].fills : \E i \in 1..k : f[k].fills[j].level = s[i]
           S == {k \in Nat : k \in 0..m => IsBill(f[k], n) /\ Met(k)}
<1>4. 0 \in S
  <2>1. f[0].fills = <<>> /\ <<>> \in Seq(Payment) /\ DOMAIN f[0].fills = {}
    BY <1>3 DEF Unfilled
  <2>2. SumIn(<<>>) = 0 /\ SumOut(<<>>) = 0
    BY <2>1, SumOfIns, SumOfOuts
  <2>3. f[0] \in Walk
    BY <1>1, <1>3
  <2>4. IsBill(f[0], n)
    BY <1>3, <2>1, <2>2, <2>3 DEF IsBill, Balanced, Unfilled
  <2> QED BY <2>1, <2>4
<1>5. ASSUME NEW k \in Nat, k \in S PROVE k + 1 \in S
  <2> SUFFICES ASSUME k + 1 \in 0..m PROVE IsBill(f[k + 1], n) /\ Met(k + 1)
    OBVIOUS
  <2> DEFINE walk == f[k]
             l == s[k + 1]
             use == Use(walk, l)
             got == Got(walk, l)
             pay == [level |-> l, in |-> use, out |-> got]
             next == Take(walk, l)
  <2>1. k \in 0..m /\ k + 1 \in 1..m /\ (k + 1) - 1 = k
    BY <1>1
  <2>2. walk \in Walk /\ IsBill(walk, n) /\ Met(k) /\ l \in Listings /\ f[k + 1] = next
    BY <1>1, <1>3, <1>5, <2>1
  <2>3. /\ use \in Nat /\ got \in Nat /\ pay \in Payment
        /\ use = 0 \/ got = 0 => next = walk
        /\ use # 0 /\ got # 0 =>
              next = [asked |-> walk.asked,
                      left  |-> walk.left - use,
                      used  |-> walk.used + use,
                      out   |-> walk.out + got,
                      fills |-> Append(walk.fills, pay)]
    BY <2>2, WhatTakeDoes
  <2>4. Balanced(next)
    BY <2>2, TakeKeepsTheBill DEF IsBill
  <2>5. pay.level = l /\ pay.in = use /\ pay.out = got
    OBVIOUS
  <2>6. \A j \in DOMAIN walk.fills : walk.fills[j].level # l
    <3> SUFFICES ASSUME NEW j \in DOMAIN walk.fills, walk.fills[j].level = l PROVE FALSE
      OBVIOUS
    <3>1. PICK i \in 1..k : walk.fills[j].level = s[i]
      BY <2>2
    <3>2. i \in 1..m /\ i < k + 1
      BY <2>1, <1>1
    <3>3. Before(s[i], l) /\ s[i] \in Listings
      BY <1>1, <2>1, <3>2
    <3> QED BY <2>2, <3>1, <3>3, BeforeFalls
  <2> HIDE DEF use, got, pay, next
  <2>7. CASE use = 0 \/ got = 0
    <3>1. f[k + 1] = f[k]
      BY <2>2, <2>3, <2>7
    <3>2. \A i \in 1..k : i \in 1..(k + 1)
      OBVIOUS
    <3> QED BY <2>2, <3>1, <3>2
  <2>8. CASE use # 0 /\ got # 0
    <3>1. /\ next.asked = walk.asked /\ next.used = walk.used + use
          /\ next.out = walk.out + got /\ next.fills = Append(walk.fills, pay)
      BY <2>3, <2>8
    <3>2. walk.fills \in Seq(Payment) /\ walk.used \in Nat /\ walk.out \in Nat
      BY <2>2 DEF Walk
    <3>3. SumIn(next.fills) = next.used /\ SumOut(next.fills) = next.out
      BY <2>2, <2>3, <2>5, <3>1, <3>2, SumOfIns, SumOfOuts DEF IsBill
    <3>4. next.used # 0
      BY <2>3, <2>8, <3>1, <3>2
    <3>5. /\ DOMAIN walk.fills = 1..Len(walk.fills) /\ Len(walk.fills) \in Nat
          /\ DOMAIN next.fills = 1..(Len(walk.fills) + 1)
          /\ next.fills[Len(walk.fills) + 1] = pay
          /\ \A j \in 1..Len(walk.fills) : next.fills[j] = walk.fills[j]
      BY <2>3, <3>1, <3>2, SMTT(30)
    <3>6. \A i, j \in DOMAIN next.fills : i # j => next.fills[i].level # next.fills[j].level
      <4> SUFFICES ASSUME NEW i \in DOMAIN next.fills, NEW j \in DOMAIN next.fills, i # j
                   PROVE  next.fills[i].level # next.fills[j].level
        OBVIOUS
      <4>1. /\ i \in DOMAIN walk.fills \/ i = Len(walk.fills) + 1
            /\ j \in DOMAIN walk.fills \/ j = Len(walk.fills) + 1
        BY <3>5
      <4> QED BY <2>2, <2>5, <2>6, <3>5, <4>1, ZenonT(40) DEF IsBill
    <3>7. IsBill(next, n)
      BY <2>2, <2>4, <3>1, <3>3, <3>4, <3>6 DEF IsBill
    <3>8. Met(k + 1)
      <4> SUFFICES ASSUME NEW j \in DOMAIN f[k + 1].fills
                   PROVE  \E i \in 1..(k + 1) : f[k + 1].fills[j].level = s[i]
        OBVIOUS
      <4>1. CASE j \in DOMAIN walk.fills
        <5>1. PICK i \in 1..k : walk.fills[j].level = s[i]
          BY <2>2, <4>1
        <5>2. i \in 1..(k + 1)
          OBVIOUS
        <5> QED BY <2>2, <3>5, <4>1, <5>1, <5>2
      <4>2. CASE j = Len(walk.fills) + 1
        <5>1. k + 1 \in 1..(k + 1)
          OBVIOUS
        <5> QED BY <2>2, <2>5, <3>5, <4>2, <5>1
      <4> QED BY <2>2, <3>5, <4>1, <4>2, SMTT(30)
    <3> QED BY <2>2, <3>7, <3>8
  <2> QED BY <2>7, <2>8
<1>6. m \in S
  <2> HIDE DEF S
  <2> QED BY <1>1, <1>4, <1>5, NatInduct
<1>7. IsBill(f[m], n) /\ f[m] \in Walk
  BY <1>1, <1>3, <1>6
<1> QED BY <1>3, <1>7

-----------------------------------------------------------------------------
(* Two orders, the second a unit greater, walk the same book together until *)
(* a level buys something for the extra unit; from there on the smaller one *)
(* can buy nothing any more, for the rates only fall.                       *)

\* An order too small for a level's rate is too small for the levels behind.
LEMMA TooSmallBehind ==
    ASSUME NEW l \in Listings, NEW k \in Listings, k.num * l.den <= l.num * k.den,
           NEW left \in Nat, left * l.num < l.den
    PROVE  left * k.num < k.den
<1>1. /\ l.num \in Nat \ {0} /\ l.den \in Nat \ {0} /\ k.num \in Nat \ {0} /\ k.den \in Nat \ {0}
      /\ 1 \in Nat \ {0} /\ l.den \in Nat /\ k.den \in Nat
  BY DEF Listings
<1>2. left * l.num < l.den * 1
  BY <1>1
<1>3. l.den * k.num <= k.den * l.num
  <2>1. l.den * k.num = k.num * l.den /\ k.den * l.num = l.num * k.den
    BY <1>1, MulNats
  <2> QED BY <2>1
<1>4. left * k.num < k.den * 1
  BY <1>1, <1>2, <1>3, FractionsLess
<1> QED BY <1>1, <1>4

LEMMA FloorIsZero ==
    ASSUME NEW l \in Listings, NEW n \in Nat
    PROVE  /\ FloorScaled(n, l) \in Nat
           /\ FloorScaled(n, l) = 0 <=> n * l.num < l.den
           /\ FloorScaled(0, l) = 0
<1>1. l.num \in Nat \ {0} /\ l.den \in Nat \ {0}
  BY DEF Listings
<1>2. n * l.num \in Nat /\ 0 * l.num = 0
  BY <1>1, MulNats
<1> QED BY <1>1, <1>2, Quotients DEF FloorScaled

\* Whether the extra unit is still unspent, or the smaller order is done.
Together(f, g) == g.left = f.left + 1 /\ g.out = f.out

Behind(f, g, levels) ==
    f.out <= g.out /\ \A l \in levels : f.left * l.num < l.den

LEMMA StepTogether ==
    ASSUME NEW f \in Walk, NEW g \in Walk, Together(f, g),
           NEW l \in Listings, NEW later, later \subseteq Listings,
           \A k \in later : k.num * l.den <= l.num * k.den
    PROVE  \/ Together(Take(f, l), Take(g, l))
           \/ Behind(Take(f, l), Take(g, l), later)
<1> DEFINE C == Capacity(l)
           F == Take(f, l)
           G == Take(g, l)
<1>0. /\ C \in Nat /\ f.left \in Nat /\ g.left \in Nat /\ f.out \in Nat /\ g.out \in Nat
      /\ g.left = f.left + 1 /\ g.out = f.out
  BY CapacityIsTheStockBoundary DEF Walk, Together
<1>1. /\ Use(f, l) \in Nat /\ Got(f, l) \in Nat
      /\ Use(f, l) = 0 \/ Got(f, l) = 0 => F = f
      /\ Use(f, l) # 0 /\ Got(f, l) # 0 =>
            F.left = f.left - Use(f, l) /\ F.out = f.out + Got(f, l)
  BY WhatTakeLeaves
<1>2. /\ Use(g, l) \in Nat /\ Got(g, l) \in Nat
      /\ Use(g, l) = 0 \/ Got(g, l) = 0 => G = g
      /\ Use(g, l) # 0 /\ Got(g, l) # 0 =>
            G.left = g.left - Use(g, l) /\ G.out = g.out + Got(g, l)
  BY WhatTakeLeaves
<1> HIDE DEF F, G
<1>3. CASE C <= f.left
  <2>1. Use(f, l) = C /\ Use(g, l) = C
    BY <1>0, <1>3 DEF Use
  <2>2. Got(f, l) = Got(g, l)
    BY <2>1 DEF Got
  <2>3. Together(F, G)
    BY <1>0, <1>1, <1>2, <2>1, <2>2 DEF Together
  <2> QED BY <2>3 DEF F, G
<1>4. CASE f.left < C
  <2>1. Use(f, l) = f.left /\ Use(g, l) = f.left + 1
    BY <1>0, <1>4 DEF Use
  <2>2. /\ Got(f, l) = FloorScaled(f.left, l) /\ Got(g, l) = FloorScaled(f.left + 1, l)
        /\ Got(f, l) <= Got(g, l)
    BY <1>0, <2>1, OneLevelIsMonotone DEF Got
  <2>3. CASE Got(g, l) = 0
    <3>1. F = f /\ G = g
      BY <1>1, <1>2, <2>2, <2>3
    <3> QED BY <3>1 DEF F, G
  <2>4. CASE Got(g, l) # 0 /\ Got(f, l) = 0
    <3>1. F = f /\ G.out = g.out + Got(g, l)
      BY <1>0, <1>1, <1>2, <2>1, <2>4
    <3>2. f.left * l.num < l.den
      BY <1>0, <2>2, <2>4, FloorIsZero
    <3>3. \A k \in later : f.left * k.num < k.den
      BY <1>0, <3>2, TooSmallBehind
    <3>4. Behind(F, G, later)
      BY <1>0, <1>2, <3>1, <3>3 DEF Behind
    <3> QED BY <3>4 DEF F, G
  <2>5. CASE Got(g, l) # 0 /\ Got(f, l) # 0
    <3>1. f.left # 0
      BY <2>2, <2>5, FloorIsZero
    <3>2. F.left = 0 /\ F.out = f.out + Got(f, l) /\ G.out = g.out + Got(g, l)
      BY <1>0, <1>1, <1>2, <2>1, <2>5, <3>1
    <3>3. \A k \in later : 0 * k.num < k.den
      <4>1. \A k \in later : k.num \in Nat /\ k.den \in Nat \ {0}
        BY DEF Listings
      <4> QED BY <4>1
    <3>4. Behind(F, G, later)
      BY <1>0, <1>1, <1>2, <2>2, <3>2, <3>3 DEF Behind
    <3> QED BY <3>4 DEF F, G
  <2> QED BY <2>3, <2>4, <2>5
<1> QED BY <1>0, <1>3, <1>4

LEMMA StepBehind ==
    ASSUME NEW f \in Walk, NEW g \in Walk, NEW levels, levels \subseteq Listings,
           Behind(f, g, levels), NEW l \in levels, NEW later, later \subseteq levels
    PROVE  Behind(Take(f, l), Take(g, l), later)
<1> DEFINE G == Take(g, l)
<1>0. l \in Listings /\ f.left \in Nat /\ f.out \in Nat /\ g.out \in Nat
  BY DEF Walk
<1>1. l.num \in Nat /\ l.den \in Nat
  BY <1>0 DEF Listings
<1>2. Use(f, l) \in Nat /\ Use(f, l) <= f.left
  BY <1>0, WhatTakeLeaves
<1>3. Use(f, l) * l.num <= f.left * l.num /\ f.left * l.num < l.den
  BY <1>0, <1>1, <1>2, MulMono DEF Behind
<1>4. Use(f, l) * l.num < l.den
  <2>1. Use(f, l) * l.num \in Nat /\ f.left * l.num \in Nat
    BY <1>0, <1>1, <1>2, MulNats
  <2> QED BY <1>1, <1>3, <2>1
<1>5. Got(f, l) = 0
  BY <1>0, <1>2, <1>4, FloorIsZero DEF Got
<1>6. Take(f, l) = f
  BY <1>0, <1>5, WhatTakeLeaves
<1>7. g.out <= G.out /\ G.out \in Nat
  <2>1. /\ Got(g, l) \in Nat
        /\ Use(g, l) = 0 \/ Got(g, l) = 0 => G = g
        /\ Use(g, l) # 0 /\ Got(g, l) # 0 => G.out = g.out + Got(g, l)
    BY <1>0, WhatTakeLeaves
  <2> HIDE DEF G
  <2> QED BY <1>0, <2>1
<1> HIDE DEF G
<1>8. Behind(f, G, later)
  BY <1>0, <1>7 DEF Behind
<1> QED BY <1>6, <1>8 DEF G

\* An order that grows by a unit buys no less.
LEMMA OneMoreBuysNoLess ==
    ASSUME NEW levels, IsBook(levels), NEW n \in Nat
    PROVE  FillTaker(levels, n).out <= FillTaker(levels, n + 1).out
<1> DEFINE m == Cardinality(levels)
           s == Ordered(levels)
           Rest(k) == {s[j] : j \in (k + 1)..m}
<1>1. /\ m \in Nat
      /\ \A i \in 1..m : s[i] \in Listings
      /\ \A i, j \in 1..m : i < j => Before(s[i], s[j])
  BY OrderedBook
<1>2. n + 1 \in Nat
  OBVIOUS
<1>3. PICK f : IsWalk(f, levels, n)
  BY WalkExists
<1>4. PICK g : IsWalk(g, levels, n + 1)
  BY <1>2, WalkExists
<1>5. /\ f \in [0..m -> Walk] /\ f[0] = Unfilled(n)
      /\ \A k \in 1..m : f[k] = Take(f[k - 1], s[k])
      /\ FillTaker(levels, n) = f[m]
  BY <1>3 DEF IsWalk
<1>6. /\ g \in [0..m -> Walk] /\ g[0] = Unfilled(n + 1)
      /\ \A k \in 1..m : g[k] = Take(g[k - 1], s[k])
      /\ FillTaker(levels, n + 1) = g[m]
  BY <1>4 DEF IsWalk
<1> HIDE DEF m, s
<1>7. \A k \in Nat : Rest(k) \subseteq Listings
  BY <1>1
<1> DEFINE S == {k \in Nat : k \in 0..m => Together(f[k], g[k]) \/ Behind(f[k], g[k], Rest(k))}
<1>8. 0 \in S
  <2>1. Together(f[0], g[0])
    BY <1>5, <1>6 DEF Together, Unfilled
  <2> QED BY <2>1
<1>9. ASSUME NEW k \in Nat, k \in S PROVE k + 1 \in S
  <2> SUFFICES ASSUME k + 1 \in 0..m
               PROVE  Together(f[k + 1], g[k + 1]) \/ Behind(f[k + 1], g[k + 1], Rest(k + 1))
    OBVIOUS
  <2> DEFINE l == s[k + 1]
  <2>1. k \in 0..m /\ k + 1 \in 1..m /\ (k + 1) - 1 = k
    BY <1>1
  <2>2. f[k] \in Walk /\ g[k] \in Walk /\ l \in Listings
    BY <1>1, <1>5, <1>6, <2>1
  <2>3. f[k + 1] = Take(f[k], l) /\ g[k + 1] = Take(g[k], l)
    BY <1>5, <1>6, <2>1
  <2>4. Rest(k + 1) \subseteq Rest(k) /\ l \in Rest(k)
    BY <2>1
  <2>5. \A x \in Rest(k + 1) : x.num * l.den <= l.num * x.den
    <3> SUFFICES ASSUME NEW j \in ((k + 1) + 1)..m PROVE s[j].num * l.den <= l.num * s[j].den
      OBVIOUS
    <3>1. j \in 1..m /\ k + 1 < j
      BY <2>1
    <3>2. Before(l, s[j]) /\ s[j] \in Listings
      BY <1>1, <2>1, <3>1
    <3> QED BY <2>2, <3>2, BeforeFalls
  <2>6. Rest(k) \subseteq Listings /\ Rest(k + 1) \subseteq Listings
    BY <1>7, <2>4
  <2>7. Together(f[k], g[k]) \/ Behind(f[k], g[k], Rest(k))
    BY <1>9, <2>1
  <2> HIDE DEF Rest, l
  <2>8. CASE Together(f[k], g[k])
    BY <2>2, <2>3, <2>5, <2>6, <2>8, StepTogether
  <2>9. CASE Behind(f[k], g[k], Rest(k))
    BY <2>2, <2>3, <2>4, <2>6, <2>9, StepBehind
  <2> QED BY <2>7, <2>8, <2>9
<1>10. m \in S
  <2> HIDE DEF S
  <2> QED BY <1>1, <1>8, <1>9, NatInduct
<1>11. Together(f[m], g[m]) \/ Behind(f[m], g[m], Rest(m))
  BY <1>1, <1>10
<1>12. f[m].out \in Nat /\ g[m].out \in Nat
  <2>1. f[m] \in Walk /\ g[m] \in Walk
    BY <1>1, <1>5, <1>6
  <2> QED BY <2>1 DEF Walk
<1> QED BY <1>5, <1>6, <1>11, <1>12 DEF Together, Behind

\* An order that grows never buys less: what the bisections rest on.
THEOREM GrowingBuysNoLess ==
    ASSUME NEW levels, IsBook(levels), NEW a \in Nat, NEW b \in Nat, a <= b
    PROVE  /\ FillTaker(levels, a).out \in Nat
           /\ FillTaker(levels, b).out \in Nat
           /\ FillTaker(levels, a).out <= FillTaker(levels, b).out
<1> DEFINE Out(n) == FillTaker(levels, n).out
           S == {k \in Nat : Out(a) <= Out(a + k)}
<1>1. \A n \in Nat : Out(n) \in Nat
  BY FillAddsUp DEF Walk
<1>2. \A n \in Nat : Out(n) <= Out(n + 1)
  BY OneMoreBuysNoLess
<1> HIDE DEF Out
<1>3. 0 \in S
  BY <1>1
<1>4. ASSUME NEW k \in Nat, k \in S PROVE k + 1 \in S
  <2>1. a + k \in Nat /\ a + (k + 1) = (a + k) + 1
    OBVIOUS
  <2> QED BY <1>1, <1>2, <1>4, <2>1
<1>5. b - a \in Nat /\ a + (b - a) = b
  OBVIOUS
<1>6. b - a \in S
  <2> HIDE DEF S
  <2> QED BY <1>3, <1>4, <1>5, NatInduct
<1> QED BY <1>1, <1>5, <1>6 DEF Out

-----------------------------------------------------------------------------
(* Routes, and what is left at the end of them, as operators of the market  *)
(* m, the request q and the amount n instead of the variables: no action of  *)
(* the model changes the market or the request.                             *)

Currencies == ToSet(IdOrder)

\* A way through captured pairs, wherever it leads.
IsWay(m, c) ==
    /\ c \in Seq(Currencies)
    /\ Len(c) >= 1
    /\ \A i \in 1..(Len(c) - 1) : <<c[i], c[i + 1]>> \in DOMAIN m

ChainsOf(m, q) ==
    UNION {{r \in [1..n -> ToSet(IdOrder)] :
               /\ r[1] = From
               /\ r[n] = To
               /\ \A i \in 2..(n - 1) : r[i] \in q.allowed
               /\ \A i, j \in 1..n : i # j => r[i] # r[j]
               /\ \A i \in 1..(n - 1) : <<r[i], r[i + 1]>> \in DOMAIN m}
           : n \in 2..(q.hops + 1)}

DeliveredIn(m, chain, n) ==
    LET after[i \in 1..Len(chain)] ==
            IF i = 1 THEN n
            ELSE IF after[i - 1] = 0 THEN 0
                 ELSE FillTaker(m[<<chain[i - 1], chain[i]>>], after[i - 1]).out
    IN  after[Len(chain)]

LEMMA SameMarket ==
    /\ Chains = ChainsOf(market, request)
    /\ \A c, n : Delivered(c, n) = DeliveredIn(market, c, n)
BY DEF Chains, ChainsOf, Delivered, DeliveredIn

\* The quantities a chain hands on, currency by currency.
IsAfter(f, m, c, n) ==
    /\ f \in [1..Len(c) -> Nat]
    /\ f[1] = n
    /\ \A i \in 2..Len(c) :
          f[i] = IF f[i - 1] = 0 THEN 0
                 ELSE FillTaker(m[<<c[i - 1], c[i]>>], f[i - 1]).out
    /\ DeliveredIn(m, c, n) = f[Len(c)]

LEMMA LegSells ==
    ASSUME NEW m \in Markets, NEW pair \in DOMAIN m, NEW n \in Nat
    PROVE  /\ IsBook(m[pair])
           /\ FillTaker(m[pair], n) \in Walk
           /\ FillTaker(m[pair], n).out \in Nat
<1>1. IsBook(m[pair])
  BY RouteAssumption
<1>2. FillTaker(m[pair], n) \in Walk
  BY <1>1, FillAddsUp
<1> QED BY <1>1, <1>2 DEF Walk

LEMMA AfterExists ==
    ASSUME NEW m \in Markets, NEW c, IsWay(m, c), NEW n \in Nat
    PROVE  \E f : IsAfter(f, m, c, n)
<1> DEFINE k == Len(c) - 1
           Leg(w, i) == IF w = 0 THEN 0 ELSE FillTaker(m[<<c[i], c[i + 1]>>], w).out
           G == [x \in Nat \X (1..k) |-> Leg(x[1], x[2])]
           Step(f, i) == IF i = 1 THEN n
                         ELSE IF f[i - 1] = 0 THEN 0
                              ELSE FillTaker(m[<<c[i - 1], c[i]>>], f[i - 1]).out
<1>1. k \in Nat /\ Len(c) = k + 1 /\ \A i \in 1..k : <<c[i], c[i + 1]>> \in DOMAIN m
  BY DEF IsWay
<1>2. \A w \in Nat : \A i \in 1..k : Leg(w, i) \in Nat
  BY <1>1, LegSells
<1> HIDE DEF k
<1>3. G \in [Nat \X (1..k) -> Nat] /\ \A w \in Nat : \A i \in 1..k : G[<<w, i>>] = Leg(w, i)
  <2> HIDE DEF Leg
  <2> QED BY <1>2
<1>4. PICK g \in [0..k -> Nat] : IsRec(g, k, n, G)
  <2> HIDE DEF G
  <2> QED BY <1>1, <1>3, RecExists
<1> DEFINE f0 == [i \in 1..Len(c) |-> g[i - 1]]
<1>5. \A i \in 1..Len(c) : f0[i] = Step(f0, i)
  <2> SUFFICES ASSUME NEW i \in 1..Len(c) PROVE f0[i] = Step(f0, i)
    OBVIOUS
  <2>1. CASE i = 1
    BY <1>4, <2>1 DEF IsRec
  <2>2. CASE i # 1
    <3>1. i - 1 \in 1..k /\ i - 1 \in 1..Len(c) /\ (i - 1) + 1 = i /\ (i - 1) - 1 \in 0..k
      BY <1>1, <2>2
    <3>2. g[i - 1] = G[<<g[(i - 1) - 1], i - 1>>]
      BY <1>4, <3>1 DEF IsRec
    <3>3. g[i - 1] = Leg(g[(i - 1) - 1], i - 1)
      <4>1. g[(i - 1) - 1] \in Nat
        BY <3>1
      <4> HIDE DEF Leg, G
      <4> QED BY <1>3, <3>1, <3>2, <4>1
    <3>4. f0[i] = g[i - 1] /\ f0[i - 1] = g[(i - 1) - 1]
      BY <3>1
    <3> HIDE DEF f0
    <3> QED BY <2>2, <3>1, <3>3, <3>4
  <2> QED BY <2>1, <2>2
<1>6. f0 = [i \in 1..Len(c) |-> Step(f0, i)]
  <2>1. f0 = [i \in 1..Len(c) |-> f0[i]]
    OBVIOUS
  <2> HIDE DEF f0, Step
  <2> QED BY <1>5, <2>1
<1> DEFINE f1 == CHOOSE f : f = [i \in 1..Len(c) |-> Step(f, i)]
<1>7. f1 = [i \in 1..Len(c) |-> Step(f1, i)]
  <2> HIDE DEF f0, Step
  <2> QED BY <1>6
<1>8. DeliveredIn(m, c, n) = f1[Len(c)]
  BY DEF DeliveredIn
<1>9. PICK f : f = [i \in 1..Len(c) |-> Step(f, i)] /\ DeliveredIn(m, c, n) = f[Len(c)]
  <2> HIDE DEF f1, Step
  <2> QED BY <1>7, <1>8
<1>10. \A i \in 1..Len(c) : f[i] = Step(f, i)
  <2> HIDE DEF Step
  <2> QED BY <1>9
<1>11. f[1] = n /\ \A i \in 2..Len(c) : f[i] = IF f[i - 1] = 0 THEN 0
                     ELSE FillTaker(m[<<c[i - 1], c[i]>>], f[i - 1]).out
  <2>1. 1 \in 1..Len(c) /\ \A i \in 2..Len(c) : i \in 1..Len(c) /\ i # 1
    BY <1>1
  <2>2. f[1] = n
    BY <1>10, <2>1
  <2>3. ASSUME NEW i \in 2..Len(c)
        PROVE  f[i] = IF f[i - 1] = 0 THEN 0
                      ELSE FillTaker(m[<<c[i - 1], c[i]>>], f[i - 1]).out
    <3>1. f[i] = Step(f, i)
      <4> HIDE DEF Step
      <4> QED BY <1>10, <2>1
    <3> QED BY <2>1, <3>1
  <2> HIDE DEF Step
  <2> QED BY <2>2, <2>3
<1> DEFINE S == {i \in Nat : i + 1 \in 1..Len(c) => f[i + 1] \in Nat}
<1>12. 0 \in S
  BY <1>11
<1>13. ASSUME NEW i \in Nat, i \in S PROVE i + 1 \in S
  <2> SUFFICES ASSUME (i + 1) + 1 \in 1..Len(c) PROVE f[(i + 1) + 1] \in Nat
    OBVIOUS
  <2>1. i + 1 \in 1..k /\ (i + 1) + 1 \in 2..Len(c) /\ ((i + 1) + 1) - 1 = i + 1
    BY <1>1
  <2>2. f[i + 1] \in Nat
    BY <1>1, <1>13, <2>1
  <2>3. f[(i + 1) + 1] = Leg(f[i + 1], i + 1)
    BY <1>11, <2>1
  <2> HIDE DEF Leg
  <2> QED BY <1>2, <2>1, <2>2, <2>3
<1>14. \A i \in Nat : i \in S
  <2> HIDE DEF S
  <2> QED BY <1>12, <1>13, NatInduct
<1>15. \A i \in 1..Len(c) : f[i] \in Nat
  <2> SUFFICES ASSUME NEW i \in 1..Len(c) PROVE f[i] \in Nat
    OBVIOUS
  <2>1. i - 1 \in Nat /\ (i - 1) + 1 = i
    BY <1>1
  <2> QED BY <1>14, <2>1
<1>16. f \in [1..Len(c) -> Nat]
  <2> HIDE DEF Step
  <2>1. f = [i \in 1..Len(c) |-> f[i]]
    BY <1>9
  <2> QED BY <1>15, <2>1
<1> QED BY <1>9, <1>11, <1>16 DEF IsAfter

-----------------------------------------------------------------------------
(* The invariant of the search.                                            *)

\* The first k currencies of a chain.
Upto(c, k) == [j \in 1..k |-> c[j]]

\* What the leg after the k-th currency does with what arrives there.
LegAt(m, c, n, k) == FillTaker(m[<<c[k], c[k + 1]>>], DeliveredIn(m, Upto(c, k), n))

LegsOf(m, c, n) == [k \in 1..(Len(c) - 1) |-> LegAt(m, c, n, k)]

CallRecords == [route : Seq(Currencies), carried : Nat, legs : Seq(Walk),
                entered : BOOLEAN, todo : SUBSET Currencies]

\* A way the search may be on: it starts at From, has not met To, and goes
\* through currencies the request allows, through each of them once.
IsTrail(m, q, c) ==
    /\ IsWay(m, c)
    /\ c[1] = From
    /\ \A i \in 2..Len(c) : c[i] \in q.allowed
    /\ \A i \in 1..Len(c) : c[i] # To
    /\ \A i, j \in 1..Len(c) : i # j => c[i] # c[j]

\* A call of visit carries what its route delivers, and asks its neighbours.
IsCall(m, q, n, x) ==
    /\ x \in CallRecords
    /\ IsTrail(m, q, x.route)
    /\ Len(x.route) <= q.hops + 1
    /\ x.entered => Len(x.route) <= q.hops
    /\ x.carried = DeliveredIn(m, x.route, n)
    /\ x.carried # 0
    /\ x.legs = LegsOf(m, x.route, n)
    /\ \A b \in x.todo : <<x.route[Len(x.route)], b>> \in DOMAIN m

\* A route that was collected, with the bill of every leg.
IsPath(m, q, n, p) ==
    /\ p \in [route : Seq(Currencies), legs : Seq(Walk)]
    /\ p.route \in ChainsOf(m, q)
    /\ DeliveredIn(m, p.route, n) # 0
    /\ p.legs = LegsOf(m, p.route, n)

\* A chain a call will still find: the call is at one of its currencies, and
\* has not dealt with the next.
Pending(c, x) ==
    /\ Len(x.route) < Len(c)
    /\ \A j \in 1..Len(x.route) : c[j] = x.route[j]
    /\ x.entered => c[Len(x.route) + 1] \in x.todo

\* Every chain that buys something has been found, or will be.
Found(c, found) == \E p \in ToSet(found) : p.route = c

Complete(m, q, n, calls, found) ==
    \A c \in ChainsOf(m, q) :
        DeliveredIn(m, c, n) # 0 =>
            \/ Found(c, found)
            \/ \E i \in DOMAIN calls : Pending(c, calls[i])

Buys(m, q, n) == \E c \in ChainsOf(m, q) : DeliveredIn(m, c, n) # 0

\* The smallest order of a book, as the radar's question means it.
IsMinimum(levels, low) ==
    IF low = 0
    THEN \A n \in 1..((Top + 1) \div 2) : ~Yields(levels, n)
    ELSE low \in 1..Top /\ Yields(levels, low) /\ ~Yields(levels, low - 1)

\* What the direct pair alone would sell for n units.
Direct(m, n) == <<From, To>> \in DOMAIN m /\ Yields(m[<<From, To>>], n)

AllCalls(m, q, n, calls) ==
    calls \in Seq(CallRecords) /\ \A i \in DOMAIN calls : IsCall(m, q, n, calls[i])

AllPaths(m, q, n, found) ==
    /\ found \in Seq([route : Seq(Currencies), legs : Seq(Walk)])
    /\ \A i \in DOMAIN found : IsPath(m, q, n, found[i])

\* Every call and every route means something in the market.
Shape ==
    /\ market \in Markets
    /\ request \in Requests
    /\ amount \in 1..Top
    /\ raised \in BOOLEAN
    /\ AllCalls(market, request, amount, stack)
    /\ AllPaths(market, request, amount, paths)
    /\ expanded \in Nat
    /\ truncated \in BOOLEAN
    /\ exhausted \in BOOLEAN

\* The stake is raised to no more than it takes, and only when it buys nothing.
Why ==
    /\ IF raised
       THEN Direct(market, amount) /\ ~Direct(market, amount - 1)
       ELSE amount = request.stake
    /\ raised /\ ~exhausted => ~Buys(market, request, request.stake)

\* A pair is called missing, or unfillable, for a reason.
Told ==
    /\ verdict = "missing" => ChainsOf(market, request) = {}
    /\ verdict = "unfillable" =>
          /\ ChainsOf(market, request) # {}
          /\ ~exhausted =>
                /\ ~Buys(market, request, request.stake)
                /\ \A n \in 1..((Top + 1) \div 2) : ~Direct(market, n)

\* The inductive invariant.  NoRouteIsMissed alone says nothing while a search
\* runs, and the verdict is about searches that are over: Complete and Why
\* carry over the steps what the two rest on.
SearchInv ==
    /\ Shape
    /\ verdict = "none" /\ ~truncated => Complete(market, request, amount, stack, paths)
    /\ Why
    /\ Told

-----------------------------------------------------------------------------
(* What a chain delivers.                                                  *)

\* The beginning of a chain delivers what the chain has there.
LEMMA AfterPrefix ==
    ASSUME NEW m \in Markets, NEW n \in Nat, NEW c, NEW f, IsAfter(f, m, c, n),
           NEW d, IsWay(m, d), Len(d) <= Len(c), \A j \in 1..Len(d) : d[j] = c[j]
    PROVE  DeliveredIn(m, d, n) = f[Len(d)]
<1>1. PICK g : IsAfter(g, m, d, n)
  BY AfterExists
<1>2. Len(d) \in Nat /\ Len(d) >= 1
  BY DEF IsWay
<1> DEFINE S == {i \in Nat : i + 1 \in 1..Len(d) => g[i + 1] = f[i + 1]}
<1>3. 0 \in S
  BY <1>1 DEF IsAfter
<1>4. ASSUME NEW i \in Nat, i \in S PROVE i + 1 \in S
  <2> SUFFICES ASSUME (i + 1) + 1 \in 1..Len(d) PROVE g[(i + 1) + 1] = f[(i + 1) + 1]
    OBVIOUS
  <2>1. (i + 1) + 1 \in 2..Len(d) /\ ((i + 1) + 1) - 1 = i + 1 /\ i + 1 \in 1..Len(d)
    OBVIOUS
  <2>2. g[i + 1] = f[i + 1] /\ d[i + 1] = c[i + 1] /\ d[(i + 1) + 1] = c[(i + 1) + 1]
    BY <1>4, <2>1
  <2>3. (i + 1) + 1 \in 2..Len(c)
    BY <1>1, <1>2, <2>1 DEF IsAfter
  <2> QED BY <1>1, <2>1, <2>2, <2>3 DEF IsAfter
<1>5. \A i \in Nat : i \in S
  <2> HIDE DEF S
  <2> QED BY <1>3, <1>4, NatInduct
<1>6. Len(d) - 1 \in Nat /\ (Len(d) - 1) + 1 = Len(d) /\ Len(d) \in 1..Len(d)
  BY <1>2
<1>7. g[Len(d)] = f[Len(d)]
  BY <1>5, <1>6
<1> QED BY <1>1, <1>7 DEF IsAfter

\* The quantities along a chain are what its beginnings deliver.
LEMMA UptoIsWay ==
    ASSUME NEW m, NEW c, IsWay(m, c), NEW k \in 1..Len(c)
    PROVE  /\ IsWay(m, Upto(c, k))
           /\ Len(Upto(c, k)) = k
           /\ \A j \in 1..k : Upto(c, k)[j] = c[j]
<1>1. k \in Nat /\ Len(c) \in Nat /\ c \in Seq(Currencies)
  BY DEF IsWay
<1>2. Upto(c, k) \in [1..k -> Currencies]
  BY <1>1 DEF Upto
<1>3. Upto(c, k) \in Seq(Currencies) /\ Len(Upto(c, k)) = k
  BY <1>1, <1>2
<1>4. \A j \in 1..k : Upto(c, k)[j] = c[j]
  BY DEF Upto
<1>5. \A i \in 1..(k - 1) : i \in 1..(Len(c) - 1) /\ i \in 1..k /\ i + 1 \in 1..k
  BY <1>1
<1> QED BY <1>1, <1>3, <1>4, <1>5 DEF IsWay

LEMMA UptoDelivers ==
    ASSUME NEW m \in Markets, NEW n \in Nat, NEW c, IsWay(m, c), NEW f, IsAfter(f, m, c, n)
    PROVE  \A k \in 1..Len(c) : DeliveredIn(m, Upto(c, k), n) = f[k]
<1> SUFFICES ASSUME NEW k \in 1..Len(c) PROVE DeliveredIn(m, Upto(c, k), n) = f[k]
  OBVIOUS
<1>1. Len(c) \in Nat
  BY DEF IsWay
<1> QED BY <1>1, UptoIsWay, AfterPrefix

LEMMA DeliveredIsNat ==
    ASSUME NEW m \in Markets, NEW n \in Nat, NEW c, IsWay(m, c)
    PROVE  DeliveredIn(m, c, n) \in Nat
<1>1. PICK f : IsAfter(f, m, c, n)
  BY AfterExists
<1>2. Len(c) \in 1..Len(c)
  BY DEF IsWay
<1> QED BY <1>1, <1>2 DEF IsAfter

LEMMA StartOfWay ==
    /\ From \in Currencies
    /\ <<From>> \in Seq(Currencies)
    /\ Len(<<From>>) = 1
    /\ <<From>>[1] = From
<1>a. {From, To} \subseteq ToSet(IdOrder)
  BY RouteAssumption
<1>1. From \in Currencies
  BY <1>a DEF Currencies
<1>2. <<From>> \in Seq(Currencies)
  BY <1>1
<1>3. Len(<<From>>) = 1
  OBVIOUS
<1>4. <<From>>[1] = From
  OBVIOUS
<1> QED BY <1>1, <1>2, <1>3, <1>4

LEMMA DeliveredAtOnce ==
    ASSUME NEW m \in Markets, NEW n \in Nat, NEW c \in Seq(Currencies), Len(c) = 1
    PROVE  IsWay(m, c) /\ DeliveredIn(m, c, n) = n
<1>1. IsWay(m, c)
  BY DEF IsWay
<1>2. PICK f : IsAfter(f, m, c, n)
  BY <1>1, AfterExists
<1> QED BY <1>1, <1>2 DEF IsAfter

LEMMA DeliveredStart ==
    ASSUME NEW m \in Markets, NEW n \in Nat
    PROVE  IsWay(m, <<From>>) /\ DeliveredIn(m, <<From>>, n) = n
BY StartOfWay, DeliveredAtOnce

\* A way with one more currency.
LEMMA WayGrows ==
    ASSUME NEW m, NEW c, IsWay(m, c), NEW b \in Currencies, <<c[Len(c)], b>> \in DOMAIN m
    PROVE  /\ IsWay(m, Append(c, b))
           /\ Len(Append(c, b)) = Len(c) + 1
           /\ Append(c, b)[Len(c) + 1] = b
           /\ \A j \in 1..Len(c) : Append(c, b)[j] = c[j]
<1>1. c \in Seq(Currencies) /\ Len(c) \in Nat
  BY DEF IsWay
<1>2. /\ Append(c, b) \in Seq(Currencies)
      /\ Len(Append(c, b)) = Len(c) + 1
      /\ Append(c, b)[Len(c) + 1] = b
      /\ \A j \in 1..Len(c) : Append(c, b)[j] = c[j]
  BY <1>1
<1>3. ASSUME NEW i \in 1..((Len(c) + 1) - 1)
      PROVE  <<Append(c, b)[i], Append(c, b)[i + 1]>> \in DOMAIN m
  <2>1. CASE i = Len(c)
    BY <1>1, <1>2, <2>1
  <2>2. CASE i # Len(c)
    <3>1. i \in 1..(Len(c) - 1) /\ i \in 1..Len(c) /\ i + 1 \in 1..Len(c)
      BY <1>1, <2>2
    <3> QED BY <1>2, <3>1 DEF IsWay
  <2> QED BY <2>1, <2>2
<1> QED BY <1>1, <1>2, <1>3 DEF IsWay

LEMMA DeliveredStep ==
    ASSUME NEW m \in Markets, NEW n \in Nat, NEW c, IsWay(m, c),
           NEW b \in Currencies, <<c[Len(c)], b>> \in DOMAIN m
    PROVE  DeliveredIn(m, Append(c, b), n) =
               IF DeliveredIn(m, c, n) = 0 THEN 0
               ELSE FillTaker(m[<<c[Len(c)], b>>], DeliveredIn(m, c, n)).out
<1> DEFINE d == Append(c, b)
<1>1. /\ IsWay(m, d) /\ Len(d) = Len(c) + 1 /\ d[Len(c) + 1] = b
      /\ \A j \in 1..Len(c) : d[j] = c[j]
  BY WayGrows
<1>2. /\ Len(c) \in Nat /\ Len(c) \in 1..Len(c) /\ Len(c) + 1 \in 2..(Len(c) + 1)
      /\ (Len(c) + 1) - 1 = Len(c)
  BY DEF IsWay
<1> HIDE DEF d
<1>3. PICK f : IsAfter(f, m, d, n)
  BY <1>1, AfterExists
<1>4. DeliveredIn(m, c, n) = f[Len(c)]
  <2>1. \A j \in 1..Len(c) : c[j] = d[j]
    BY <1>1
  <2> QED BY <1>1, <1>2, <1>3, <2>1, AfterPrefix
<1>5. f[Len(c) + 1] = IF f[Len(c)] = 0 THEN 0
                      ELSE FillTaker(m[<<d[Len(c)], d[Len(c) + 1]>>], f[Len(c)]).out
  BY <1>1, <1>2, <1>3 DEF IsAfter
<1>6. DeliveredIn(m, d, n) = f[Len(c) + 1]
  BY <1>1, <1>3 DEF IsAfter
<1> QED BY <1>1, <1>2, <1>4, <1>5, <1>6 DEF d

\* What buys nothing on the way buys nothing at the end.
LEMMA DeliveredBefore ==
    ASSUME NEW m \in Markets, NEW n \in Nat, NEW c, IsWay(m, c), DeliveredIn(m, c, n) # 0,
           NEW d, IsWay(m, d), Len(d) <= Len(c), \A j \in 1..Len(d) : d[j] = c[j]
    PROVE  DeliveredIn(m, d, n) # 0
<1>1. PICK f : IsAfter(f, m, c, n)
  BY AfterExists
<1>2. Len(c) \in Nat /\ Len(d) \in Nat /\ Len(d) >= 1
  BY DEF IsWay
<1> DEFINE S == {i \in Nat : Len(d) + i \in 1..Len(c) => f[Len(d) + i] = 0}
<1>3. SUFFICES ASSUME DeliveredIn(m, d, n) = 0 PROVE FALSE
  OBVIOUS
<1>4. f[Len(d)] = 0
  BY <1>1, <1>3, AfterPrefix
<1>5. 0 \in S
  BY <1>2, <1>4
<1>6. ASSUME NEW i \in Nat, i \in S PROVE i + 1 \in S
  <2> SUFFICES ASSUME Len(d) + (i + 1) \in 1..Len(c) PROVE f[Len(d) + (i + 1)] = 0
    OBVIOUS
  <2>1. /\ Len(d) + (i + 1) \in 2..Len(c) /\ (Len(d) + (i + 1)) - 1 = Len(d) + i
        /\ Len(d) + i \in 1..Len(c)
    BY <1>2
  <2>2. f[Len(d) + i] = 0
    BY <1>6, <2>1
  <2> QED BY <1>1, <2>1, <2>2 DEF IsAfter
<1>7. \A i \in Nat : i \in S
  <2> HIDE DEF S
  <2> QED BY <1>5, <1>6, NatInduct
<1>8. Len(c) - Len(d) \in Nat /\ Len(d) + (Len(c) - Len(d)) = Len(c) /\ Len(c) \in 1..Len(c)
  BY <1>2
<1>9. f[Len(c)] = 0
  BY <1>7, <1>8
<1> QED BY <1>1, <1>9 DEF IsAfter

-----------------------------------------------------------------------------
(* Chains of the market, their legs, and the trails the search is on.      *)

\* A chain of the market is a way from From to To through allowed currencies.
IsChain(m, q, c) ==
    /\ IsWay(m, c)
    /\ Len(c) \in 2..(q.hops + 1)
    /\ c[1] = From
    /\ c[Len(c)] = To
    /\ \A i \in 2..(Len(c) - 1) : c[i] \in q.allowed
    /\ \A i, j \in 1..Len(c) : i # j => c[i] # c[j]

LEMMA WhatChainsAre ==
    ASSUME NEW m, NEW q \in Requests
    PROVE  \A c : c \in ChainsOf(m, q) <=> IsChain(m, q, c)
<1>0. q.hops \in Nat
  BY RouteAssumption
<1>1. ASSUME NEW c \in ChainsOf(m, q) PROVE IsChain(m, q, c)
  <2>1. PICK n \in 2..(q.hops + 1) :
            /\ c \in [1..n -> Currencies]
            /\ c[1] = From
            /\ c[n] = To
            /\ \A i \in 2..(n - 1) : c[i] \in q.allowed
            /\ \A i, j \in 1..n : i # j => c[i] # c[j]
            /\ \A i \in 1..(n - 1) : <<c[i], c[i + 1]>> \in DOMAIN m
    BY <1>1 DEF ChainsOf, Currencies
  <2>2. n \in Nat /\ n >= 1
    BY <1>0
  <2>3. c \in Seq(Currencies) /\ Len(c) = n
    BY <2>1, <2>2
  <2> QED BY <2>1, <2>2, <2>3 DEF IsChain, IsWay
<1>2. ASSUME NEW c, IsChain(m, q, c) PROVE c \in ChainsOf(m, q)
  <2>1. c \in Seq(Currencies) /\ Len(c) \in 2..(q.hops + 1)
    BY <1>2 DEF IsChain, IsWay
  <2>2. c \in [1..Len(c) -> ToSet(IdOrder)]
    BY <2>1 DEF Currencies
  <2> DEFINE n == Len(c)
             R == {r \in [1..n -> ToSet(IdOrder)] :
                     /\ r[1] = From
                     /\ r[n] = To
                     /\ \A i \in 2..(n - 1) : r[i] \in q.allowed
                     /\ \A i, j \in 1..n : i # j => r[i] # r[j]
                     /\ \A i \in 1..(n - 1) : <<r[i], r[i + 1]>> \in DOMAIN m}
  <2>3. c \in R
    BY <1>2, <2>2 DEF IsChain, IsWay
  <2> QED BY <2>1, <2>3 DEF ChainsOf
<1> QED BY <1>1, <1>2

LEMMA SameSeq ==
    ASSUME NEW S, NEW s \in Seq(S), NEW t \in Seq(S), Len(s) = Len(t),
           \A k \in 1..Len(s) : s[k] = t[k]
    PROVE  s = t
<1>1. s = [k \in 1..Len(s) |-> s[k]]
  OBVIOUS
<1>2. t = [k \in 1..Len(s) |-> t[k]]
  OBVIOUS
<1> QED BY <1>1, <1>2

LEMMA LegsAreWalks ==
    ASSUME NEW m \in Markets, NEW n \in Nat, NEW c, IsWay(m, c)
    PROVE  /\ LegsOf(m, c, n) \in Seq(Walk)
           /\ Len(LegsOf(m, c, n)) = Len(c) - 1
           /\ \A k \in 1..(Len(c) - 1) :
                 /\ LegsOf(m, c, n)[k] = LegAt(m, c, n, k)
                 /\ <<c[k], c[k + 1]>> \in DOMAIN m
                 /\ IsBook(m[<<c[k], c[k + 1]>>])
                 /\ DeliveredIn(m, Upto(c, k), n) \in Nat
                 /\ LegAt(m, c, n, k) \in Walk
                 /\ IsBill(LegAt(m, c, n, k), DeliveredIn(m, Upto(c, k), n))
<1>1. Len(c) - 1 \in Nat
  BY DEF IsWay
<1>2. ASSUME NEW k \in 1..(Len(c) - 1)
      PROVE  /\ <<c[k], c[k + 1]>> \in DOMAIN m
             /\ IsBook(m[<<c[k], c[k + 1]>>])
             /\ DeliveredIn(m, Upto(c, k), n) \in Nat
             /\ LegAt(m, c, n, k) \in Walk
             /\ IsBill(LegAt(m, c, n, k), DeliveredIn(m, Upto(c, k), n))
  <2>1. <<c[k], c[k + 1]>> \in DOMAIN m
    BY DEF IsWay
  <2>2. k \in 1..Len(c)
    BY <1>1
  <2>3. DeliveredIn(m, Upto(c, k), n) \in Nat
    BY <2>2, UptoIsWay, DeliveredIsNat
  <2>4. IsBook(m[<<c[k], c[k + 1]>>])
    BY <2>1, LegSells
  <2> QED BY <2>1, <2>3, <2>4, FillAddsUp DEF LegAt
<1>3. LegsOf(m, c, n) \in [1..(Len(c) - 1) -> Walk]
  BY <1>2 DEF LegsOf
<1>4. LegsOf(m, c, n) \in Seq(Walk) /\ Len(LegsOf(m, c, n)) = Len(c) - 1
  BY <1>1, <1>3
<1>5. \A k \in 1..(Len(c) - 1) : LegsOf(m, c, n)[k] = LegAt(m, c, n, k)
  BY DEF LegsOf
<1> QED BY <1>2, <1>4, <1>5

LEMMA LegsGrow ==
    ASSUME NEW m \in Markets, NEW n \in Nat, NEW c, IsWay(m, c),
           NEW b \in Currencies, <<c[Len(c)], b>> \in DOMAIN m
    PROVE  LegsOf(m, Append(c, b), n) =
               Append(LegsOf(m, c, n), FillTaker(m[<<c[Len(c)], b>>], DeliveredIn(m, c, n)))
<1> DEFINE d == Append(c, b)
           last == FillTaker(m[<<c[Len(c)], b>>], DeliveredIn(m, c, n))
           legs == LegsOf(m, c, n)
<1>1. /\ IsWay(m, d) /\ Len(d) = Len(c) + 1 /\ d[Len(c) + 1] = b
      /\ \A j \in 1..Len(c) : d[j] = c[j]
  BY WayGrows
<1>2. c \in Seq(Currencies) /\ Len(c) \in Nat /\ Len(c) >= 1
  BY DEF IsWay
<1> HIDE DEF d
<1>3. ASSUME NEW k \in 1..Len(c) PROVE Upto(d, k) = Upto(c, k)
  <2>1. \A j \in 1..k : d[j] = c[j]
    BY <1>1, <1>2
  <2> QED BY <2>1 DEF Upto
<1>4. Upto(c, Len(c)) = c
  BY <1>2 DEF Upto
<1>5. ASSUME NEW k \in 1..(Len(c) - 1) PROVE LegAt(m, d, n, k) = LegAt(m, c, n, k)
  <2>1. k \in 1..Len(c) /\ k + 1 \in 1..Len(c)
    BY <1>2
  <2>2. d[k] = c[k] /\ d[k + 1] = c[k + 1] /\ Upto(d, k) = Upto(c, k)
    BY <1>1, <1>3, <2>1
  <2> QED BY <2>2 DEF LegAt
<1>6. LegAt(m, d, n, Len(c)) = last
  <2>1. Len(c) \in 1..Len(c)
    BY <1>2
  <2> QED BY <1>1, <1>3, <1>4, <2>1 DEF LegAt
<1>7. /\ legs \in Seq(Walk) /\ Len(legs) = Len(c) - 1
      /\ \A k \in 1..(Len(c) - 1) : legs[k] = LegAt(m, c, n, k)
  BY LegsAreWalks
<1>8. /\ LegsOf(m, d, n) \in Seq(Walk) /\ Len(LegsOf(m, d, n)) = Len(c)
      /\ \A k \in 1..Len(c) : LegsOf(m, d, n)[k] = LegAt(m, d, n, k)
  <2>1. Len(d) - 1 = Len(c)
    BY <1>1, <1>2
  <2> QED BY <1>1, <2>1, LegsAreWalks
<1>9. last \in Walk
  BY DeliveredIsNat, LegSells
<1> HIDE DEF last, legs
<1>10. /\ Append(legs, last) \in Seq(Walk) /\ Len(Append(legs, last)) = Len(c)
       /\ Append(legs, last)[Len(c)] = last
       /\ \A k \in 1..(Len(c) - 1) : Append(legs, last)[k] = legs[k]
  BY <1>2, <1>7, <1>9
<1>11. \A k \in 1..Len(c) : LegsOf(m, d, n)[k] = Append(legs, last)[k]
  <2> SUFFICES ASSUME NEW k \in 1..Len(c) PROVE LegsOf(m, d, n)[k] = Append(legs, last)[k]
    OBVIOUS
  <2>1. CASE k = Len(c)
    BY <1>6, <1>8, <1>10, <2>1
  <2>2. CASE k # Len(c)
    <3>1. k \in 1..(Len(c) - 1)
      BY <1>2, <2>2
    <3> QED BY <1>5, <1>7, <1>8, <1>10, <3>1
  <2> QED BY <2>1, <2>2
<1>12. LegsOf(m, d, n) = Append(legs, last)
  BY <1>8, <1>10, <1>11, SameSeq
<1> QED BY <1>12 DEF d, last, legs

LEMMA TrailGrows ==
    ASSUME NEW m, NEW q, NEW c, IsTrail(m, q, c),
           NEW b \in Currencies, <<c[Len(c)], b>> \in DOMAIN m,
           b # To, b \in q.allowed, b \notin ToSet(c)
    PROVE  IsTrail(m, q, Append(c, b))
<1>1. /\ IsWay(m, Append(c, b)) /\ Len(Append(c, b)) = Len(c) + 1
      /\ Append(c, b)[Len(c) + 1] = b
      /\ \A j \in 1..Len(c) : Append(c, b)[j] = c[j]
  BY WayGrows DEF IsTrail
<1>2. Len(c) \in Nat /\ Len(c) >= 1 /\ DOMAIN c = 1..Len(c)
  BY DEF IsTrail, IsWay
<1>3. \A i \in 1..Len(c) : b # c[i]
  BY <1>2 DEF ToSet
<1>4. \A i \in 1..(Len(c) + 1) : i = Len(c) + 1 \/ i \in 1..Len(c)
  BY <1>2
<1>5. \A i \in 2..(Len(c) + 1) : i = Len(c) + 1 \/ i \in 2..Len(c)
  BY <1>2
<1> QED BY <1>1, <1>2, <1>3, <1>4, <1>5 DEF IsTrail

LEMMA TrailEnds ==
    ASSUME NEW m, NEW q \in Requests, NEW c, IsTrail(m, q, c), Len(c) <= q.hops,
           <<c[Len(c)], To>> \in DOMAIN m
    PROVE  Append(c, To) \in ChainsOf(m, q)
<1>0. To \in Currencies /\ q.hops \in Nat
  BY RouteAssumption DEF Currencies
<1>1. /\ IsWay(m, Append(c, To)) /\ Len(Append(c, To)) = Len(c) + 1
      /\ Append(c, To)[Len(c) + 1] = To
      /\ \A j \in 1..Len(c) : Append(c, To)[j] = c[j]
  BY <1>0, WayGrows DEF IsTrail
<1>2. Len(c) \in Nat /\ Len(c) >= 1
  BY DEF IsTrail, IsWay
<1>4. \A i \in 1..(Len(c) + 1) : i = Len(c) + 1 \/ i \in 1..Len(c)
  BY <1>2
<1>5. \A i \in 2..((Len(c) + 1) - 1) : i \in 2..Len(c) /\ i \in 1..Len(c)
  BY <1>2
<1>6. IsChain(m, q, Append(c, To))
  BY <1>0, <1>1, <1>2, <1>4, <1>5 DEF IsTrail, IsChain
<1> QED BY <1>6, WhatChainsAre

LEMMA FirstOfExists ==
    ASSUME NEW T \in SUBSET Currencies, T # {}
    PROVE  FirstOf(T) \in T
<1>1. ASSUME NEW a \in Currencies PROVE IdOf(a) \in Nat
  <2>1. IdOrder \in Seq(ToSet(IdOrder))
    BY RouteAssumption
  <2>2. DOMAIN IdOrder = 1..Len(IdOrder) /\ Len(IdOrder) \in Nat
    BY <2>1
  <2>3. \E i \in DOMAIN IdOrder : IdOrder[i] = a
    BY DEF Currencies, ToSet
  <2>4. IdOf(a) \in DOMAIN IdOrder
    BY <2>3 DEF IdOf
  <2> QED BY <2>2, <2>4
<1> DEFINE S == {IdOf(a) : a \in T}
<1>2. S \subseteq Nat /\ S # {}
  BY <1>1
<1>3. PICK k \in S : \A l \in S : k <= l
  <2> HIDE DEF S
  <2> QED BY <1>2, Least
<1>4. PICK a \in T : IdOf(a) = k
  BY <1>3
<1>5. \A b \in T : IdOf(a) <= IdOf(b)
  BY <1>3, <1>4
<1> QED BY <1>5 DEF FirstOf

-----------------------------------------------------------------------------
(* The doubling for the smallest order.                                    *)

\* A recursion whose calls all have a smaller measure has a solution.
Descends(G, mu, D, V) ==
    \A f, g \in [D -> V] : \A x \in D :
        (\A y \in D : mu[y] < mu[x] => f[y] = g[y]) => G[<<f, x>>] = G[<<g, x>>]

Solves(f, G, D) == \A x \in D : f[x] = G[<<f, x>>]

LEMMA RecursionExists ==
    ASSUME NEW D, NEW V, NEW v \in V, NEW mu \in [D -> Nat], NEW top \in Nat,
           \A x \in D : mu[x] < top,
           NEW G \in [[D -> V] \X D -> V], Descends(G, mu, D, V)
    PROVE  \E f \in [D -> V] : Solves(f, G, D)
<1> DEFINE Upon(f, d) == \A x \in D : mu[x] < d => f[x] = G[<<f, x>>]
           Good(d) == \E f \in [D -> V] : Upon(f, d)
           S == {d \in Nat : Good(d)}
<1>0. \A d : d \in S <=> d \in Nat /\ Good(d)
  <2> HIDE DEF Good
  <2> QED OBVIOUS
<1> HIDE DEF S
<1>1. Good(0)
  <2>1. [x \in D |-> v] \in [D -> V]
    OBVIOUS
  <2>2. \A x \in D : ~(mu[x] < 0)
    OBVIOUS
  <2>3. Upon([x \in D |-> v], 0)
    BY <2>2
  <2> HIDE DEF Upon
  <2> QED BY <2>1, <2>3
<1>2. ASSUME NEW d \in Nat, Good(d) PROVE Good(d + 1)
  <2>1. PICK f \in [D -> V] : Upon(f, d)
    <3> HIDE DEF Upon
    <3> QED BY <1>2
  <2> DEFINE g == [x \in D |-> IF mu[x] < d THEN f[x] ELSE G[<<f, x>>]]
  <2>2. g \in [D -> V]
    OBVIOUS
  <2>3. \A y \in D : mu[y] < d => g[y] = f[y]
    OBVIOUS
  <2>4. \A y \in D : g[y] = G[<<f, y>>]
    BY <2>1
  <2>5. \A x \in D : mu[x] < d + 1 => g[x] = G[<<g, x>>]
    <3> SUFFICES ASSUME NEW x \in D, mu[x] < d + 1 PROVE g[x] = G[<<g, x>>]
      OBVIOUS
    <3> HIDE DEF g
    <3>1. \A y \in D : mu[y] < mu[x] => f[y] = g[y]
      <4>1. \A y \in D : mu[y] < mu[x] => mu[y] < d
        OBVIOUS
      <4> QED BY <2>3, <4>1
    <3>2. G[<<f, x>>] = G[<<g, x>>]
      BY <2>2, <3>1 DEF Descends
    <3> QED BY <2>4, <3>2
  <2>6. Upon(g, d + 1)
    <3> HIDE DEF g
    <3> QED BY <2>5
  <2> HIDE DEF g, Upon
  <2> QED BY <2>2, <2>6
<1>3. \A d \in Nat : Good(d)
  <2> HIDE DEF Good
  <2>1. \A d \in Nat : d \in S => d + 1 \in S
    BY <1>0, <1>2
  <2>2. 0 \in S
    BY <1>0, <1>1
  <2> QED BY <1>0, <2>1, <2>2, NatInduct
<1>4. PICK f \in [D -> V] : Upon(f, top)
  <2>1. Good(top)
    <3> HIDE DEF Good
    <3> QED BY <1>3
  <2> HIDE DEF Upon
  <2> QED BY <2>1
<1>5. Solves(f, G, D)
  BY <1>4 DEF Solves
<1> QED BY <1>5

LEMMA NothingBuysNothing ==
    ASSUME NEW levels, IsBook(levels)
    PROVE  ~Yields(levels, 0)
<1> DEFINE leg == FillTaker(levels, 0)
<1>1. leg \in Walk /\ IsBill(leg, 0)
  BY FillAddsUp
<1> HIDE DEF leg
<1>2. leg.used \in Nat /\ leg.left \in Nat /\ leg.out \in Nat
  BY <1>1 DEF Walk
<1>3. leg.used + leg.left = 0 /\ (leg.used = 0 => leg.out = 0)
  BY <1>1 DEF IsBill, Balanced
<1>4. leg.out = 0
  BY <1>2, <1>3
<1> QED BY <1>4 DEF Yields, leg

LEMMA MoreStillYields ==
    ASSUME NEW levels, IsBook(levels), NEW a \in Nat, NEW b \in Nat, a <= b, Yields(levels, a)
    PROVE  Yields(levels, b)
BY GrowingBuysNoLess DEF Yields

\* Doubling: nothing comes out at half of what it stops at, and when it does
\* not stop at all, at no size up to half the largest.
IsBracket(levels, n, h) ==
    IF h = 0
    THEN \A k \in 1..((n + 1) \div 2) : ~Yields(levels, k)
    ELSE h \in 1..n /\ Yields(levels, h) /\ ~Yields(levels, h \div 2)

DoublesFrom(f, levels, n) ==
    /\ f \in [1..n -> Nat]
    /\ \A h \in 1..n : f[h] = IF Yields(levels, h) THEN h
                              ELSE IF 2 * h > n THEN 0 ELSE f[2 * h]
    /\ Bracket(levels, n) = f[1]

LEMMA DoublingExists ==
    ASSUME NEW levels, IsBook(levels), NEW n \in Nat \ {0}
    PROVE  \E f : DoublesFrom(f, levels, n)
<1> DEFINE D == 1..n
           Step(f, h) == IF Yields(levels, h) THEN h
                         ELSE IF 2 * h > n THEN 0 ELSE f[2 * h]
           mu == [h \in D |-> n - h]
           G == [x \in [D -> Nat] \X D |-> Step(x[1], x[2])]
<1>1. \A h \in D : 2 * h > n \/ (2 * h \in D /\ n - 2 * h < n - h)
  OBVIOUS
<1>2. mu \in [D -> Nat] /\ \A h \in D : mu[h] = n - h /\ mu[h] < n
  OBVIOUS
<1>3. \A f \in [D -> Nat] : \A h \in D : Step(f, h) \in Nat
  BY <1>1
<1>4. G \in [[D -> Nat] \X D -> Nat] /\ \A f \in [D -> Nat] : \A h \in D : G[<<f, h>>] = Step(f, h)
  <2> HIDE DEF Step
  <2> QED BY <1>3
<1>5. Descends(G, mu, D, Nat)
  <2> SUFFICES ASSUME NEW f \in [D -> Nat], NEW g \in [D -> Nat], NEW x \in D,
                      \A y \in D : mu[y] < mu[x] => f[y] = g[y]
               PROVE  G[<<f, x>>] = G[<<g, x>>]
    BY DEF Descends
  <2>1. 2 * x > n \/ f[2 * x] = g[2 * x]
    BY <1>1, <1>2
  <2>2. Step(f, x) = Step(g, x)
    BY <2>1
  <2> HIDE DEF Step, G
  <2> QED BY <1>4, <2>2
<1>6. PICK f0 \in [D -> Nat] : Solves(f0, G, D)
  <2> HIDE DEF G, mu, D
  <2>1. 0 \in Nat /\ n \in Nat
    OBVIOUS
  <2> QED BY <1>2, <1>4, <1>5, <2>1, RecursionExists
<1>7. \A h \in D : f0[h] = Step(f0, h)
  <2> HIDE DEF Step, G
  <2> QED BY <1>4, <1>6 DEF Solves
<1>8. f0 = [h \in 1..n |-> Step(f0, h)]
  <2>1. f0 = [h \in 1..n |-> f0[h]]
    OBVIOUS
  <2> HIDE DEF Step
  <2> QED BY <1>7, <2>1
<1> DEFINE f1 == CHOOSE f : f = [h \in 1..n |-> Step(f, h)]
<1>9. f1 = [h \in 1..n |-> Step(f1, h)]
  <2> HIDE DEF Step
  <2> QED BY <1>8
<1>10. Bracket(levels, n) = f1[1]
  BY DEF Bracket
<1>11. PICK f : f = [h \in 1..n |-> Step(f, h)] /\ Bracket(levels, n) = f[1]
  <2> HIDE DEF f1, Step
  <2> QED BY <1>9, <1>10
<1>12. \A h \in 1..n : f[h] = Step(f, h)
  <2> HIDE DEF Step
  <2> QED BY <1>11
<1> DEFINE S == {k \in Nat : \A h \in 1..n : n - h <= k => f[h] \in Nat}
<1>13. 0 \in S
  <2> SUFFICES ASSUME NEW h \in 1..n, n - h <= 0 PROVE f[h] \in Nat
    OBVIOUS
  <2>1. 2 * h > n
    OBVIOUS
  <2> QED BY <1>12, <2>1
<1>14. ASSUME NEW k \in Nat, k \in S PROVE k + 1 \in S
  <2> SUFFICES ASSUME NEW h \in 1..n, n - h <= k + 1 PROVE f[h] \in Nat
    OBVIOUS
  <2>1. 2 * h > n \/ (2 * h \in 1..n /\ n - 2 * h <= k)
    OBVIOUS
  <2>2. 2 * h > n \/ f[2 * h] \in Nat
    BY <1>14, <2>1
  <2> QED BY <1>12, <2>2
<1>15. \A k \in Nat : k \in S
  <2> HIDE DEF S
  <2> QED BY <1>13, <1>14, NatInduct
<1>16. n \in S /\ \A h \in 1..n : n - h <= n
  <2> HIDE DEF S
  <2> QED BY <1>15
<1>17. \A h \in 1..n : f[h] \in Nat
  BY <1>16
<1>18. f \in [1..n -> Nat]
  <2> HIDE DEF Step
  <2>1. f = [h \in 1..n |-> f[h]]
    BY <1>11
  <2> QED BY <1>17, <2>1
<1>19. \A h \in 1..n : f[h] = IF Yields(levels, h) THEN h
                              ELSE IF 2 * h > n THEN 0 ELSE f[2 * h]
  BY <1>12
<1> QED BY <1>11, <1>18, <1>19 DEF DoublesFrom

LEMMA BracketBrackets ==
    ASSUME NEW levels, IsBook(levels), NEW n \in Nat \ {0}
    PROVE  Bracket(levels, n) \in Nat /\ IsBracket(levels, n, Bracket(levels, n))
<1>1. PICK f : DoublesFrom(f, levels, n)
  BY DoublingExists
<1>2. /\ f \in [1..n -> Nat] /\ Bracket(levels, n) = f[1]
      /\ \A h \in 1..n : f[h] = IF Yields(levels, h) THEN h
                                ELSE IF 2 * h > n THEN 0 ELSE f[2 * h]
  BY <1>1 DEF DoublesFrom
<1> DEFINE Fine(h) == ~Yields(levels, h \div 2) => IsBracket(levels, n, f[h])
           S == {k \in Nat : \A h \in 1..n : n - h <= k => Fine(h)}
<1>3. ASSUME NEW h \in 1..n, 2 * h \in 1..n => Fine(2 * h) PROVE Fine(h)
  <2> SUFFICES ASSUME ~Yields(levels, h \div 2) PROVE IsBracket(levels, n, f[h])
    OBVIOUS
  <2>1. CASE Yields(levels, h)
    <3>1. f[h] = h /\ h # 0
      BY <1>2, <2>1
    <3> QED BY <2>1, <3>1 DEF IsBracket
  <2>2. CASE ~Yields(levels, h) /\ 2 * h > n
    <3>1. f[h] = 0
      BY <1>2, <2>2
    <3>2. ASSUME NEW k \in 1..((n + 1) \div 2) PROVE ~Yields(levels, k)
      <4>1. k \in Nat /\ k <= h /\ h \in Nat
        BY <2>2
      <4> QED BY <2>2, <4>1, MoreStillYields
    <3> QED BY <3>1, <3>2 DEF IsBracket
  <2>3. CASE ~Yields(levels, h) /\ ~(2 * h > n)
    <3>a. 2 * h \in 1..n /\ (2 * h) \div 2 = h
      BY <2>3
    <3>1. f[h] = f[2 * h] /\ 2 * h \in 1..n /\ (2 * h) \div 2 = h
      BY <1>2, <2>3, <3>a
    <3>2. IsBracket(levels, n, f[2 * h])
      BY <1>3, <2>3, <3>1
    <3> QED BY <3>1, <3>2
  <2> QED BY <2>1, <2>2, <2>3
<1>4. 0 \in S
  <2> SUFFICES ASSUME NEW h \in 1..n, n - h <= 0 PROVE Fine(h)
    OBVIOUS
  <2>1. ~(2 * h \in 1..n)
    OBVIOUS
  <2> HIDE DEF Fine
  <2> QED BY <1>3, <2>1
<1>5. ASSUME NEW k \in Nat, k \in S PROVE k + 1 \in S
  <2> SUFFICES ASSUME NEW h \in 1..n, n - h <= k + 1 PROVE Fine(h)
    OBVIOUS
  <2>1. 2 * h \in 1..n => n - 2 * h <= k
    OBVIOUS
  <2> HIDE DEF Fine
  <2> QED BY <1>3, <1>5, <2>1
<1>6. \A k \in Nat : k \in S
  <2> HIDE DEF S
  <2> QED BY <1>4, <1>5, NatInduct
<1>7. n \in S /\ 1 \in 1..n /\ n - 1 <= n
  <2> HIDE DEF S
  <2> QED BY <1>6
<1>8. Fine(1)
  <2> HIDE DEF Fine
  <2> QED BY <1>7
<1>9. ~Yields(levels, 1 \div 2)
  <2>1. 1 \div 2 = 0
    OBVIOUS
  <2> QED BY <2>1, NothingBuysNothing
<1>10. f[1] \in Nat
  BY <1>2, <1>7
<1> QED BY <1>2, <1>8, <1>9, <1>10

-----------------------------------------------------------------------------
(* The bisection for the smallest order.                                   *)

\* Bisecting between a size that buys nothing and one that buys something.
Halve(levels, low, high) ==
    LET middle == low + (high - low) \div 2
    IN  IF Yields(levels, middle) THEN <<low, middle>> ELSE <<middle, high>>

Halves(f, levels, bottom, top) ==
    /\ f \in [(bottom..top) \X (bottom..top) -> Nat]
    /\ \A low, high \in bottom..top :
          f[<<low, high>>] = IF high - low <= 1 THEN high ELSE f[Halve(levels, low, high)]
    /\ Bisect(levels, bottom, top) = f[<<bottom, top>>]

LEMMA Middle ==
    ASSUME NEW low \in Nat, NEW high \in Nat, ~(high - low <= 1)
    PROVE  /\ low + (high - low) \div 2 \in Nat
           /\ low < low + (high - low) \div 2
           /\ low + (high - low) \div 2 < high
OBVIOUS

LEMMA HalveShrinks ==
    ASSUME NEW levels, NEW bottom \in Nat, NEW top \in Nat,
           NEW low \in bottom..top, NEW high \in bottom..top, ~(high - low <= 1)
    PROVE  \E l, h \in bottom..top :
               /\ Halve(levels, low, high) = <<l, h>>
               /\ l < h /\ h - l < high - low
               /\ Yields(levels, high) => Yields(levels, h)
               /\ ~Yields(levels, low) => ~Yields(levels, l)
<1> DEFINE middle == low + (high - low) \div 2
<1>1. middle \in Nat /\ low < middle /\ middle < high
  BY Middle
<1>2. low \in Nat /\ high \in Nat /\ bottom <= low /\ high <= top
  OBVIOUS
<1> HIDE DEF middle
<1>3. middle \in bottom..top
  BY <1>1, <1>2
<1>4. CASE Yields(levels, middle)
  <2>1. Halve(levels, low, high) = <<low, middle>>
    BY <1>4 DEF Halve, middle
  <2>2. low < middle /\ middle - low < high - low
    BY <1>1, <1>2
  <2> QED BY <1>3, <1>4, <2>1, <2>2
<1>5. CASE ~Yields(levels, middle)
  <2>1. Halve(levels, low, high) = <<middle, high>>
    BY <1>5 DEF Halve, middle
  <2>2. middle < high /\ high - middle < high - low
    BY <1>1, <1>2
  <2> QED BY <1>3, <1>5, <2>1, <2>2
<1> QED BY <1>4, <1>5

LEMMA HalvingExists ==
    ASSUME NEW levels, NEW bottom \in Nat, NEW top \in Nat
    PROVE  \E f : Halves(f, levels, bottom, top)
<1> DEFINE B == bottom..top
           D == B \X B
           Step(f, span) ==
               LET low == span[1]
                   high == span[2]
                   middle == low + (high - low) \div 2
               IN  IF high - low <= 1 THEN high
                   ELSE f[IF Yields(levels, middle)
                          THEN <<low, middle>>
                          ELSE <<middle, high>>]
           mu == [span \in D |-> IF span[2] - span[1] <= 1 THEN 0 ELSE span[2] - span[1]]
           G == [x \in [D -> Nat] \X D |-> Step(x[1], x[2])]
<1>0. \A x \in D : x[1] \in B /\ x[2] \in B /\ x = <<x[1], x[2]>>
  OBVIOUS
<1>1. \A b \in B : b \in Nat /\ b <= top
  OBVIOUS
<1>2. \A x \in D : mu[x] = IF x[2] - x[1] <= 1 THEN 0 ELSE x[2] - x[1]
  OBVIOUS
<1>3. \A x \in D : mu[x] \in Nat /\ mu[x] < top + 1
  <2> SUFFICES ASSUME NEW x \in D PROVE mu[x] \in Nat /\ mu[x] < top + 1
    OBVIOUS
  <2>1. x[1] \in Nat /\ x[2] \in Nat /\ x[2] <= top
    BY <1>0, <1>1
  <2> HIDE DEF D, mu
  <2> QED BY <1>2, <2>1
<1>4. mu \in [D -> Nat]
  <2>1. mu = [x \in D |-> mu[x]]
    OBVIOUS
  <2> HIDE DEF D, mu
  <2> QED BY <1>3, <2>1
<1>5. ASSUME NEW x \in D, ~(x[2] - x[1] <= 1)
      PROVE  Halve(levels, x[1], x[2]) \in D /\ mu[Halve(levels, x[1], x[2])] < mu[x]
  <2>1. PICK l \in bottom..top, h \in bottom..top :
            Halve(levels, x[1], x[2]) = <<l, h>> /\ l < h /\ h - l < x[2] - x[1]
    BY <1>0, <1>5, HalveShrinks
  <2>2. <<l, h>> \in D /\ mu[<<l, h>>] = IF h - l <= 1 THEN 0 ELSE h - l
    BY <2>1
  <2>3. mu[x] = x[2] - x[1]
    BY <1>2, <1>5
  <2>4. l \in Nat /\ h \in Nat /\ x[1] \in Nat /\ x[2] \in Nat
    BY <1>0, <1>1, <2>1
  <2> HIDE DEF D, mu
  <2> QED BY <1>5, <2>1, <2>2, <2>3, <2>4
<1>6. \A f : \A x \in D :
          Step(f, x) = IF x[2] - x[1] <= 1 THEN x[2] ELSE f[Halve(levels, x[1], x[2])]
  BY DEF Halve
<1>7. \A f \in [D -> Nat] : \A x \in D : Step(f, x) \in Nat
  <2> HIDE DEF Step, D
  <2> QED BY <1>0, <1>1, <1>5, <1>6
<1>8. /\ G \in [[D -> Nat] \X D -> Nat]
      /\ \A f \in [D -> Nat] : \A x \in D : G[<<f, x>>] = Step(f, x)
  <2> HIDE DEF Step, D
  <2> QED BY <1>7
<1>9. Descends(G, mu, D, Nat)
  <2> HIDE DEF D
  <2> SUFFICES ASSUME NEW f \in [D -> Nat], NEW g \in [D -> Nat], NEW x \in D,
                      \A y \in D : mu[y] < mu[x] => f[y] = g[y]
               PROVE  G[<<f, x>>] = G[<<g, x>>]
    BY DEF Descends
  <2> HIDE DEF mu, Step, G
  <2>1. Step(f, x) = Step(g, x)
    <3>1. CASE x[2] - x[1] <= 1
      BY <1>6, <3>1
    <3>2. CASE ~(x[2] - x[1] <= 1)
      <4>1. f[Halve(levels, x[1], x[2])] = g[Halve(levels, x[1], x[2])]
        BY <1>5, <3>2
      <4> QED BY <1>6, <3>2, <4>1
    <3> QED BY <3>1, <3>2
  <2> QED BY <1>8, <2>1
<1>10. PICK f0 \in [D -> Nat] : Solves(f0, G, D)
  <2> HIDE DEF G, mu, D
  <2>1. 0 \in Nat /\ top + 1 \in Nat
    OBVIOUS
  <2> QED BY <1>3, <1>4, <1>8, <1>9, <2>1, RecursionExists
<1>11. \A x \in D : f0[x] = Step(f0, x)
  <2> HIDE DEF Step, G, D
  <2> QED BY <1>8, <1>10 DEF Solves
<1>12. f0 = [x \in D |-> Step(f0, x)]
  <2>1. f0 = [x \in D |-> f0[x]]
    OBVIOUS
  <2> HIDE DEF Step, D
  <2> QED BY <1>11, <2>1
<1> DEFINE f1 == CHOOSE f : f = [x \in (bottom..top) \X (bottom..top) |-> Step(f, x)]
<1>13. f1 = [x \in D |-> Step(f1, x)]
  <2> HIDE DEF Step
  <2> QED BY <1>12
<1>14. Bisect(levels, bottom, top) = f1[<<bottom, top>>]
  BY DEF Bisect
<1>15. PICK f : f = [x \in D |-> Step(f, x)] /\ Bisect(levels, bottom, top) = f[<<bottom, top>>]
  <2> HIDE DEF f1, Step, D
  <2> QED BY <1>13, <1>14
<1>16. \A x \in D : f[x] = Step(f, x)
  <2> HIDE DEF Step, D
  <2> QED BY <1>15
<1>17. \A x \in D : f[x] = IF x[2] - x[1] <= 1 THEN x[2] ELSE f[Halve(levels, x[1], x[2])]
  <2> HIDE DEF Step, D
  <2> QED BY <1>6, <1>16
<1> DEFINE S == {k \in Nat : \A x \in D : mu[x] <= k => f[x] \in Nat}
<1>18. 0 \in S
  <2> SUFFICES ASSUME NEW x \in D, mu[x] <= 0 PROVE f[x] \in Nat
    OBVIOUS
  <2> HIDE DEF D, mu, Step
  <2>1. x[1] \in Nat /\ x[2] \in Nat
    BY <1>0, <1>1
  <2>2. x[2] - x[1] <= 1
    BY <1>2, <2>1
  <2> QED BY <1>17, <2>1, <2>2
<1>19. ASSUME NEW k \in Nat, k \in S PROVE k + 1 \in S
  <2> SUFFICES ASSUME NEW x \in D, mu[x] <= k + 1 PROVE f[x] \in Nat
    OBVIOUS
  <2> DEFINE y == Halve(levels, x[1], x[2])
  <2>1. x[1] \in Nat /\ x[2] \in Nat
    BY <1>0, <1>1
  <2>2. ASSUME ~(x[2] - x[1] <= 1) PROVE f[y] \in Nat
    <3>1. y \in D /\ mu[y] < mu[x]
      BY <1>5, <2>2
    <3>2. mu[y] \in Nat /\ mu[x] \in Nat
      BY <1>3, <3>1
    <3> HIDE DEF y, mu, D
    <3>3. mu[y] <= k
      BY <3>1, <3>2
    <3> QED BY <1>19, <3>1, <3>3
  <2> HIDE DEF D, mu, Step
  <2> QED BY <1>17, <2>1, <2>2
<1>20. \A k \in Nat : k \in S
  <2> HIDE DEF S
  <2> QED BY <1>18, <1>19, NatInduct
<1>21. \A x \in D : f[x] \in Nat
  <2> SUFFICES ASSUME NEW x \in D PROVE f[x] \in Nat
    OBVIOUS
  <2>1. mu[x] \in Nat /\ mu[x] <= mu[x]
    BY <1>3
  <2> HIDE DEF mu, D
  <2> QED BY <1>20, <2>1
<1>22. f \in [D -> Nat]
  <2> HIDE DEF Step, D
  <2>1. f = [x \in D |-> f[x]]
    BY <1>15
  <2> QED BY <1>21, <2>1
<1>23. \A low, high \in bottom..top :
          f[<<low, high>>] = IF high - low <= 1 THEN high ELSE f[Halve(levels, low, high)]
  <2> HIDE DEF Step
  <2>1. \A low, high \in bottom..top :
           <<low, high>> \in D /\ <<low, high>>[1] = low /\ <<low, high>>[2] = high
    OBVIOUS
  <2> HIDE DEF D
  <2> QED BY <1>17, <2>1
<1> QED BY <1>15, <1>22, <1>23 DEF Halves

\* The bisection ends on the border.
LEMMA BisectFinds ==
    ASSUME NEW levels, NEW bottom \in Nat, NEW top \in Nat, bottom < top,
           Yields(levels, top), ~Yields(levels, bottom)
    PROVE  LET r == Bisect(levels, bottom, top)
           IN  r \in 1..top /\ Yields(levels, r) /\ ~Yields(levels, r - 1)
<1>1. PICK f : Halves(f, levels, bottom, top)
  BY HalvingExists
<1> DEFINE Fine(r) == r \in 1..top /\ Yields(levels, r) /\ ~Yields(levels, r - 1)
           S == {k \in Nat : \A l, h \in bottom..top :
                    l < h /\ h - l <= k + 1 /\ Yields(levels, h) /\ ~Yields(levels, l) =>
                        Fine(f[<<l, h>>])}
<1>2. \A l, h \in bottom..top :
          f[<<l, h>>] = IF h - l <= 1 THEN h ELSE f[Halve(levels, l, h)]
  BY <1>1 DEF Halves
<1>3. ASSUME NEW l \in bottom..top, NEW h \in bottom..top, l < h, h - l <= 1,
             Yields(levels, h), ~Yields(levels, l)
      PROVE  Fine(f[<<l, h>>])
  <2>1. f[<<l, h>>] = h /\ h \in 1..top /\ h - 1 = l
    BY <1>2, <1>3
  <2> QED BY <1>3, <2>1
<1>4. 0 \in S
  <2> HIDE DEF Fine
  <2> QED BY <1>3
<1>5. ASSUME NEW k \in Nat, k \in S PROVE k + 1 \in S
  <2> SUFFICES ASSUME NEW l \in bottom..top, NEW h \in bottom..top,
                      l < h, h - l <= (k + 1) + 1, Yields(levels, h), ~Yields(levels, l)
               PROVE  Fine(f[<<l, h>>])
    OBVIOUS
  <2> HIDE DEF Fine
  <2>1. CASE h - l <= 1
    BY <1>3, <2>1
  <2>2. CASE ~(h - l <= 1)
    <3>1. PICK a \in bottom..top, b \in bottom..top :
              /\ Halve(levels, l, h) = <<a, b>>
              /\ a < b /\ b - a < h - l
              /\ Yields(levels, h) => Yields(levels, b)
              /\ ~Yields(levels, l) => ~Yields(levels, a)
      BY <2>2, HalveShrinks
    <3>2. b - a <= k + 1
      BY <3>1
    <3>3. Fine(f[<<a, b>>])
      BY <1>5, <3>1, <3>2
    <3> QED BY <1>2, <2>2, <3>1, <3>3
  <2> QED BY <2>1, <2>2
<1>6. \A k \in Nat : k \in S
  <2> HIDE DEF S
  <2> QED BY <1>4, <1>5, NatInduct
<1>7. top \in S /\ bottom \in bottom..top /\ top \in bottom..top /\ top - bottom <= top + 1
  <2> HIDE DEF S
  <2> QED BY <1>6
<1>8. Fine(f[<<bottom, top>>])
  <2> HIDE DEF Fine
  <2> QED BY <1>7
<1> QED BY <1>1, <1>8 DEF Halves

\* minimum_input_for_one_unit answers with the smallest order that buys a unit
\* or, when it says there is none, no order up to half of the largest quantity
\* it can count buys one (depth.rs 387-435).
THEOREM MinimumIsTheSmallest ==
    ASSUME NEW levels, IsBook(levels), Top \in Nat \ {0}
    PROVE  MinimumInput(levels, Top) \in Nat /\ IsMinimum(levels, MinimumInput(levels, Top))
<1>1. PICK h : h = Bracket(levels, Top)
  OBVIOUS
<1>2. h \in Nat /\ IsBracket(levels, Top, h)
  BY <1>1, BracketBrackets
<1>3. CASE h = 0
  <2>1. MinimumInput(levels, Top) = 0
    BY <1>1, <1>3 DEF MinimumInput
  <2> QED BY <1>2, <1>3, <2>1 DEF IsBracket, IsMinimum
<1>4. CASE h # 0
  <2> DEFINE r == Bisect(levels, h \div 2, h)
  <2>1. MinimumInput(levels, Top) = r
    BY <1>1, <1>4 DEF MinimumInput
  <2>2. h \in 1..Top /\ Yields(levels, h) /\ ~Yields(levels, h \div 2)
    BY <1>2, <1>4 DEF IsBracket
  <2>3. h \div 2 \in Nat /\ h \div 2 < h
    BY <1>2, <1>4
  <2>4. r \in 1..h /\ Yields(levels, r) /\ ~Yields(levels, r - 1)
    BY <1>2, <2>2, <2>3, BisectFinds
  <2> HIDE DEF r
  <2>5. r \in 1..Top /\ r # 0 /\ r \in Nat
    BY <1>2, <2>2, <2>4
  <2> QED BY <2>1, <2>4, <2>5 DEF IsMinimum
<1> QED BY <1>3, <1>4

-----------------------------------------------------------------------------
(* The calls of visit.                                                     *)

LEMMA EmptyIs ==
    ASSUME NEW S, NEW s \in Seq(S)
    PROVE  s = <<>> <=> Len(s) = 0
OBVIOUS

LEMMA FrontOf ==
    ASSUME NEW S, NEW s \in Seq(S), s # <<>>
    PROVE  /\ Len(s) \in Nat /\ Len(s) >= 1 /\ Len(s) \in DOMAIN s
           /\ DOMAIN s = 1..Len(s)
           /\ Last(s) = s[Len(s)] /\ Last(s) \in S
           /\ Front(s) \in Seq(S)
           /\ DOMAIN Front(s) = 1..(Len(s) - 1)
           /\ \A i \in 1..(Len(s) - 1) : Front(s)[i] = s[i]
<1>1. Len(s) \in Nat /\ Len(s) >= 1 /\ DOMAIN s = 1..Len(s)
  BY EmptyIs
<1>2. Len(s) \in DOMAIN s /\ Last(s) = s[Len(s)] /\ Last(s) \in S
  BY <1>1 DEF Last
<1>3. /\ SubSeq(s, 1, Len(s) - 1) \in Seq(S)
      /\ Len(SubSeq(s, 1, Len(s) - 1)) = Len(s) - 1
      /\ \A i \in 1..(Len(s) - 1) : SubSeq(s, 1, Len(s) - 1)[i] = s[i]
  BY <1>1
<1>4. DOMAIN SubSeq(s, 1, Len(s) - 1) = 1..(Len(s) - 1)
  BY <1>3
<1> QED BY <1>1, <1>2, <1>3, <1>4 DEF Front

LEMMA TopOf ==
    ASSUME NEW S, NEW s \in Seq(S), s # <<>>, NEW x \in S
    PROVE  LET t == [s EXCEPT ![Len(s)] = x]
           IN  /\ t \in Seq(S) /\ Len(t) = Len(s)
               /\ DOMAIN t = 1..Len(s)
               /\ t[Len(s)] = x
               /\ \A i \in 1..(Len(s) - 1) : t[i] = s[i]
<1>1. Len(s) \in Nat /\ Len(s) >= 1 /\ DOMAIN s = 1..Len(s)
  BY FrontOf
<1>2. PICK n \in Nat : n = Len(s) /\ n >= 1 /\ DOMAIN s = 1..n
  BY <1>1
<1> DEFINE t == [s EXCEPT ![n] = x]
<1>3. s \in [1..n -> S]
  BY <1>2
<1>4. t \in [1..n -> S] /\ t[n] = x /\ \A i \in 1..(n - 1) : t[i] = s[i]
  BY <1>2, <1>3
<1> HIDE DEF t
<1>5. t \in Seq(S) /\ Len(t) = n /\ DOMAIN t = 1..n
  BY <1>2, <1>4
<1> QED BY <1>2, <1>4, <1>5 DEF t

LEMMA CallIsRecord ==
    ASSUME NEW x \in CallRecords
    PROVE  /\ x.route \in Seq(Currencies) /\ x.carried \in Nat /\ x.legs \in Seq(Walk)
           /\ x.entered \in BOOLEAN /\ x.todo \in SUBSET Currencies
BY DEF CallRecords

LEMMA CallEnters ==
    ASSUME NEW m, NEW q \in Requests, NEW n, NEW x, IsCall(m, q, n, x),
           Len(x.route) <= q.hops, NEW T \in SUBSET Currencies,
           \A b \in T : <<x.route[Len(x.route)], b>> \in DOMAIN m
    PROVE  IsCall(m, q, n, [x EXCEPT !.entered = TRUE, !.todo = T])
<1> DEFINE y == [x EXCEPT !.entered = TRUE, !.todo = T]
<1>1. x \in CallRecords
  BY DEF IsCall
<1>2. /\ y \in CallRecords /\ y.route = x.route /\ y.carried = x.carried
      /\ y.legs = x.legs /\ y.entered = TRUE /\ y.todo = T
  BY <1>1 DEF CallRecords
<1> HIDE DEF y
<1>3. IsCall(m, q, n, y)
  BY <1>2 DEF IsCall
<1> QED BY <1>3 DEF y

LEMMA CallSteps ==
    ASSUME NEW m, NEW q \in Requests, NEW n, NEW x, IsCall(m, q, n, x),
           NEW T \in SUBSET x.todo
    PROVE  IsCall(m, q, n, [x EXCEPT !.todo = T])
<1> DEFINE y == [x EXCEPT !.todo = T]
<1>1. x \in CallRecords
  BY DEF IsCall
<1>2. /\ y \in CallRecords /\ y.route = x.route /\ y.carried = x.carried
      /\ y.legs = x.legs /\ y.entered = x.entered /\ y.todo = T
  BY <1>1 DEF CallRecords
<1> HIDE DEF y
<1>3. IsCall(m, q, n, y)
  BY <1>2 DEF IsCall
<1> QED BY <1>3 DEF y

\* One more leg, priced at what the call carries.
LEMMA CallLeg ==
    ASSUME NEW m \in Markets, NEW q \in Requests, NEW n \in Nat, NEW x, IsCall(m, q, n, x),
           NEW b \in x.todo
    PROVE  LET leg == FillTaker(m[<<Last(x.route), b>>], x.carried)
           IN  /\ b \in Currencies
               /\ Last(x.route) = x.route[Len(x.route)]
               /\ <<x.route[Len(x.route)], b>> \in DOMAIN m
               /\ IsWay(m, x.route)
               /\ leg \in Walk
               /\ leg.out \in Nat
               /\ Append(x.route, b) \in Seq(Currencies)
               /\ Append(x.legs, leg) \in Seq(Walk)
               /\ DeliveredIn(m, Append(x.route, b), n) = leg.out
               /\ LegsOf(m, Append(x.route, b), n) = Append(x.legs, leg)
<1> DEFINE leg == FillTaker(m[<<x.route[Len(x.route)], b>>], x.carried)
<1>1. /\ x \in CallRecords /\ IsTrail(m, q, x.route)
      /\ x.carried = DeliveredIn(m, x.route, n) /\ x.carried # 0
      /\ x.legs = LegsOf(m, x.route, n)
      /\ <<x.route[Len(x.route)], b>> \in DOMAIN m
  BY DEF IsCall
<1>2. b \in Currencies /\ x.route \in Seq(Currencies) /\ x.carried \in Nat /\ x.legs \in Seq(Walk)
  BY <1>1, CallIsRecord
<1>3. IsWay(m, x.route)
  BY <1>1 DEF IsTrail
<1>4. leg \in Walk /\ leg.out \in Nat
  BY <1>1, <1>2, LegSells
<1>5. DeliveredIn(m, Append(x.route, b), n) = leg.out
  BY <1>1, <1>2, <1>3, DeliveredStep
<1>6. LegsOf(m, Append(x.route, b), n) = Append(x.legs, leg)
  <2>1. LegsOf(m, Append(x.route, b), n) =
            Append(LegsOf(m, x.route, n),
                   FillTaker(m[<<x.route[Len(x.route)], b>>], DeliveredIn(m, x.route, n)))
    BY <1>1, <1>2, <1>3, LegsGrow
  <2> QED BY <1>1, <2>1
<1>7. Append(x.route, b) \in Seq(Currencies)
  BY <1>2
<1>8. Append(x.legs, leg) \in Seq(Walk)
  <2> HIDE DEF leg
  <2> QED BY <1>2, <1>4
<1>9. Last(x.route) = x.route[Len(x.route)]
  BY DEF Last
<1> HIDE DEF leg
<1> QED BY <1>1, <1>2, <1>3, <1>4, <1>5, <1>6, <1>7, <1>8, <1>9 DEF leg

LEMMA CallOpens ==
    ASSUME NEW m \in Markets, NEW q \in Requests, NEW n \in Nat, NEW x, IsCall(m, q, n, x),
           x.entered, NEW b \in x.todo, b # To, b \in q.allowed, b \notin ToSet(x.route),
           FillTaker(m[<<Last(x.route), b>>], x.carried).out > 0
    PROVE  LET leg == FillTaker(m[<<Last(x.route), b>>], x.carried)
           IN  IsCall(m, q, n, Call(Append(x.route, b), leg.out, Append(x.legs, leg)))
<1> DEFINE leg == FillTaker(m[<<Last(x.route), b>>], x.carried)
           y == Call(Append(x.route, b), leg.out, Append(x.legs, leg))
<1>1. /\ b \in Currencies
      /\ <<x.route[Len(x.route)], b>> \in DOMAIN m
      /\ IsWay(m, x.route)
      /\ leg \in Walk /\ leg.out \in Nat /\ leg.out > 0
      /\ Append(x.route, b) \in Seq(Currencies)
      /\ Append(x.legs, leg) \in Seq(Walk)
      /\ DeliveredIn(m, Append(x.route, b), n) = leg.out
      /\ LegsOf(m, Append(x.route, b), n) = Append(x.legs, leg)
  BY CallLeg
<1> HIDE DEF leg
<1>2. /\ y \in CallRecords /\ y.route = Append(x.route, b) /\ y.carried = leg.out
      /\ y.legs = Append(x.legs, leg) /\ y.entered = FALSE /\ y.todo = {}
  BY <1>1 DEF CallRecords, Call
<1>3. IsTrail(m, q, Append(x.route, b))
  <2>1. IsTrail(m, q, x.route)
    BY DEF IsCall
  <2> QED BY <1>1, <2>1, TrailGrows
<1>4. Len(Append(x.route, b)) = Len(x.route) + 1 /\ Len(x.route) <= q.hops /\ Len(x.route) \in Nat
  <2>1. Len(x.route) \in Nat
    BY <1>1 DEF IsWay
  <2> QED BY <1>1, <2>1, WayGrows DEF IsCall
<1>5. q.hops \in Nat
  BY RouteAssumption
<1>6. Len(Append(x.route, b)) <= q.hops + 1
  BY <1>4, <1>5
<1> HIDE DEF y
<1>7. IsCall(m, q, n, y)
  BY <1>1, <1>2, <1>3, <1>6 DEF IsCall
<1> QED BY <1>7 DEF y, leg

LEMMA PathEnds ==
    ASSUME NEW m \in Markets, NEW q \in Requests, NEW n \in Nat, NEW x, IsCall(m, q, n, x),
           x.entered, To \in x.todo,
           FillTaker(m[<<Last(x.route), To>>], x.carried).out > 0
    PROVE  LET leg == FillTaker(m[<<Last(x.route), To>>], x.carried)
           IN  IsPath(m, q, n, [route |-> Append(x.route, To), legs |-> Append(x.legs, leg)])
<1> DEFINE leg == FillTaker(m[<<Last(x.route), To>>], x.carried)
           p == [route |-> Append(x.route, To), legs |-> Append(x.legs, leg)]
<1>1. /\ <<x.route[Len(x.route)], To>> \in DOMAIN m
      /\ leg \in Walk /\ leg.out \in Nat /\ leg.out > 0
      /\ Append(x.route, To) \in Seq(Currencies)
      /\ Append(x.legs, leg) \in Seq(Walk)
      /\ DeliveredIn(m, Append(x.route, To), n) = leg.out
      /\ LegsOf(m, Append(x.route, To), n) = Append(x.legs, leg)
  BY CallLeg
<1> HIDE DEF leg
<1>2. /\ p \in [route : Seq(Currencies), legs : Seq(Walk)]
      /\ p.route = Append(x.route, To) /\ p.legs = Append(x.legs, leg)
  BY <1>1
<1>3. IsTrail(m, q, x.route) /\ Len(x.route) <= q.hops
  BY DEF IsCall
<1>4. Append(x.route, To) \in ChainsOf(m, q)
  BY <1>1, <1>3, TrailEnds
<1> HIDE DEF p
<1>5. IsPath(m, q, n, p)
  BY <1>1, <1>2, <1>4 DEF IsPath
<1> QED BY <1>5 DEF p, leg

LEMMA SearchStarts ==
    ASSUME NEW m \in Markets, NEW q \in Requests, NEW n \in 1..Top
    PROVE  /\ IsCall(m, q, n, Call(<<From>>, n, <<>>))
           /\ \A c \in ChainsOf(m, q) : Pending(c, Call(<<From>>, n, <<>>))
<1> DEFINE y == Call(<<From>>, n, <<>>)
<1>0. n \in Nat /\ n # 0 /\ q.hops \in Nat /\ q.hops >= 1
  BY RouteAssumption
<1>1. /\ <<From>> \in Seq(Currencies) /\ Len(<<From>>) = 1 /\ <<From>>[1] = From
      /\ IsWay(m, <<From>>) /\ DeliveredIn(m, <<From>>, n) = n
  BY <1>0, StartOfWay, DeliveredStart
<1>2. PICK c0 : c0 = <<From>>
  OBVIOUS
<1>3. c0 \in Seq(Currencies) /\ Len(c0) = 1 /\ c0[1] = From /\ IsWay(m, c0) /\ DeliveredIn(m, c0, n) = n
  BY <1>1, <1>2
<1>4. LegsOf(m, c0, n) = <<>>
  <2>1. LegsOf(m, c0, n) \in Seq(Walk) /\ Len(LegsOf(m, c0, n)) = 0
    <3>1. LegsOf(m, c0, n) \in Seq(Walk) /\ Len(LegsOf(m, c0, n)) = Len(c0) - 1
      BY <1>0, <1>3, LegsAreWalks
    <3>2. Len(c0) - 1 = 0
      BY <1>3
    <3> QED BY <3>1, <3>2
  <2> QED BY <2>1, EmptyIs
<1>5. PICK z : z = Call(c0, n, <<>>)
  OBVIOUS
<1>6. /\ z \in CallRecords /\ z.route = c0 /\ z.carried = n /\ z.legs = <<>>
      /\ z.entered = FALSE /\ z.todo = {}
  BY <1>0, <1>3, <1>5 DEF Call, CallRecords
<1>7. IsTrail(m, q, c0)
  <2>1. From # To
    BY RouteAssumption
  <2> QED BY <1>3, <2>1 DEF IsTrail
<1>8. IsCall(m, q, n, z)
  <2>1. Len(z.route) <= q.hops + 1
    <3>1. Len(z.route) = 1
      BY <1>3, <1>6
    <3> QED BY <1>0, <3>1
  <2> QED BY <1>0, <1>3, <1>4, <1>6, <1>7, <2>1 DEF IsCall
<1>9. ASSUME NEW c \in ChainsOf(m, q) PROVE Pending(c, z)
  <2>1. IsChain(m, q, c)
    BY WhatChainsAre
  <2>2. Len(c) >= 2 /\ c[1] = From /\ Len(c) \in Nat
    BY <1>0, <2>1 DEF IsChain
  <2>3. Len(z.route) = 1 /\ 1 < Len(c) /\ \A j \in 1..1 : c[j] = z.route[j]
    BY <1>3, <1>6, <2>2
  <2> QED BY <1>6, <2>3 DEF Pending
<1> QED BY <1>2, <1>5, <1>8, <1>9

-----------------------------------------------------------------------------
(* What a step makes of a chain still to be found.                         *)

\* A chain that passes through the first k currencies of a route.
Passes(m, q, r, k, c) ==
    /\ IsChain(m, q, c)
    /\ k \in Nat /\ k >= 1 /\ Len(c) \in Nat /\ k < Len(c) /\ k <= q.hops
    /\ \A j \in 1..k : c[j] = r[j]
    /\ c[k + 1] \in Currencies
    /\ <<r[k], c[k + 1]>> \in DOMAIN m
    /\ c[k + 1] \notin ToSet(r)
    /\ c[k + 1] = To => Len(c) = k + 1
    /\ c[k + 1] # To => k + 1 < Len(c) /\ c[k + 1] \in q.allowed

LEMMA PendingFacts ==
    ASSUME NEW m, NEW q \in Requests, NEW n, NEW x, IsCall(m, q, n, x),
           NEW c \in ChainsOf(m, q), Pending(c, x)
    PROVE  Passes(m, q, x.route, Len(x.route), c)
<1> DEFINE k == Len(x.route)
<1>1. IsChain(m, q, c)
  BY WhatChainsAre
<1>2. x.route \in Seq(Currencies) /\ k \in Nat /\ k >= 1
  BY DEF IsCall, IsTrail, IsWay
<1>3. /\ c \in Seq(Currencies) /\ Len(c) \in Nat /\ Len(c) \in 2..(q.hops + 1)
      /\ \A i \in 1..(Len(c) - 1) : <<c[i], c[i + 1]>> \in DOMAIN m
  BY <1>1 DEF IsChain, IsWay
<1>4. k < Len(c) /\ \A j \in 1..k : c[j] = x.route[j]
  BY DEF Pending
<1> HIDE DEF k
<1>5. k <= q.hops
  <2>1. q.hops \in Nat
    BY RouteAssumption
  <2> QED BY <1>2, <1>3, <1>4, <2>1
<1>6. k \in 1..(Len(c) - 1) /\ k + 1 \in 1..Len(c) /\ k \in 1..k
  BY <1>2, <1>3, <1>4
<1>7. c[k + 1] \in Currencies /\ <<x.route[k], c[k + 1]>> \in DOMAIN m
  BY <1>3, <1>4, <1>6
<1>8. c[k + 1] \notin ToSet(x.route)
  <2>1. DOMAIN x.route = 1..k
    BY <1>2 DEF k
  <2>2. ASSUME NEW j \in 1..k PROVE x.route[j] # c[k + 1]
    <3>1. j \in 1..Len(c) /\ j # k + 1
      BY <1>2, <1>3, <1>4
    <3> QED BY <1>1, <1>4, <1>6, <3>1 DEF IsChain
  <2> QED BY <2>1, <2>2 DEF ToSet
<1>9. ASSUME c[k + 1] = To PROVE Len(c) = k + 1
  <2>1. Len(c) \in 1..Len(c) /\ c[Len(c)] = To
    BY <1>1, <1>3 DEF IsChain
  <2> QED BY <1>1, <1>6, <1>9, <2>1 DEF IsChain
<1>10. ASSUME c[k + 1] # To PROVE k + 1 < Len(c) /\ c[k + 1] \in q.allowed
  <2>1. k + 1 # Len(c)
    BY <1>1, <1>10 DEF IsChain
  <2>2. k + 1 \in 2..(Len(c) - 1)
    BY <1>2, <1>3, <1>4, <2>1
  <2> QED BY <1>1, <1>2, <1>3, <2>2 DEF IsChain
<1>11. Passes(m, q, x.route, k, c)
  BY <1>1, <1>2, <1>3, <1>4, <1>5, <1>7, <1>8, <1>9, <1>10 DEF Passes
<1> QED BY <1>11 DEF k

LEMMA PendingEnters ==
    ASSUME NEW m, NEW q \in Requests, NEW n, NEW x, IsCall(m, q, n, x), NEW T,
           NEW c \in ChainsOf(m, q), Pending(c, x),
           \A b \in Currencies : <<x.route[Len(x.route)], b>> \in DOMAIN m => b \in T
    PROVE  Pending(c, [x EXCEPT !.entered = TRUE, !.todo = T])
<1> DEFINE y == [x EXCEPT !.entered = TRUE, !.todo = T]
<1>1. x \in CallRecords
  BY DEF IsCall
<1>2. y.route = x.route /\ y.todo = T
  BY <1>1 DEF CallRecords
<1> HIDE DEF y
<1>3. c[Len(x.route) + 1] \in T
  BY PendingFacts DEF Passes
<1>4. Pending(c, y)
  BY <1>2, <1>3 DEF Pending
<1> QED BY <1>4 DEF y

\* A turn of the loop leaves a chain to the rest of the loop, or it is at the
\* chain's next currency: then it is not skipped, the leg buys something, and
\* it completes the chain or the call it makes will.
LEMMA PendingTurns ==
    ASSUME NEW m \in Markets, NEW q \in Requests, NEW n \in Nat, NEW x, IsCall(m, q, n, x),
           x.entered, NEW b \in x.todo,
           NEW c \in ChainsOf(m, q), DeliveredIn(m, c, n) # 0, Pending(c, x)
    PROVE  LET leg == FillTaker(m[<<Last(x.route), b>>], x.carried)
           IN  \/ Pending(c, [x EXCEPT !.todo = @ \ {b}])
               \/ /\ b \notin ToSet(x.route)
                  /\ b = To \/ b \in q.allowed
                  /\ leg.out # 0
                  /\ b = To => c = Append(x.route, To)
                  /\ b # To =>
                        Pending(c, Call(Append(x.route, b), leg.out, Append(x.legs, leg)))
<1> DEFINE leg == FillTaker(m[<<Last(x.route), b>>], x.carried)
           k == Len(x.route)
           y == [x EXCEPT !.todo = @ \ {b}]
           z == Call(Append(x.route, b), leg.out, Append(x.legs, leg))
<1>0. x \in CallRecords
  BY DEF IsCall
<1>1. /\ IsChain(m, q, c)
      /\ k \in Nat /\ k >= 1 /\ Len(c) \in Nat /\ k < Len(c)
      /\ \A j \in 1..k : c[j] = x.route[j]
      /\ c[k + 1] \notin ToSet(x.route)
      /\ c[k + 1] = To => Len(c) = k + 1
      /\ c[k + 1] # To => k + 1 < Len(c) /\ c[k + 1] \in q.allowed
  <2>1. Passes(m, q, x.route, k, c)
    BY PendingFacts
  <2> HIDE DEF k
  <2> QED BY <2>1 DEF Passes
<1>2. c[k + 1] \in x.todo
  BY DEF Pending
<1>3. y.route = x.route /\ y.todo = x.todo \ {b}
  BY <1>0 DEF CallRecords
<1>4. /\ b \in Currencies /\ <<x.route[k], b>> \in DOMAIN m /\ IsWay(m, x.route)
      /\ DeliveredIn(m, Append(x.route, b), n) = leg.out
  BY CallLeg
<1>5. /\ IsWay(m, Append(x.route, b)) /\ Len(Append(x.route, b)) = k + 1
      /\ Append(x.route, b)[k + 1] = b
      /\ \A j \in 1..k : Append(x.route, b)[j] = x.route[j]
  BY <1>4, WayGrows
<1>6. z.route = Append(x.route, b) /\ z.entered = FALSE
  BY DEF Call
<1> HIDE DEF k, leg, y, z
<1>7. CASE c[k + 1] # b
  <2>1. Pending(c, y)
    BY <1>2, <1>3, <1>7 DEF Pending, k
  <2> QED BY <2>1 DEF y
<1>8. CASE c[k + 1] = b
  <2>1. \A j \in 1..(k + 1) : j = k + 1 \/ j \in 1..k
    BY <1>1
  <2>2. \A j \in 1..(k + 1) : Append(x.route, b)[j] = c[j]
    BY <1>1, <1>5, <1>8, <2>1
  <2>3. k + 1 <= Len(c)
    BY <1>1
  <2>4. leg.out # 0
    <3>1. IsWay(m, c)
      BY <1>1 DEF IsChain
    <3>2. PICK d : d = Append(x.route, b)
      OBVIOUS
    <3>3. IsWay(m, d) /\ Len(d) <= Len(c) /\ \A j \in 1..Len(d) : d[j] = c[j]
      BY <1>5, <2>2, <2>3, <3>2
    <3>4. DeliveredIn(m, d, n) # 0
      BY <3>1, <3>3, DeliveredBefore
    <3> QED BY <1>4, <3>2, <3>4
  <2>5. ASSUME b = To PROVE c = Append(x.route, To)
    <3>1. c \in Seq(Currencies) /\ Append(x.route, b) \in Seq(Currencies) /\ Len(c) = k + 1
      BY <1>1, <1>5, <1>8, <2>5 DEF IsChain, IsWay
    <3>2. c = Append(x.route, b)
      BY <1>5, <2>2, <3>1, SameSeq
    <3> QED BY <2>5, <3>2
  <2>6. ASSUME b # To PROVE Pending(c, z)
    BY <1>1, <1>5, <1>6, <1>8, <2>2, <2>6 DEF Pending
  <2> QED BY <1>1, <1>8, <2>4, <2>5, <2>6 DEF z, leg
<1> QED BY <1>7, <1>8

-----------------------------------------------------------------------------
(* Where captured pairs lead.                                              *)

ReachedIn(m, q, n) ==
    LET within[k \in 0..n] ==
            IF k = 0 THEN {From}
            ELSE within[k - 1] \cup
                 {b \in q.allowed : \E a \in within[k - 1] : <<a, b>> \in DOMAIN m}
    IN  within[n]

IsPricedIn(m, q) == \E a \in ReachedIn(m, q, q.hops - 1) : <<a, To>> \in DOMAIN m

LEMMA SamePriced == IsPricedRoute = IsPricedIn(market, request)
BY DEF IsPricedRoute, IsPricedIn, Reached, ReachedIn

Wider(m, q, w) == w \cup {b \in q.allowed : \E a \in w : <<a, b>> \in DOMAIN m}

Spreads(f, m, q, n) ==
    /\ f \in [0..n -> SUBSET Currencies]
    /\ f[0] = {From}
    /\ \A k \in 1..n : f[k] = Wider(m, q, f[k - 1])
    /\ ReachedIn(m, q, n) = f[n]

LEMMA SpreadExists ==
    ASSUME NEW m \in Markets, NEW q, NEW n \in Nat
    PROVE  \E f : Spreads(f, m, q, n)
<1> DEFINE W == SUBSET Currencies
           More(w) == w \cup {b \in q.allowed : \E a \in w : <<a, b>> \in DOMAIN m}
           G == [x \in W \X (1..n) |-> More(x[1])]
           Step(f, k) == IF k = 0 THEN {From} ELSE More(f[k - 1])
<1>1. DOMAIN m \subseteq Currencies \X Currencies
  BY RouteAssumption DEF Currencies
<1>2. \A w \in W : More(w) \in W
  <2>1. \A a, b : <<a, b>> \in DOMAIN m => b \in Currencies
    BY <1>1
  <2> QED BY <2>1
<1>3. G \in [W \X (1..n) -> W] /\ \A w \in W : \A k \in 1..n : G[<<w, k>>] = More(w)
  <2> HIDE DEF More, W
  <2> QED BY <1>2
<1>4. {From} \in W
  BY StartOfWay
<1>5. PICK g \in [0..n -> W] : IsRec(g, n, {From}, G)
  <2> HIDE DEF G, W
  <2> QED BY <1>3, <1>4, RecExists
<1>6. \A k \in 0..n : g[k] = Step(g, k)
  <2> SUFFICES ASSUME NEW k \in 0..n PROVE g[k] = Step(g, k)
    OBVIOUS
  <2>1. CASE k = 0
    BY <1>5, <2>1 DEF IsRec
  <2>2. CASE k # 0
    <3>1. k \in 1..n /\ k - 1 \in 0..n
      BY <2>2
    <3>2. g[k] = G[<<g[k - 1], k>>] /\ g[k - 1] \in W
      <4> HIDE DEF G, W
      <4> QED BY <1>5, <3>1 DEF IsRec
    <3> HIDE DEF G, W, More
    <3> QED BY <1>3, <2>2, <3>1, <3>2
  <2> QED BY <2>1, <2>2
<1>7. g = [k \in 0..n |-> Step(g, k)]
  <2>1. g = [k \in 0..n |-> g[k]]
    OBVIOUS
  <2> HIDE DEF Step
  <2> QED BY <1>6, <2>1
<1> DEFINE f1 == CHOOSE f : f = [k \in 0..n |-> Step(f, k)]
<1>8. f1 = [k \in 0..n |-> Step(f1, k)]
  <2> HIDE DEF Step
  <2> QED BY <1>7
<1>9. ReachedIn(m, q, n) = f1[n]
  BY DEF ReachedIn
<1>10. PICK f : f = [k \in 0..n |-> Step(f, k)] /\ ReachedIn(m, q, n) = f[n]
  <2> HIDE DEF f1, Step
  <2> QED BY <1>8, <1>9
<1>11. \A k \in 0..n : f[k] = Step(f, k)
  <2> HIDE DEF Step
  <2> QED BY <1>10
<1>12. f[0] = {From} /\ \A k \in 1..n : f[k] = More(f[k - 1])
  <2>1. 0 \in 0..n /\ \A k \in 1..n : k \in 0..n /\ k # 0
    OBVIOUS
  <2> HIDE DEF More
  <2> QED BY <1>11, <2>1
<1> DEFINE S == {k \in Nat : k \in 0..n => f[k] \in W}
<1>13. 0 \in S
  BY <1>4, <1>12
<1>14. ASSUME NEW k \in Nat, k \in S PROVE k + 1 \in S
  <2> SUFFICES ASSUME k + 1 \in 0..n PROVE f[k + 1] \in W
    OBVIOUS
  <2>1. k \in 0..n /\ k + 1 \in 1..n /\ (k + 1) - 1 = k
    OBVIOUS
  <2>2. f[k] \in W /\ f[k + 1] = More(f[k])
    <3> HIDE DEF More, W
    <3> QED BY <1>12, <1>14, <2>1
  <2> HIDE DEF More, W
  <2> QED BY <1>2, <2>2
<1>15. \A k \in Nat : k \in S
  <2> HIDE DEF S
  <2> QED BY <1>13, <1>14, NatInduct
<1>16. f \in [0..n -> W]
  <2>1. f = [k \in 0..n |-> f[k]]
    <3> HIDE DEF Step
    <3> QED BY <1>10
  <2>2. \A k \in 0..n : f[k] \in W
    BY <1>15
  <2> HIDE DEF W
  <2> QED BY <2>1, <2>2
<1> QED BY <1>10, <1>12, <1>16 DEF Spreads, Wider

\* A trail that leads to a currency in at most k steps.
LeadsTo(m, q, k, b) ==
    \E c : IsTrail(m, q, c) /\ Len(c) <= k + 1 /\ c[Len(c)] = b

LEMMA TrailStart ==
    ASSUME NEW m \in Markets, NEW q
    PROVE  IsTrail(m, q, <<From>>)
<1>1. PICK c0 : c0 = <<From>>
  OBVIOUS
<1>2. c0 \in Seq(Currencies) /\ Len(c0) = 1 /\ c0[1] = From
  BY <1>1, StartOfWay
<1>3. IsWay(m, c0)
  BY <1>1, 0 \in Nat, DeliveredStart
<1>4. From # To
  BY RouteAssumption
<1>5. IsTrail(m, q, c0)
  BY <1>2, <1>3, <1>4 DEF IsTrail
<1> QED BY <1>1, <1>5

LEMMA TrailUpto ==
    ASSUME NEW m, NEW q, NEW c, IsTrail(m, q, c), NEW k \in 1..Len(c)
    PROVE  /\ IsTrail(m, q, Upto(c, k))
           /\ Len(Upto(c, k)) = k
           /\ Upto(c, k)[k] = c[k]
<1>1. IsWay(m, c)
  BY DEF IsTrail
<1>2. /\ IsWay(m, Upto(c, k)) /\ Len(Upto(c, k)) = k
      /\ \A j \in 1..k : Upto(c, k)[j] = c[j]
  BY <1>1, UptoIsWay
<1>3. Len(c) \in Nat /\ k \in Nat /\ k >= 1 /\ k <= Len(c)
  BY <1>1 DEF IsWay
<1>4. /\ 1 \in 1..k /\ k \in 1..k
      /\ \A j \in 1..k : j \in 1..Len(c)
      /\ \A j \in 2..k : j \in 2..Len(c) /\ j \in 1..k
  BY <1>3
<1> QED BY <1>2, <1>4 DEF IsTrail

LEMMA ReachedLeads ==
    ASSUME NEW m \in Markets, NEW q \in Requests, ChainsOf(m, q) = {},
           NEW n \in Nat, n < q.hops
    PROVE  \A b \in ReachedIn(m, q, n) : LeadsTo(m, q, n, b)
<1>1. PICK f : Spreads(f, m, q, n)
  BY SpreadExists
<1>2. /\ f \in [0..n -> SUBSET Currencies] /\ f[0] = {From} /\ ReachedIn(m, q, n) = f[n]
      /\ \A k \in 1..n : f[k] = Wider(m, q, f[k - 1])
  BY <1>1 DEF Spreads
<1>h. q.hops \in Nat
  BY RouteAssumption
<1> DEFINE S == {k \in Nat : k <= n => \A b \in f[k] : LeadsTo(m, q, k, b)}
<1>3. 0 \in S
  <2>1. PICK c0 : c0 = <<From>>
    OBVIOUS
  <2>2. IsTrail(m, q, c0) /\ Len(c0) = 1 /\ c0[1] = From
    BY <2>1, TrailStart, StartOfWay
  <2>3. LeadsTo(m, q, 0, From)
    <3>1. Len(c0) <= 0 + 1 /\ c0[Len(c0)] = From
      BY <2>2
    <3> QED BY <2>2, <3>1 DEF LeadsTo
  <2> QED BY <1>2, <2>3
<1>4. ASSUME NEW k \in Nat, k \in S PROVE k + 1 \in S
  <2> SUFFICES ASSUME k + 1 <= n, NEW b \in f[k + 1] PROVE LeadsTo(m, q, k + 1, b)
    OBVIOUS
  <2>1. k + 1 \in 1..n /\ (k + 1) - 1 = k /\ k <= n /\ k \in 0..n /\ k + 1 \in 0..n
    BY <1>4
  <2>2. f[k + 1] = Wider(m, q, f[k])
    BY <1>2, <2>1
  <2>3. \A a \in f[k] : LeadsTo(m, q, k, a)
    BY <1>4, <2>1
  <2>b. b \in Currencies
    <3>1. f[k + 1] \in SUBSET Currencies
      BY <1>2, <2>1
    <3> QED BY <3>1
  <2>4. CASE b \in f[k]
    <3>1. PICK c : IsTrail(m, q, c) /\ Len(c) <= k + 1 /\ c[Len(c)] = b
      BY <2>3, <2>4 DEF LeadsTo
    <3>2. Len(c) \in Nat
      BY <3>1 DEF IsTrail, IsWay
    <3>3. Len(c) <= (k + 1) + 1
      BY <3>1, <3>2
    <3> QED BY <3>1, <3>3 DEF LeadsTo
  <2>5. CASE b \notin f[k]
    <3>1. PICK a \in f[k] : <<a, b>> \in DOMAIN m /\ b \in q.allowed
      BY <2>2, <2>5 DEF Wider
    <3>2. PICK c : IsTrail(m, q, c) /\ Len(c) <= k + 1 /\ c[Len(c)] = a
      BY <2>3 DEF LeadsTo
    <3>3. IsWay(m, c) /\ Len(c) \in Nat /\ Len(c) >= 1 /\ DOMAIN c = 1..Len(c)
      BY <3>2 DEF IsTrail, IsWay
    <3>4. CASE b = To
      <4>1. Len(c) <= q.hops
        BY <1>h, <2>1, <3>2, <3>3
      <4>2. <<c[Len(c)], To>> \in DOMAIN m
        BY <3>1, <3>2, <3>4
      <4>3. Append(c, To) \in ChainsOf(m, q)
        BY <3>2, <4>1, <4>2, TrailEnds
      <4> QED BY <4>3
    <3>5. CASE b # To /\ b \in ToSet(c)
      <4>1. PICK i \in 1..Len(c) : c[i] = b
        BY <3>3, <3>5 DEF ToSet
      <4>2. IsTrail(m, q, Upto(c, i)) /\ Len(Upto(c, i)) = i /\ Upto(c, i)[i] = b
        BY <3>2, <4>1, TrailUpto
      <4>3. i <= (k + 1) + 1
        BY <3>2, <3>3, <4>1
      <4>4. PICK d : d = Upto(c, i)
        OBVIOUS
      <4>5. IsTrail(m, q, d) /\ Len(d) <= (k + 1) + 1 /\ d[Len(d)] = b
        BY <4>2, <4>3, <4>4
      <4> QED BY <4>5 DEF LeadsTo
    <3>6. CASE b # To /\ b \notin ToSet(c)
      <4>1. <<c[Len(c)], b>> \in DOMAIN m
        BY <3>1, <3>2
      <4>2. IsTrail(m, q, Append(c, b))
        BY <2>b, <3>1, <3>2, <3>6, <4>1, TrailGrows
      <4>3. Len(Append(c, b)) = Len(c) + 1 /\ Append(c, b)[Len(c) + 1] = b
        BY <2>b, <3>3, <4>1, WayGrows
      <4>4. Len(c) + 1 <= (k + 1) + 1
        BY <3>2, <3>3
      <4>5. PICK d : d = Append(c, b)
        OBVIOUS
      <4>6. IsTrail(m, q, d) /\ Len(d) <= (k + 1) + 1 /\ d[Len(d)] = b
        BY <4>2, <4>3, <4>4, <4>5
      <4> QED BY <4>6 DEF LeadsTo
    <3> QED BY <3>4, <3>5, <3>6
  <2> QED BY <2>4, <2>5
<1>5. \A k \in Nat : k \in S
  <2> HIDE DEF S
  <2> QED BY <1>3, <1>4, NatInduct
<1>6. n <= n /\ n \in S
  <2> HIDE DEF S
  <2> QED BY <1>5
<1> QED BY <1>2, <1>6

LEMMA PricedHasChain ==
    ASSUME NEW m \in Markets, NEW q \in Requests, IsPricedIn(m, q)
    PROVE  ChainsOf(m, q) # {}
<1>1. q.hops \in Nat /\ q.hops >= 1
  BY RouteAssumption
<1>2. q.hops - 1 \in Nat /\ q.hops - 1 < q.hops /\ (q.hops - 1) + 1 = q.hops
  BY <1>1
<1> SUFFICES ASSUME ChainsOf(m, q) = {} PROVE FALSE
  OBVIOUS
<1>3. PICK a \in ReachedIn(m, q, q.hops - 1) : <<a, To>> \in DOMAIN m
  BY DEF IsPricedIn
<1>4. LeadsTo(m, q, q.hops - 1, a)
  BY <1>2, <1>3, ReachedLeads
<1>5. PICK c : IsTrail(m, q, c) /\ Len(c) <= q.hops /\ c[Len(c)] = a
  BY <1>2, <1>4 DEF LeadsTo
<1>6. Append(c, To) \in ChainsOf(m, q)
  BY <1>3, <1>5, TrailEnds
<1> QED BY <1>6

LEMMA ChainIsPriced ==
    ASSUME NEW m \in Markets, NEW q \in Requests, NEW c \in ChainsOf(m, q)
    PROVE  IsPricedIn(m, q)
<1>1. q.hops \in Nat /\ q.hops >= 1
  BY RouteAssumption
<1>2. IsChain(m, q, c)
  BY WhatChainsAre
<1>3. /\ c \in Seq(Currencies) /\ Len(c) \in Nat /\ 2 <= Len(c) /\ Len(c) <= q.hops + 1
      /\ c[1] = From /\ c[Len(c)] = To
      /\ \A i \in 2..(Len(c) - 1) : c[i] \in q.allowed
      /\ \A i \in 1..(Len(c) - 1) : <<c[i], c[i + 1]>> \in DOMAIN m
  BY <1>1, <1>2 DEF IsChain, IsWay
<1> DEFINE n == q.hops - 1
           last == Len(c) - 1
<1>4. n \in Nat /\ last \in Nat /\ last >= 1 /\ last - 1 <= n
  BY <1>1, <1>3
<1>a. /\ c[1] = From /\ <<c[last], To>> \in DOMAIN m
      /\ \A i \in 2..last : c[i] \in q.allowed
      /\ \A i \in 1..last : <<c[i], c[i + 1]>> \in DOMAIN m
  <2>1. last \in 1..last /\ last + 1 = Len(c)
    BY <1>3
  <2> QED BY <1>3, <2>1
<1> HIDE DEF n, last
<1>5. PICK f : Spreads(f, m, q, n)
  BY <1>4, SpreadExists
<1>6. /\ f[0] = {From} /\ ReachedIn(m, q, n) = f[n]
      /\ \A k \in 1..n : f[k] = Wider(m, q, f[k - 1])
  BY <1>5 DEF Spreads
<1> DEFINE S == {k \in Nat : k + 1 \in 1..last => c[k + 1] \in f[k]}
           T == {k \in Nat : (last - 1) + k \in 0..n => c[last] \in f[(last - 1) + k]}
<1>7. 0 \in S
  BY <1>6, <1>a
<1>8. ASSUME NEW k \in Nat, k \in S PROVE k + 1 \in S
  <2> SUFFICES ASSUME (k + 1) + 1 \in 1..last PROVE c[(k + 1) + 1] \in f[k + 1]
    OBVIOUS
  <2>1. /\ k + 1 \in 1..last /\ (k + 1) + 1 \in 2..last /\ k + 1 \in 1..n
        /\ (k + 1) - 1 = k
    BY <1>4
  <2>2. c[k + 1] \in f[k] /\ c[(k + 1) + 1] \in q.allowed /\ <<c[k + 1], c[(k + 1) + 1]>> \in DOMAIN m
    BY <1>a, <1>8, <2>1
  <2>3. f[k + 1] = Wider(m, q, f[k])
    BY <1>6, <2>1
  <2> QED BY <2>2, <2>3 DEF Wider
<1>9. \A k \in Nat : k \in S
  <2> HIDE DEF S
  <2> QED BY <1>7, <1>8, NatInduct
<1>10. c[last] \in f[last - 1]
  <2>1. last - 1 \in S /\ (last - 1) + 1 = last /\ last \in 1..last
    <3> HIDE DEF S
    <3> QED BY <1>4, <1>9
  <2> QED BY <2>1
<1>11. 0 \in T
  <2>1. (last - 1) + 0 = last - 1
    BY <1>4
  <2> QED BY <1>10, <2>1
<1>12. ASSUME NEW k \in Nat, k \in T PROVE k + 1 \in T
  <2> SUFFICES ASSUME (last - 1) + (k + 1) \in 0..n PROVE c[last] \in f[(last - 1) + (k + 1)]
    OBVIOUS
  <2>1. /\ (last - 1) + (k + 1) \in 1..n /\ (last - 1) + k \in 0..n
        /\ ((last - 1) + (k + 1)) - 1 = (last - 1) + k
    BY <1>4
  <2>2. c[last] \in f[(last - 1) + k]
    BY <1>12, <2>1
  <2>3. f[(last - 1) + k] \subseteq f[(last - 1) + (k + 1)]
    <3>1. f[(last - 1) + (k + 1)] = Wider(m, q, f[(last - 1) + k])
      BY <1>6, <2>1
    <3> QED BY <3>1 DEF Wider
  <2> QED BY <2>2, <2>3
<1>13. \A k \in Nat : k \in T
  <2> HIDE DEF T
  <2> QED BY <1>11, <1>12, NatInduct
<1>14. c[last] \in f[n]
  <2>1. /\ n - (last - 1) \in Nat /\ (last - 1) + (n - (last - 1)) = n /\ n \in 0..n
    BY <1>4
  <2>2. n - (last - 1) \in T
    <3> HIDE DEF T
    <3> QED BY <1>13, <2>1
  <2> QED BY <2>1, <2>2
<1> QED BY <1>6, <1>14, <1>a DEF IsPricedIn, n

\* The direct pair as a chain.
LEMMA DirectIs ==
    ASSUME NEW m \in Markets, NEW q \in Requests, NEW n \in Nat
    PROVE  /\ (<<From, To>> \in ChainsOf(m, q) /\ DeliveredIn(m, <<From, To>>, n) > 0)
                <=> Direct(m, n)
           /\ Direct(m, n) => Buys(m, q, n)
<1>0. To \in Currencies /\ q.hops \in Nat /\ q.hops >= 1
  BY RouteAssumption DEF Currencies
<1>1. PICK c0 : c0 = <<From>>
  OBVIOUS
<1>2. c0 \in Seq(Currencies) /\ Len(c0) = 1 /\ c0[1] = From /\ IsTrail(m, q, c0)
      /\ IsWay(m, c0) /\ DeliveredIn(m, c0, n) = n
  BY <1>1, StartOfWay, TrailStart, DeliveredStart
<1>3. PICK c : c = <<From, To>>
  OBVIOUS
<1>4. c = Append(c0, To) /\ Len(c) = 2 /\ c[1] = From /\ c[2] = To
  BY <1>1, <1>3
<1>5. ASSUME c \in ChainsOf(m, q) PROVE <<From, To>> \in DOMAIN m
  <2>1. IsChain(m, q, c)
    BY <1>5, WhatChainsAre
  <2>2. 1 \in 1..(Len(c) - 1)
    BY <1>4
  <2>3. <<c[1], c[1 + 1]>> \in DOMAIN m
    BY <2>1, <2>2 DEF IsChain, IsWay
  <2> QED BY <1>4, <2>3
<1>6. ASSUME <<From, To>> \in DOMAIN m
      PROVE  /\ c \in ChainsOf(m, q)
             /\ DeliveredIn(m, c, n) > 0 <=> Yields(m[<<From, To>>], n)
             /\ DeliveredIn(m, c, n) \in Nat
  <2>1. <<c0[Len(c0)], To>> \in DOMAIN m /\ c0[Len(c0)] = From /\ Len(c0) <= q.hops
    BY <1>0, <1>2, <1>6
  <2>2. c \in ChainsOf(m, q)
    BY <1>2, <1>4, <2>1, TrailEnds
  <2>3. DeliveredIn(m, Append(c0, To), n) =
           IF DeliveredIn(m, c0, n) = 0 THEN 0
           ELSE FillTaker(m[<<c0[Len(c0)], To>>], DeliveredIn(m, c0, n)).out
    BY <1>0, <1>2, <2>1, DeliveredStep
  <2>4. DeliveredIn(m, c, n) = IF n = 0 THEN 0 ELSE FillTaker(m[<<From, To>>], n).out
    BY <1>2, <1>4, <2>1, <2>3
  <2>5. IsBook(m[<<From, To>>]) /\ FillTaker(m[<<From, To>>], n).out \in Nat
    BY <1>6, LegSells
  <2>6. n = 0 => ~Yields(m[<<From, To>>], n)
    BY <2>5, NothingBuysNothing
  <2>7. DeliveredIn(m, c, n) \in Nat
    BY <2>4, <2>5
  <2>8. DeliveredIn(m, c, n) > 0 <=> Yields(m[<<From, To>>], n)
    BY <2>4, <2>5, <2>6 DEF Yields
  <2> QED BY <2>2, <2>7, <2>8
<1>7. (c \in ChainsOf(m, q) /\ DeliveredIn(m, c, n) > 0) <=> Direct(m, n)
  BY <1>5, <1>6 DEF Direct
<1>8. Direct(m, n) => Buys(m, q, n)
  <2> SUFFICES ASSUME Direct(m, n) PROVE Buys(m, q, n)
    OBVIOUS
  <2>1. c \in ChainsOf(m, q) /\ DeliveredIn(m, c, n) > 0 /\ DeliveredIn(m, c, n) \in Nat
    BY <1>6, <1>7 DEF Direct
  <2>2. DeliveredIn(m, c, n) # 0
    BY <2>1
  <2> QED BY <2>1, <2>2 DEF Buys
<1> QED BY <1>3, <1>7, <1>8

-----------------------------------------------------------------------------
(* Stacks and collected routes of which every element means something.     *)

LEMMA LastOrBefore ==
    ASSUME NEW k \in Nat
    PROVE  \A i \in 1..k : i = k \/ i \in 1..(k - 1)
OBVIOUS

LEMMA AllFront ==
    ASSUME NEW m, NEW q, NEW n, NEW calls, AllCalls(m, q, n, calls), calls # <<>>
    PROVE  AllCalls(m, q, n, Front(calls))
<1>1. calls \in Seq(CallRecords) /\ \A i \in DOMAIN calls : IsCall(m, q, n, calls[i])
  BY DEF AllCalls
<1>2. /\ Len(calls) \in Nat /\ DOMAIN calls = 1..Len(calls)
      /\ Front(calls) \in Seq(CallRecords) /\ DOMAIN Front(calls) = 1..(Len(calls) - 1)
      /\ \A i \in 1..(Len(calls) - 1) : Front(calls)[i] = calls[i]
  BY <1>1, FrontOf
<1>3. \A i \in 1..(Len(calls) - 1) : i \in 1..Len(calls)
  BY <1>2
<1> QED BY <1>1, <1>2, <1>3 DEF AllCalls

LEMMA AllTop ==
    ASSUME NEW m, NEW q, NEW n, NEW calls, AllCalls(m, q, n, calls), calls # <<>>,
           NEW x, IsCall(m, q, n, x)
    PROVE  AllCalls(m, q, n, [calls EXCEPT ![Len(calls)] = x])
<1> DEFINE t == [calls EXCEPT ![Len(calls)] = x]
<1>1. calls \in Seq(CallRecords) /\ \A i \in DOMAIN calls : IsCall(m, q, n, calls[i])
  BY DEF AllCalls
<1>2. x \in CallRecords
  BY DEF IsCall
<1>3. Len(calls) \in Nat /\ DOMAIN calls = 1..Len(calls)
  BY <1>1, FrontOf
<1>4. /\ t \in Seq(CallRecords) /\ DOMAIN t = 1..Len(calls) /\ t[Len(calls)] = x
      /\ \A i \in 1..(Len(calls) - 1) : t[i] = calls[i]
  BY <1>1, <1>2, TopOf
<1>5. \A i \in 1..Len(calls) : i = Len(calls) \/ i \in 1..(Len(calls) - 1)
  BY <1>3, LastOrBefore
<1> HIDE DEF t
<1>6. AllCalls(m, q, n, t)
  BY <1>1, <1>3, <1>4, <1>5 DEF AllCalls
<1> QED BY <1>6 DEF t

LEMMA AllMore ==
    ASSUME NEW m, NEW q, NEW n, NEW calls, AllCalls(m, q, n, calls),
           NEW x, IsCall(m, q, n, x)
    PROVE  AllCalls(m, q, n, Append(calls, x))
<1>1. calls \in Seq(CallRecords) /\ \A i \in DOMAIN calls : IsCall(m, q, n, calls[i])
  BY DEF AllCalls
<1>2. x \in CallRecords
  BY DEF IsCall
<1>3. PICK k \in Nat : Len(calls) = k /\ DOMAIN calls = 1..k
  BY <1>1
<1>4. /\ Append(calls, x) \in Seq(CallRecords) /\ DOMAIN Append(calls, x) = 1..(k + 1)
      /\ Append(calls, x)[k + 1] = x
      /\ \A i \in 1..k : Append(calls, x)[i] = calls[i]
  BY <1>1, <1>2, <1>3
<1>5. \A i \in 1..(k + 1) : i = k + 1 \/ i \in 1..k
  BY <1>3
<1> QED BY <1>1, <1>2, <1>3, <1>4, <1>5 DEF AllCalls

LEMMA MorePaths ==
    ASSUME NEW m, NEW q, NEW n, NEW found, AllPaths(m, q, n, found),
           NEW p, IsPath(m, q, n, p)
    PROVE  /\ AllPaths(m, q, n, Append(found, p))
           /\ \A c : Found(c, found) => Found(c, Append(found, p))
           /\ Found(p.route, Append(found, p))
<1> DEFINE P == [route : Seq(Currencies), legs : Seq(Walk)]
<1>1. found \in Seq(P) /\ \A i \in DOMAIN found : IsPath(m, q, n, found[i])
  BY DEF AllPaths
<1>2. p \in P
  BY DEF IsPath
<1> HIDE DEF P
<1>3. PICK k \in Nat : Len(found) = k /\ DOMAIN found = 1..k
  BY <1>1
<1>4. /\ Append(found, p) \in Seq(P) /\ DOMAIN Append(found, p) = 1..(k + 1)
      /\ Append(found, p)[k + 1] = p
      /\ \A i \in 1..k : Append(found, p)[i] = found[i]
  BY <1>1, <1>2, <1>3
<1>5. \A i \in 1..(k + 1) : i = k + 1 \/ i \in 1..k
  BY <1>3
<1>6. AllPaths(m, q, n, Append(found, p))
  BY <1>1, <1>2, <1>3, <1>4, <1>5 DEF AllPaths, P
<1>7. k + 1 \in 1..(k + 1) /\ \A i \in 1..k : i \in 1..(k + 1)
  BY <1>3
<1>8. p \in ToSet(Append(found, p)) /\ \A r \in ToSet(found) : r \in ToSet(Append(found, p))
  BY <1>3, <1>4, <1>7 DEF ToSet
<1> QED BY <1>6, <1>8 DEF Found

\* Below the innermost call nothing changes: only its chains are to be
\* accounted for.
LEMMA CompleteStays ==
    ASSUME NEW m, NEW q, NEW n, NEW calls, AllCalls(m, q, n, calls), calls # <<>>,
           NEW found, Complete(m, q, n, calls, found),
           NEW calls2, NEW found2,
           \A c : Found(c, found) => Found(c, found2),
           \A i \in 1..(Len(calls) - 1) : i \in DOMAIN calls2 /\ calls2[i] = calls[i],
           \A c \in ChainsOf(m, q) :
               DeliveredIn(m, c, n) # 0 /\ Pending(c, Last(calls)) =>
                   Found(c, found2) \/ \E i \in DOMAIN calls2 : Pending(c, calls2[i])
    PROVE  Complete(m, q, n, calls2, found2)
<1>1. calls \in Seq(CallRecords)
  BY DEF AllCalls
<1>2. /\ Len(calls) \in Nat /\ DOMAIN calls = 1..Len(calls)
      /\ Last(calls) = calls[Len(calls)]
  BY <1>1, FrontOf
<1>3. \A i \in 1..Len(calls) : i = Len(calls) \/ i \in 1..(Len(calls) - 1)
  BY <1>2, LastOrBefore
<1> SUFFICES ASSUME NEW c \in ChainsOf(m, q), DeliveredIn(m, c, n) # 0
             PROVE  Found(c, found2) \/ \E i \in DOMAIN calls2 : Pending(c, calls2[i])
  BY DEF Complete
<1>4. CASE Found(c, found)
  BY <1>4
<1>5. CASE \E i \in DOMAIN calls : Pending(c, calls[i])
  <2>1. PICK i \in DOMAIN calls : Pending(c, calls[i])
    BY <1>5
  <2>2. CASE i = Len(calls)
    BY <1>2, <2>1, <2>2
  <2>3. CASE i # Len(calls)
    <3>1. i \in 1..(Len(calls) - 1)
      BY <1>2, <1>3, <2>3
    <3> QED BY <2>1, <3>1
  <2> QED BY <2>2, <2>3
<1> QED BY <1>4, <1>5 DEF Complete

LEMMA SearchBegins ==
    ASSUME NEW m \in Markets, NEW q \in Requests, NEW n \in 1..Top
    PROVE  /\ AllCalls(m, q, n, <<Call(<<From>>, n, <<>>)>>)
           /\ AllPaths(m, q, n, <<>>)
           /\ Complete(m, q, n, <<Call(<<From>>, n, <<>>)>>, <<>>)
<1>1. PICK x : x = Call(<<From>>, n, <<>>)
  OBVIOUS
<1>2. IsCall(m, q, n, x) /\ \A c \in ChainsOf(m, q) : Pending(c, x)
  BY <1>1, SearchStarts
<1>3. x \in CallRecords
  BY <1>2 DEF IsCall
<1>4. PICK s : s = <<x>>
  OBVIOUS
<1>5. s \in Seq(CallRecords) /\ DOMAIN s = 1..1 /\ s[1] = x
  BY <1>3, <1>4
<1>6. \A i \in 1..1 : i = 1
  OBVIOUS
<1>7. AllCalls(m, q, n, s)
  BY <1>2, <1>5, <1>6 DEF AllCalls
<1>8. 1 \in DOMAIN s
  BY <1>5
<1>9. Complete(m, q, n, s, <<>>)
  BY <1>2, <1>5, <1>8 DEF Complete
<1>10. AllPaths(m, q, n, <<>>)
  BY DEF AllPaths
<1> QED BY <1>1, <1>4, <1>7, <1>9, <1>10

-----------------------------------------------------------------------------
(* Each step keeps the invariant.                                          *)

\* What the proofs of the steps need of the state before.
SearchingState ==
    /\ SearchInv
    /\ stack # <<>>
    /\ verdict = "none"

LEMMA StateFacts ==
    ASSUME SearchInv
    PROVE  /\ market \in Markets /\ request \in Requests /\ amount \in 1..Top /\ amount \in Nat
           /\ AllCalls(market, request, amount, stack)
           /\ AllPaths(market, request, amount, paths)
           /\ expanded \in Nat
           /\ raised \in BOOLEAN /\ truncated \in BOOLEAN /\ exhausted \in BOOLEAN
<1>1. Top \in Nat
  BY RouteAssumption
<1> QED BY <1>1 DEF SearchInv, Shape

LEMMA HereIsACall ==
    ASSUME SearchInv, stack # <<>>
    PROVE  /\ stack \in Seq(CallRecords) /\ Here \in CallRecords
           /\ Here = Last(stack)
           /\ IsCall(market, request, amount, Here)
           /\ Len(Here.route) \in Nat /\ Len(Here.legs) = Len(Here.route) - 1
<1>1. /\ stack \in Seq(CallRecords)
      /\ \A i \in DOMAIN stack : IsCall(market, request, amount, stack[i])
  BY StateFacts DEF AllCalls
<1>2. Len(stack) \in DOMAIN stack /\ Here = stack[Len(stack)]
  BY <1>1, FrontOf DEF Here
<1>3. IsCall(market, request, amount, Here)
  BY <1>1, <1>2
<1>4. /\ Here \in CallRecords /\ IsWay(market, Here.route)
      /\ Here.legs = LegsOf(market, Here.route, amount)
  BY <1>3 DEF IsCall, IsTrail
<1>5. Len(Here.route) \in Nat
  BY <1>4 DEF IsWay
<1>6. Len(Here.legs) = Len(Here.route) - 1
  <2>1. Len(LegsOf(market, Here.route, amount)) = Len(Here.route) - 1
    BY <1>4, StateFacts, LegsAreWalks
  <2> QED BY <1>4, <2>1
<1> QED BY <1>1, <1>3, <1>4, <1>5, <1>6 DEF Here

\* A step inside a search keeps what the radar knows of it.
LEMMA WhyStays ==
    ASSUME SearchInv, verdict = "none", verdict' = verdict,
           UNCHANGED <<market, request, amount, raised, exhausted>>
    PROVE  Why' /\ Told'
<1>1. Why'
  BY DEF SearchInv, Why
<1>2. Told'
  BY DEF Told
<1> QED BY <1>1, <1>2

LEMMA ShapeStays ==
    ASSUME SearchInv,
           UNCHANGED <<market, request, amount, raised, exhausted>>,
           AllCalls(market, request, amount, stack'),
           AllPaths(market, request, amount, paths'),
           expanded' \in Nat, truncated' \in BOOLEAN
    PROVE  Shape'
BY DEF SearchInv, Shape

LEMMA StepInside ==
    ASSUME SearchInv, verdict = "none", verdict' = verdict,
           UNCHANGED <<market, request, amount, raised, exhausted>>,
           AllCalls(market, request, amount, stack'),
           AllPaths(market, request, amount, paths'),
           expanded' \in Nat, truncated' \in BOOLEAN,
           ~truncated' => Complete(market, request, amount, stack', paths')
    PROVE  SearchInv'
BY WhyStays, ShapeStays DEF SearchInv

LEMMA CancelKeeps == SearchInv /\ Cancel => SearchInv'
<1> SUFFICES ASSUME SearchInv, Cancel PROVE SearchInv'
  OBVIOUS
<1>1. /\ verdict = "none" /\ verdict' = verdict
      /\ UNCHANGED <<market, request, amount, raised, exhausted>>
      /\ stack' = stack /\ paths' = paths /\ expanded' = expanded /\ truncated' = truncated
  BY DEF Cancel
<1>2. ~truncated => Complete(market, request, amount, stack, paths)
  BY <1>1 DEF SearchInv
<1> QED BY <1>1, <1>2, StateFacts, StepInside

\* A verdict that says nothing of the market.
LEMMA StopKeeps == SearchInv /\ StopCancelled => SearchInv'
<1> SUFFICES ASSUME SearchInv, StopCancelled PROVE SearchInv'
  OBVIOUS
<1>1. /\ verdict' = "cancelled" /\ stack' = <<>>
      /\ UNCHANGED <<market, request, amount, raised, exhausted, paths, expanded, truncated>>
  BY DEF StopCancelled
<1>2. AllCalls(market, request, amount, <<>>)
  BY DEF AllCalls
<1>3. Shape'
  BY <1>1, <1>2, StateFacts, ShapeStays
<1>4. Why'
  BY <1>1 DEF SearchInv, Why
<1>5. Told'
  BY <1>1 DEF Told
<1> QED BY <1>1, <1>3, <1>4, <1>5 DEF SearchInv

\* A call that returns with no chain left to it.
LEMMA FrontKeeps ==
    ASSUME SearchInv, stack # <<>>, ~truncated,
           verdict = "none",
           \A c \in ChainsOf(market, request) :
               DeliveredIn(market, c, amount) # 0 => ~Pending(c, Here)
    PROVE  Complete(market, request, amount, Front(stack), paths)
<1>1. AllCalls(market, request, amount, stack) /\ Complete(market, request, amount, stack, paths)
  BY StateFacts DEF SearchInv
<1>2. stack \in Seq(CallRecords)
  BY HereIsACall
<1>3. \A i \in 1..(Len(stack) - 1) : i \in DOMAIN Front(stack) /\ Front(stack)[i] = stack[i]
  BY <1>2, FrontOf
<1> QED BY <1>1, <1>3, CompleteStays DEF Here

LEMMA TooDeepKeeps == SearchInv /\ EnterTooDeep => SearchInv'
<1> SUFFICES ASSUME SearchInv, EnterTooDeep PROVE SearchInv'
  OBVIOUS
<1>1. /\ verdict = "none" /\ verdict' = verdict /\ stack # <<>>
      /\ UNCHANGED <<market, request, amount, raised, exhausted>>
      /\ stack' = Front(stack) /\ paths' = paths /\ expanded' = expanded
      /\ truncated' = truncated
      /\ Len(Here.legs) >= request.hops
  BY DEF EnterTooDeep, Searching
<1>2. AllCalls(market, request, amount, Front(stack))
  BY <1>1, StateFacts, AllFront
<1>3. request \in Requests /\ request.hops \in Nat
  BY StateFacts, RouteAssumption
<1>4. IsCall(market, request, amount, Here) /\ ~(Len(Here.route) <= request.hops)
  BY <1>1, <1>3, HereIsACall
<1>5. \A c \in ChainsOf(market, request) : ~Pending(c, Here)
  BY <1>3, <1>4, PendingFacts DEF Passes
<1>6. ~truncated => Complete(market, request, amount, Front(stack), paths)
  BY <1>1, <1>5, FrontKeeps
<1> QED BY <1>1, <1>2, <1>6, StateFacts, StepInside

LEMMA OutOfBudgetKeeps == SearchInv /\ EnterOutOfBudget => SearchInv'
<1> SUFFICES ASSUME SearchInv, EnterOutOfBudget PROVE SearchInv'
  OBVIOUS
<1>1. /\ verdict = "none" /\ verdict' = verdict /\ stack # <<>>
      /\ UNCHANGED <<market, request, amount, raised, exhausted>>
      /\ stack' = Front(stack) /\ paths' = paths /\ expanded' = expanded
      /\ truncated' = TRUE
  BY DEF EnterOutOfBudget, Searching
<1>2. AllCalls(market, request, amount, Front(stack))
  BY <1>1, StateFacts, AllFront
<1> QED BY <1>1, <1>2, StateFacts, StepInside

LEMMA ReturnKeeps == SearchInv /\ Return => SearchInv'
<1> SUFFICES ASSUME SearchInv, Return PROVE SearchInv'
  OBVIOUS
<1>1. /\ verdict = "none" /\ verdict' = verdict /\ stack # <<>>
      /\ UNCHANGED <<market, request, amount, raised, exhausted>>
      /\ stack' = Front(stack) /\ paths' = paths /\ expanded' = expanded
      /\ truncated' = truncated
      /\ Here.entered /\ Here.todo = {}
  BY DEF Return, Searching
<1>2. AllCalls(market, request, amount, Front(stack))
  BY <1>1, StateFacts, AllFront
<1>3. \A c : ~Pending(c, Here)
  BY <1>1 DEF Pending
<1>4. ~truncated => Complete(market, request, amount, Front(stack), paths)
  BY <1>1, <1>3, FrontKeeps
<1> QED BY <1>1, <1>2, <1>4, StateFacts, StepInside

\* The innermost call changed, the chains it had to find are still its own.
LEMMA AtHereKeeps ==
    ASSUME SearchInv, stack # <<>>, verdict = "none",
           NEW x, IsCall(market, request, amount, x)
    PROVE  /\ AllCalls(market, request, amount, AtHere(x))
           /\ AtHere(x) \in Seq(CallRecords)
           /\ Len(stack) \in DOMAIN AtHere(x) /\ AtHere(x)[Len(stack)] = x
           /\ \A i \in 1..(Len(stack) - 1) : i \in DOMAIN AtHere(x) /\ AtHere(x)[i] = stack[i]
           /\ DOMAIN AtHere(x) = 1..Len(stack)
<1>1. AllCalls(market, request, amount, stack) /\ stack \in Seq(CallRecords)
  BY StateFacts, HereIsACall
<1>2. AllCalls(market, request, amount, AtHere(x))
  BY <1>1, AllTop DEF AtHere
<1>3. x \in CallRecords
  BY DEF IsCall
<1>4. Len(stack) \in Nat /\ Len(stack) >= 1
  BY <1>1, FrontOf
<1>5. /\ AtHere(x) \in Seq(CallRecords) /\ DOMAIN AtHere(x) = 1..Len(stack)
      /\ AtHere(x)[Len(stack)] = x
      /\ \A i \in 1..(Len(stack) - 1) : AtHere(x)[i] = stack[i]
  BY <1>1, <1>3, TopOf DEF AtHere
<1>6. Len(stack) \in 1..Len(stack) /\ \A i \in 1..(Len(stack) - 1) : i \in 1..Len(stack)
  BY <1>4
<1> QED BY <1>2, <1>5, <1>6

LEMMA EnterKeeps == SearchInv /\ Enter => SearchInv'
<1> SUFFICES ASSUME SearchInv, Enter PROVE SearchInv'
  OBVIOUS
<1> DEFINE x == [Here EXCEPT !.entered = TRUE, !.todo = Neighbors(Last(Here.route))]
<1>1. /\ verdict = "none" /\ verdict' = verdict /\ stack # <<>>
      /\ UNCHANGED <<market, request, amount, raised, exhausted>>
      /\ stack' = AtHere(x) /\ paths' = paths /\ expanded' = expanded + 1
      /\ truncated' = truncated
      /\ ~Here.entered
      /\ Len(Here.legs) < request.hops
  BY DEF Enter, Searching
<1>2. request \in Requests /\ request.hops \in Nat
  BY StateFacts, RouteAssumption
<1>3. IsCall(market, request, amount, Here) /\ Len(Here.route) <= request.hops
  BY <1>1, <1>2, HereIsACall
<1> DEFINE T == Neighbors(Last(Here.route))
<1>4. /\ T \in SUBSET Currencies
      /\ \A b \in Currencies : b \in T <=> <<Here.route[Len(Here.route)], b>> \in DOMAIN market
  BY DEF Neighbors, Currencies, Last
<1> HIDE DEF T
<1>5. IsCall(market, request, amount, x)
  BY <1>2, <1>3, <1>4, CallEnters DEF T
<1>6. ASSUME NEW c \in ChainsOf(market, request), Pending(c, Here) PROVE Pending(c, x)
  BY <1>2, <1>3, <1>4, <1>6, PendingEnters DEF T
<1> HIDE DEF x
<1>7. /\ AllCalls(market, request, amount, AtHere(x))
      /\ Len(stack) \in DOMAIN AtHere(x) /\ AtHere(x)[Len(stack)] = x
      /\ \A i \in 1..(Len(stack) - 1) : i \in DOMAIN AtHere(x) /\ AtHere(x)[i] = stack[i]
  BY <1>1, <1>5, AtHereKeeps
<1>8. ASSUME ~truncated PROVE Complete(market, request, amount, AtHere(x), paths)
  <2>1. AllCalls(market, request, amount, stack) /\ Complete(market, request, amount, stack, paths)
    BY <1>1, <1>8, StateFacts DEF SearchInv
  <2>2. \A c \in ChainsOf(market, request) :
            DeliveredIn(market, c, amount) # 0 /\ Pending(c, Last(stack)) =>
                Found(c, paths) \/ \E i \in DOMAIN AtHere(x) : Pending(c, AtHere(x)[i])
    BY <1>6, <1>7 DEF Here
  <2> QED BY <1>1, <1>7, <2>1, <2>2, CompleteStays
<1>9. expanded' \in Nat
  BY <1>1, StateFacts
<1> QED BY <1>1, <1>7, <1>8, <1>9, StateFacts, StepInside

LEMMA TurnKeeps == SearchInv /\ Turn => SearchInv'
<1> SUFFICES ASSUME SearchInv, Turn PROVE SearchInv'
  OBVIOUS
<1> DEFINE b == FirstOf(Here.todo)
           leg == FillTaker(market[<<Last(Here.route), b>>], Here.carried)
           rest == [Here EXCEPT !.todo = @ \ {b}]
           done == [Here EXCEPT !.todo = {}]
           next == Call(Append(Here.route, b), leg.out, Append(Here.legs, leg))
           p == [route |-> Append(Here.route, To), legs |-> Append(Here.legs, leg)]
<1>1. /\ verdict = "none" /\ verdict' = verdict /\ stack # <<>>
      /\ UNCHANGED <<market, request, amount, raised, exhausted>>
      /\ expanded' = expanded
      /\ Here.entered /\ Here.todo # {}
  BY DEF Turn, Searching
<1>2. \/ /\ Skips(Here, b)
         /\ stack' = AtHere(rest) /\ paths' = paths /\ truncated' = truncated
      \/ /\ ~Skips(Here, b)
         /\ leg.out = 0
         /\ stack' = AtHere(rest) /\ paths' = paths /\ truncated' = truncated
      \/ /\ ~Skips(Here, b)
         /\ leg.out > 0
         /\ b = To
         /\ paths' = Append(paths, p)
         /\ truncated' = (Len(paths) + 1 >= request.maxPaths)
         /\ stack' = AtHere(IF truncated' THEN done ELSE rest)
      \/ /\ ~Skips(Here, b)
         /\ leg.out > 0
         /\ b # To
         /\ stack' = Append(AtHere(rest), next)
         /\ paths' = paths /\ truncated' = truncated
  BY DEF Turn
<1>3. /\ market \in Markets /\ request \in Requests /\ amount \in Nat
      /\ AllCalls(market, request, amount, stack)
      /\ AllPaths(market, request, amount, paths)
      /\ expanded \in Nat /\ truncated \in BOOLEAN
  BY StateFacts
<1>4. IsCall(market, request, amount, Here) /\ Here \in CallRecords /\ Here = Last(stack)
  BY <1>1, HereIsACall
<1>5. Here.todo \in SUBSET Currencies
  BY <1>4, CallIsRecord
<1>6. b \in Here.todo
  BY <1>1, <1>5, FirstOfExists
<1> HIDE DEF b
<1>7. IsCall(market, request, amount, rest) /\ IsCall(market, request, amount, done)
  <2>1. Here.todo \ {b} \in SUBSET Here.todo /\ {} \in SUBSET Here.todo
    OBVIOUS
  <2> QED BY <1>3, <1>4, <2>1, CallSteps
<1>8. ASSUME NEW c \in ChainsOf(market, request), DeliveredIn(market, c, amount) # 0,
             Pending(c, Here), ~Pending(c, rest)
      PROVE  /\ b \notin ToSet(Here.route)
             /\ b = To \/ b \in request.allowed
             /\ leg.out # 0
             /\ b = To => c = Append(Here.route, To)
             /\ b # To => Pending(c, next)
  BY <1>1, <1>3, <1>4, <1>6, <1>8, PendingTurns
<1> HIDE DEF leg, rest, done, next
<1>9. /\ AllCalls(market, request, amount, AtHere(rest))
      /\ AtHere(rest) \in Seq(CallRecords)
      /\ Len(stack) \in DOMAIN AtHere(rest) /\ AtHere(rest)[Len(stack)] = rest
      /\ \A i \in 1..(Len(stack) - 1) :
            i \in DOMAIN AtHere(rest) /\ AtHere(rest)[i] = stack[i]
      /\ DOMAIN AtHere(rest) = 1..Len(stack)
  BY <1>1, <1>7, AtHereKeeps
<1>10. AllCalls(market, request, amount, AtHere(done))
  BY <1>1, <1>7, AtHereKeeps
<1>11. ~truncated => Complete(market, request, amount, stack, paths)
  BY <1>1 DEF SearchInv
<1>12. ASSUME NEW found2, ~truncated,
              \A c : Found(c, paths) => Found(c, found2),
              \A c \in ChainsOf(market, request) :
                  DeliveredIn(market, c, amount) # 0 /\ Pending(c, Here) =>
                      Found(c, found2) \/ Pending(c, rest)
       PROVE  Complete(market, request, amount, AtHere(rest), found2)
  <2>1. \A c \in ChainsOf(market, request) :
            DeliveredIn(market, c, amount) # 0 /\ Pending(c, Last(stack)) =>
                Found(c, found2) \/ \E i \in DOMAIN AtHere(rest) : Pending(c, AtHere(rest)[i])
    BY <1>4, <1>9, <1>12
  <2> QED BY <1>1, <1>3, <1>9, <1>11, <1>12, <2>1, CompleteStays
<1>13. CASE Skips(Here, b) /\ stack' = AtHere(rest) /\ paths' = paths /\ truncated' = truncated
  <2>1. ASSUME ~truncated PROVE Complete(market, request, amount, AtHere(rest), paths)
    <3>1. b \in ToSet(Here.route) \/ (b # To /\ b \notin request.allowed)
      BY <1>13, <2>1 DEF Skips
    <3>2. \A c \in ChainsOf(market, request) :
              DeliveredIn(market, c, amount) # 0 /\ Pending(c, Here) => Pending(c, rest)
      BY <1>8, <3>1
    <3> QED BY <1>12, <2>1, <3>2
  <2> QED BY <1>1, <1>3, <1>9, <1>13, <2>1, StepInside
<1>14. CASE leg.out = 0 /\ stack' = AtHere(rest) /\ paths' = paths /\ truncated' = truncated
  <2>1. ASSUME ~truncated PROVE Complete(market, request, amount, AtHere(rest), paths)
    <3>1. \A c \in ChainsOf(market, request) :
              DeliveredIn(market, c, amount) # 0 /\ Pending(c, Here) => Pending(c, rest)
      BY <1>8, <1>14
    <3> QED BY <1>12, <2>1, <3>1
  <2> QED BY <1>1, <1>3, <1>9, <1>14, <2>1, StepInside
<1>15. CASE /\ ~Skips(Here, b)
            /\ leg.out > 0
            /\ b = To
            /\ paths' = Append(paths, p)
            /\ truncated' = (Len(paths) + 1 >= request.maxPaths)
            /\ stack' = AtHere(IF truncated' THEN done ELSE rest)
  <2>1. IsPath(market, request, amount, p)
    <3>1. To \in Here.todo /\ FillTaker(market[<<Last(Here.route), To>>], Here.carried).out > 0
      BY <1>6, <1>15 DEF leg
    <3> QED BY <1>1, <1>3, <1>4, <1>15, <3>1, PathEnds DEF leg
  <2>2. p.route = Append(Here.route, To)
    OBVIOUS
  <2> HIDE DEF p
  <2>3. /\ AllPaths(market, request, amount, Append(paths, p))
        /\ \A c : Found(c, paths) => Found(c, Append(paths, p))
        /\ Found(p.route, Append(paths, p))
    BY <1>3, <2>1, MorePaths
  <2>4. ~truncated
    BY <1>15 DEF Skips
  <2>5. Complete(market, request, amount, AtHere(rest), Append(paths, p))
    <3>1. ASSUME NEW c \in ChainsOf(market, request), DeliveredIn(market, c, amount) # 0,
                 Pending(c, Here), ~Pending(c, rest)
          PROVE  Found(c, Append(paths, p))
      <4>1. c = Append(Here.route, To)
        BY <1>8, <1>15, <3>1
      <4> QED BY <2>2, <2>3, <4>1
    <3> QED BY <1>12, <2>3, <2>4, <3>1
  <2>6. truncated' \in BOOLEAN
    BY <1>15
  <2>7. AllCalls(market, request, amount, stack')
    BY <1>9, <1>10, <1>15
  <2>8. ~truncated' => stack' = AtHere(rest)
    BY <1>15
  <2>9. ~truncated' => Complete(market, request, amount, stack', paths')
    BY <1>15, <2>5, <2>8
  <2>10. AllPaths(market, request, amount, paths') /\ expanded' \in Nat
    BY <1>1, <1>3, <1>15, <2>3
  <2> QED BY <1>1, <2>6, <2>7, <2>9, <2>10, StepInside
<1>16. CASE /\ ~Skips(Here, b)
            /\ leg.out > 0
            /\ b # To
            /\ stack' = Append(AtHere(rest), next)
            /\ paths' = paths /\ truncated' = truncated
  <2>1. ~truncated /\ b \in request.allowed /\ b \notin ToSet(Here.route)
    BY <1>16 DEF Skips
  <2>2. IsCall(market, request, amount, next)
    <3>1. FillTaker(market[<<Last(Here.route), b>>], Here.carried).out > 0
      BY <1>16 DEF leg
    <3> QED BY <1>1, <1>3, <1>4, <1>6, <1>16, <2>1, <3>1, CallOpens DEF next, leg
  <2>3. AllCalls(market, request, amount, Append(AtHere(rest), next))
    BY <1>9, <2>2, AllMore
  <2>4. PICK k \in Nat : k = Len(stack) /\ k >= 1
    BY <1>1, HereIsACall, FrontOf
  <2>5. /\ DOMAIN Append(AtHere(rest), next) = 1..(k + 1)
        /\ Append(AtHere(rest), next)[k + 1] = next
        /\ \A i \in 1..k : Append(AtHere(rest), next)[i] = AtHere(rest)[i]
    <3>1. next \in CallRecords
      BY <2>2 DEF IsCall
    <3>2. AtHere(rest) \in Seq(CallRecords) /\ Len(AtHere(rest)) = k
      BY <1>9, <2>4
    <3> QED BY <3>1, <3>2
  <2> DEFINE s2 == Append(AtHere(rest), next)
  <2> HIDE DEF s2
  <2>6. /\ k \in DOMAIN s2 /\ s2[k] = rest
        /\ k + 1 \in DOMAIN s2 /\ s2[k + 1] = next
        /\ \A i \in 1..(k - 1) : i \in DOMAIN s2 /\ s2[i] = stack[i]
    <3>1. k \in 1..k /\ k \in 1..(k + 1) /\ k + 1 \in 1..(k + 1)
          /\ \A i \in 1..(k - 1) : i \in 1..k /\ i \in 1..(k + 1)
      BY <2>4
    <3> QED BY <1>9, <2>4, <2>5, <3>1 DEF s2
  <2>7. ASSUME NEW c \in ChainsOf(market, request), DeliveredIn(market, c, amount) # 0,
               Pending(c, Last(stack))
        PROVE  \E i \in DOMAIN s2 : Pending(c, s2[i])
    <3>1. CASE Pending(c, rest)
      BY <2>6, <3>1
    <3>2. CASE ~Pending(c, rest)
      <4>1. Pending(c, next)
        BY <1>4, <1>8, <1>16, <2>7, <3>2
      <4> QED BY <2>6, <4>1
    <3> QED BY <3>1, <3>2
  <2>8. Complete(market, request, amount, s2, paths)
    <3>1. \A c : Found(c, paths) => Found(c, paths)
      OBVIOUS
    <3>2. \A i \in 1..(Len(stack) - 1) : i \in DOMAIN s2 /\ s2[i] = stack[i]
      BY <2>4, <2>6
    <3>3. Complete(market, request, amount, stack, paths)
      BY <1>11, <2>1
    <3> QED BY <1>1, <1>3, <2>7, <3>1, <3>2, <3>3, CompleteStays
  <2> QED BY <1>1, <1>3, <1>16, <2>3, <2>8, StepInside DEF s2
<1> QED BY <1>2, <1>13, <1>14, <1>15, <1>16

\* A search that is over within its budget has found every chain that buys.
LEMMA SearchedAll ==
    ASSUME SearchInv, Searched, ~truncated
    PROVE  \A c \in ChainsOf(market, request) :
               DeliveredIn(market, c, amount) # 0 => Found(c, paths)
BY DEF SearchInv, Searched, Complete

LEMMA NothingFound ==
    ASSUME SearchInv, Searched, ~truncated, paths = <<>>
    PROVE  ~Buys(market, request, amount)
<1>1. \A c : ~Found(c, paths)
  BY DEF Found, ToSet
<1> QED BY <1>1, SearchedAll DEF Buys

LEMMA ExhaustedGrows ==
    ASSUME SearchInv, exhausted' = (exhausted \/ truncated)
    PROVE  /\ exhausted' \in BOOLEAN
           /\ ~exhausted' => ~exhausted /\ ~truncated
BY StateFacts

LEMMA WhyGrows ==
    ASSUME SearchInv, exhausted' = (exhausted \/ truncated),
           UNCHANGED <<market, request, amount, raised>>
    PROVE  Why'
<1>1. ~exhausted' => ~exhausted
  BY ExhaustedGrows
<1> QED BY <1>1 DEF SearchInv, Why

LEMMA FindsKeeps == SearchInv /\ ScanFinds => SearchInv'
<1> SUFFICES ASSUME SearchInv, ScanFinds PROVE SearchInv'
  OBVIOUS
<1>1. /\ verdict' \in {"no direct", "compared"}
      /\ UNCHANGED <<market, request, amount, raised, stack, paths, expanded, truncated>>
      /\ exhausted' = (exhausted \/ truncated)
  BY DEF ScanFinds
<1>2. exhausted' \in BOOLEAN /\ Why'
  BY <1>1, ExhaustedGrows, WhyGrows
<1>3. Shape'
  BY <1>1, <1>2 DEF SearchInv, Shape
<1>4. Told'
  BY <1>1 DEF Told
<1> QED BY <1>1, <1>2, <1>3, <1>4 DEF SearchInv

\* The smallest order of the pair, when it has a book.
LEMMA PairMinimum ==
    ASSUME SearchInv
    PROVE  /\ MinimumOfThePair \in Nat
           /\ <<From, To>> \in DOMAIN market =>
                  IsMinimum(market[<<From, To>>], MinimumOfThePair)
           /\ <<From, To>> \notin DOMAIN market => MinimumOfThePair = 0
<1>1. market \in Markets /\ Top \in Nat \ {0}
  BY StateFacts, RouteAssumption
<1>2. ASSUME <<From, To>> \in DOMAIN market
      PROVE  /\ MinimumOfThePair = MinimumInput(market[<<From, To>>], Top)
             /\ IsBook(market[<<From, To>>])
  BY <1>1, <1>2, LegSells DEF MinimumOfThePair
<1>3. <<From, To>> \notin DOMAIN market => MinimumOfThePair = 0
  BY DEF MinimumOfThePair
<1> QED BY <1>1, <1>2, <1>3, MinimumIsTheSmallest

LEMMA RaiseKeeps == SearchInv /\ RaiseStake => SearchInv'
<1> SUFFICES ASSUME SearchInv, RaiseStake PROVE SearchInv'
  OBVIOUS
<1> DEFINE low == MinimumOfThePair
<1>1. /\ Searched /\ paths = <<>> /\ ~raised /\ low > amount
      /\ amount' = low /\ stack' = <<Call(<<From>>, low, <<>>)>> /\ paths' = <<>>
      /\ expanded' = 0 /\ truncated' = FALSE /\ raised' = TRUE
      /\ exhausted' = (exhausted \/ truncated)
      /\ UNCHANGED <<market, request, verdict>>
  BY DEF RaiseStake, Search
<1>2. /\ market \in Markets /\ request \in Requests /\ amount \in Nat
      /\ amount = request.stake
  BY <1>1, StateFacts DEF SearchInv, Why
<1>3. low \in Nat /\ low # 0
  BY <1>1, <1>2, PairMinimum
<1>4. <<From, To>> \in DOMAIN market /\ IsMinimum(market[<<From, To>>], low)
  BY <1>3, PairMinimum
<1> HIDE DEF low
<1>5. /\ low \in 1..Top /\ Yields(market[<<From, To>>], low)
      /\ ~Yields(market[<<From, To>>], low - 1)
  BY <1>3, <1>4 DEF IsMinimum
<1>6. Direct(market, low) /\ ~Direct(market, low - 1)
  BY <1>4, <1>5 DEF Direct
<1>7. /\ exhausted' \in BOOLEAN
      /\ ~exhausted' => ~Buys(market, request, request.stake)
  <2>1. exhausted' \in BOOLEAN /\ (~exhausted' => ~truncated)
    BY <1>1, ExhaustedGrows
  <2> QED BY <1>1, <1>2, <2>1, NothingFound
<1>8. Why'
  BY <1>1, <1>6, <1>7 DEF Why
<1>9. verdict = "none"
  BY <1>1 DEF Searched
<1>10. Told'
  BY <1>1, <1>9 DEF Told
<1>11. /\ AllCalls(market, request, low, <<Call(<<From>>, low, <<>>)>>)
       /\ AllPaths(market, request, low, <<>>)
       /\ Complete(market, request, low, <<Call(<<From>>, low, <<>>)>>, <<>>)
  BY <1>2, <1>5, SearchBegins
<1>12. PICK s : s = <<Call(<<From>>, low, <<>>)>>
  OBVIOUS
<1>13. stack' = s /\ AllCalls(market, request, low, s) /\ Complete(market, request, low, s, <<>>)
  BY <1>1, <1>11, <1>12
<1>14. Shape'
  BY <1>1, <1>2, <1>5, <1>7, <1>11, <1>13 DEF Shape
<1>15. Complete(market', request', amount', stack', paths')
  BY <1>1, <1>13
<1> QED BY <1>8, <1>10, <1>14, <1>15 DEF SearchInv

LEMMA GiveUpKeeps == SearchInv /\ GiveUp => SearchInv'
<1> SUFFICES ASSUME SearchInv, GiveUp PROVE SearchInv'
  OBVIOUS
<1>1. /\ Searched /\ paths = <<>> /\ (~raised => MinimumOfThePair <= amount)
      /\ verdict' = IF IsPricedRoute THEN "unfillable" ELSE "missing"
      /\ UNCHANGED <<market, request, amount, raised, stack, paths, expanded, truncated>>
      /\ exhausted' = (exhausted \/ truncated)
  BY DEF GiveUp
<1>2. market \in Markets /\ request \in Requests /\ amount \in Nat /\ Top \in Nat
  BY StateFacts, RouteAssumption
<1>3. exhausted' \in BOOLEAN /\ Why' /\ (~exhausted' => ~truncated)
  BY <1>1, ExhaustedGrows, WhyGrows
<1>4. Shape'
  BY <1>1, <1>3 DEF SearchInv, Shape
<1>5. verdict' # "none"
  BY <1>1
<1>6. ASSUME verdict' = "missing" PROVE ChainsOf(market, request) = {}
  <2>1. ~IsPricedIn(market, request)
    BY <1>1, <1>6, SamePriced
  <2> QED BY <1>2, <2>1, ChainIsPriced
<1>7. ASSUME verdict' = "unfillable" PROVE ChainsOf(market, request) # {}
  <2>1. IsPricedIn(market, request)
    BY <1>1, <1>7, SamePriced
  <2> QED BY <1>2, <2>1, PricedHasChain
<1>8. ASSUME ~exhausted'
      PROVE  /\ ~Buys(market, request, request.stake)
             /\ \A n \in 1..((Top + 1) \div 2) : ~Direct(market, n)
  <2>1. ~Buys(market, request, amount)
    BY <1>1, <1>3, <1>8, NothingFound
  <2>2. ~raised
    <3>1. ~Direct(market, amount)
      BY <1>2, <2>1, DirectIs
    <3> QED BY <3>1 DEF SearchInv, Why
  <2>3. amount = request.stake /\ MinimumOfThePair <= amount
    BY <1>1, <2>2 DEF SearchInv, Why
  <2>4. ASSUME NEW n \in 1..((Top + 1) \div 2), Direct(market, n) PROVE FALSE
    <3>1. <<From, To>> \in DOMAIN market /\ IsBook(market[<<From, To>>])
      BY <1>2, <2>4, LegSells DEF Direct
    <3>2. IsMinimum(market[<<From, To>>], MinimumOfThePair) /\ MinimumOfThePair \in Nat
      BY <3>1, PairMinimum
    <3>3. CASE MinimumOfThePair = 0
      BY <2>4, <3>2, <3>3 DEF IsMinimum, Direct
    <3>4. CASE MinimumOfThePair # 0
      <4>1. Yields(market[<<From, To>>], MinimumOfThePair)
        BY <3>2, <3>4 DEF IsMinimum
      <4>2. Yields(market[<<From, To>>], amount)
        BY <1>2, <2>3, <3>1, <3>2, <4>1, MoreStillYields
      <4>3. Direct(market, amount)
        BY <3>1, <4>2 DEF Direct
      <4> QED BY <1>2, <2>1, <4>3, DirectIs
    <3> QED BY <3>3, <3>4
  <2> QED BY <2>1, <2>3, <2>4
<1>9. Told'
  BY <1>1, <1>6, <1>7, <1>8 DEF Told
<1> QED BY <1>3, <1>4, <1>5, <1>9 DEF SearchInv

LEMMA SearchInit == Init => SearchInv
<1> SUFFICES ASSUME Init PROVE SearchInv
  OBVIOUS
<1>1. /\ market \in Markets /\ request \in Requests /\ amount = request.stake
      /\ stack = <<Call(<<From>>, amount, <<>>)>> /\ paths = <<>> /\ expanded = 0
      /\ truncated = FALSE /\ raised = FALSE /\ exhausted = FALSE /\ verdict = "none"
  BY DEF Init
<1>2. amount \in 1..Top
  BY <1>1, RouteAssumption
<1>3. PICK s : s = <<Call(<<From>>, amount, <<>>)>>
  OBVIOUS
<1>4. /\ stack = s /\ AllCalls(market, request, amount, s)
      /\ AllPaths(market, request, amount, <<>>)
      /\ Complete(market, request, amount, s, <<>>)
  BY <1>1, <1>2, <1>3, SearchBegins
<1>5. Shape
  BY <1>1, <1>2, <1>4 DEF Shape
<1>6. Why /\ Told
  BY <1>1 DEF Why, Told
<1> QED BY <1>1, <1>4, <1>5, <1>6 DEF SearchInv

\* Every step of the search and of the radar keeps the invariant: visit's calls
\* stay trails priced by the books they go through, and none of its early
\* returns drops a chain that still buys something (route.rs 250-351).
THEOREM SearchInvariant == Spec => []SearchInv
<1>1. Init => SearchInv
  BY SearchInit
<1>2. SearchInv /\ [Next]_vars => SearchInv'
  <2> SUFFICES ASSUME SearchInv, [Next]_vars PROVE SearchInv'
    OBVIOUS
  <2>1. CASE UNCHANGED vars
    BY <2>1 DEF vars, SearchInv, Shape, Why, Told
  <2>2. CASE Next
    BY <2>2, CancelKeeps, StopKeeps, TooDeepKeeps, OutOfBudgetKeeps, EnterKeeps, TurnKeeps,
       ReturnKeeps, FindsKeeps, RaiseKeeps, GiveUpKeeps DEF Next
  <2> QED BY <2>1, <2>2
<1> QED BY <1>1, <1>2, PTL DEF Spec

-----------------------------------------------------------------------------
(* What the invariant gives.                                               *)

\* Every route collected is a chain that buys something.
LEMMA PathFacts ==
    ASSUME SearchInv, NEW p \in ToSet(paths)
    PROVE  /\ IsPath(market, request, amount, p)
           /\ p.route \in Chains
           /\ Delivered(p.route, amount) > 0
           /\ IsChain(market, request, p.route)
           /\ p.legs = LegsOf(market, p.route, amount)
<1>1. /\ market \in Markets /\ request \in Requests /\ amount \in Nat
      /\ AllPaths(market, request, amount, paths)
  BY StateFacts
<1>2. IsPath(market, request, amount, p)
  BY <1>1 DEF AllPaths, ToSet
<1>3. /\ p.route \in ChainsOf(market, request) /\ DeliveredIn(market, p.route, amount) # 0
      /\ p.legs = LegsOf(market, p.route, amount)
  BY <1>2 DEF IsPath
<1>4. IsChain(market, request, p.route)
  BY <1>1, <1>3, WhatChainsAre
<1>5. DeliveredIn(market, p.route, amount) \in Nat
  BY <1>1, <1>4, DeliveredIsNat DEF IsChain
<1>6. DeliveredIn(market, p.route, amount) > 0
  BY <1>3, <1>5
<1> QED BY <1>2, <1>3, <1>4, <1>6, SameMarket

\* A search within its budget collects exactly the chains that buy something:
\* the neighbours visit steps over are those that no such chain goes through.
THEOREM NothingMissed == Spec => []NoRouteIsMissed
<1>1. SearchInv => NoRouteIsMissed
  <2> SUFFICES ASSUME SearchInv, Searched, ~truncated
               PROVE  {p.route : p \in ToSet(paths)} = {c \in Chains : Delivered(c, amount) > 0}
    BY DEF NoRouteIsMissed
  <2>1. ASSUME NEW p \in ToSet(paths)
        PROVE  p.route \in Chains /\ Delivered(p.route, amount) > 0
    BY PathFacts
  <2>2. ASSUME NEW c \in Chains, Delivered(c, amount) > 0
        PROVE  \E p \in ToSet(paths) : p.route = c
    <3>1. c \in ChainsOf(market, request) /\ DeliveredIn(market, c, amount) > 0
      BY <2>2, SameMarket
    <3>2. DeliveredIn(market, c, amount) # 0
      BY <3>1
    <3> QED BY <3>1, <3>2, SearchedAll DEF Found
  <2> QED BY <2>1, <2>2
<1> QED BY <1>1, SearchInvariant, PTL

\* A leg of a route is handed what the one before it bought.
LEMMA LegFacts ==
    ASSUME SearchInv, NEW p \in ToSet(paths)
    PROVE  /\ p.legs \in Seq(Walk) /\ Len(p.legs) \in Nat /\ Len(p.legs) >= 1
           /\ DOMAIN p.legs = 1..Len(p.legs)
           /\ Len(p.route) = Len(p.legs) + 1
           /\ \A i \in 1..Len(p.legs) :
                 /\ p.legs[i] \in Walk
                 /\ p.legs[i].asked \in Nat \ {0}
                 /\ p.legs[i].out \in Nat \ {0}
                 /\ IsBill(p.legs[i], p.legs[i].asked)
                 /\ p.legs[i].asked = IF i = 1 THEN amount ELSE p.legs[i - 1].out
<1>0. market \in Markets /\ request \in Requests /\ amount \in Nat
  BY StateFacts
<1> DEFINE c == p.route
           m == market
           n == amount
<1>1. /\ IsChain(m, request, c) /\ p.legs = LegsOf(m, c, n) /\ Delivered(c, n) > 0
  BY PathFacts
<1> HIDE DEF c
<1>2. IsWay(m, c) /\ Len(c) \in Nat /\ Len(c) >= 2
  BY <1>0, <1>1, RouteAssumption DEF IsChain, IsWay
<1>3. /\ LegsOf(m, c, n) \in Seq(Walk) /\ Len(LegsOf(m, c, n)) = Len(c) - 1
      /\ \A k \in 1..(Len(c) - 1) :
            /\ LegsOf(m, c, n)[k] = LegAt(m, c, n, k)
            /\ LegAt(m, c, n, k) \in Walk
            /\ IsBill(LegAt(m, c, n, k), DeliveredIn(m, Upto(c, k), n))
  BY <1>0, <1>2, LegsAreWalks
<1>4. PICK f : IsAfter(f, m, c, n)
  BY <1>0, <1>2, AfterExists
<1>5. \A k \in 1..Len(c) : DeliveredIn(m, Upto(c, k), n) = f[k]
  BY <1>0, <1>2, <1>4, UptoDelivers
<1>6. ASSUME NEW k \in 1..Len(c) PROVE f[k] \in Nat /\ f[k] # 0
  <2>1. f[k] \in Nat
    BY <1>4 DEF IsAfter
  <2>2. IsWay(m, Upto(c, k)) /\ Len(Upto(c, k)) = k /\ \A j \in 1..k : Upto(c, k)[j] = c[j]
    BY <1>2, UptoIsWay
  <2>3. DeliveredIn(m, c, n) # 0
    BY <1>1, SameMarket
  <2>4. PICK d : d = Upto(c, k)
    OBVIOUS
  <2>5. IsWay(m, d) /\ Len(d) <= Len(c) /\ \A j \in 1..Len(d) : d[j] = c[j]
    BY <1>2, <2>2, <2>4
  <2>6. DeliveredIn(m, d, n) # 0
    BY <1>0, <1>2, <2>3, <2>5, DeliveredBefore
  <2> QED BY <1>5, <2>1, <2>4, <2>6
<1>7. ASSUME NEW k \in 1..(Len(c) - 1)
      PROVE  LET leg == LegAt(m, c, n, k)
             IN  /\ leg \in Walk /\ leg.asked = f[k] /\ leg.out = f[k + 1]
                 /\ IsBill(leg, leg.asked) /\ f[k] \in Nat \ {0} /\ f[k + 1] \in Nat \ {0}
  <2>1. k \in 1..Len(c) /\ k + 1 \in 2..Len(c) /\ k + 1 \in 1..Len(c) /\ (k + 1) - 1 = k
    BY <1>2
  <2>2. f[k] \in Nat /\ f[k] # 0 /\ f[k + 1] \in Nat /\ f[k + 1] # 0
    BY <1>6, <2>1
  <2>3. f[k + 1] = FillTaker(m[<<c[k], c[k + 1]>>], f[k]).out
    BY <1>4, <2>1, <2>2 DEF IsAfter
  <2>4. LegAt(m, c, n, k) = FillTaker(m[<<c[k], c[k + 1]>>], f[k])
    BY <1>5, <2>1 DEF LegAt
  <2>5. LegAt(m, c, n, k) \in Walk /\ IsBill(LegAt(m, c, n, k), f[k])
    BY <1>3, <1>5, <2>1
  <2>6. LegAt(m, c, n, k).asked = f[k]
    BY <2>5 DEF IsBill
  <2> QED BY <2>2, <2>3, <2>4, <2>5, <2>6
<1>8. /\ p.legs \in Seq(Walk) /\ Len(p.legs) = Len(c) - 1
      /\ \A k \in 1..(Len(c) - 1) : p.legs[k] = LegAt(m, c, n, k)
  BY <1>1, <1>3
<1>9. /\ Len(p.legs) \in Nat /\ Len(p.legs) >= 1 /\ Len(c) = Len(p.legs) + 1
      /\ DOMAIN p.legs = 1..Len(p.legs)
  BY <1>2, <1>8
<1>10. ASSUME NEW i \in 1..Len(p.legs)
       PROVE  /\ p.legs[i] \in Walk
              /\ p.legs[i].asked \in Nat \ {0}
              /\ p.legs[i].out \in Nat \ {0}
              /\ IsBill(p.legs[i], p.legs[i].asked)
              /\ p.legs[i].asked = f[i] /\ p.legs[i].out = f[i + 1]
  BY <1>7, <1>8
<1>11. ASSUME NEW i \in 1..Len(p.legs)
       PROVE  p.legs[i].asked = IF i = 1 THEN amount ELSE p.legs[i - 1].out
  <2>1. CASE i = 1
    <3>1. f[1] = n
      BY <1>4 DEF IsAfter
    <3> QED BY <1>10, <2>1, <3>1
  <2>2. CASE i # 1
    <3>1. i - 1 \in 1..Len(p.legs) /\ (i - 1) + 1 = i
      BY <1>9, <2>2
    <3> QED BY <1>10, <2>2, <3>1
  <2> QED BY <2>1, <2>2
<1> QED BY <1>8, <1>9, <1>10, <1>11 DEF c

\* The bill of every route collected adds up, leg by leg: what
\* fill_taker_detailed returns is what the next leg is handed.
THEOREM BillsAddUp == Spec => []BillAddsUp
<1>1. SearchInv => BillAddsUp
  <2> SUFFICES ASSUME SearchInv, NEW p \in ToSet(paths), NEW i \in DOMAIN p.legs
               PROVE  LET leg == p.legs[i]
                          level(k) == leg.fills[k].level
                      IN  /\ leg.asked = IF i = 1 THEN amount ELSE p.legs[i - 1].out
                          /\ leg.used + leg.left = leg.asked
                          /\ leg.used = FoldLeft(LAMBDA sum, f : sum + f.in, 0, leg.fills)
                          /\ leg.out = FoldLeft(LAMBDA sum, f : sum + f.out, 0, leg.fills)
                          /\ \A k \in DOMAIN leg.fills :
                                /\ leg.fills[k].out <= level(k).stock
                                /\ leg.fills[k].out * level(k).den <= leg.fills[k].in * level(k).num
                                /\ \A j \in DOMAIN leg.fills : j # k => level(j) # level(k)
    BY DEF BillAddsUp
  <2>1. PICK leg : leg = p.legs[i]
    OBVIOUS
  <2>2. /\ leg.asked = IF i = 1 THEN amount ELSE p.legs[i - 1].out
        /\ IsBill(leg, leg.asked)
    BY <2>1, LegFacts
  <2>3. leg.used + leg.left = leg.asked /\ \A k \in DOMAIN leg.fills : Honest(leg.fills[k])
    BY <2>2 DEF IsBill, Balanced
  <2>4. leg.used = SumIn(leg.fills) /\ leg.out = SumOut(leg.fills)
    BY <2>2 DEF IsBill
  <2>5. \A k, j \in DOMAIN leg.fills : j # k => leg.fills[j].level # leg.fills[k].level
    BY <2>2 DEF IsBill
  <2> QED BY <2>1, <2>2, <2>3, <2>4, <2>5 DEF Honest, SumIn, SumOut
<1> QED BY <1>1, SearchInvariant, PTL

\* In every book of the market an order that grows never buys less, so
\* doubling and bisecting for the smallest order are right (depth.rs 393-398).
THEOREM NeverLessForMore == Spec => []MoreInNeverLess
<1>1. SearchInv => MoreInNeverLess
  <2> SUFFICES ASSUME SearchInv, NEW pair \in DOMAIN market, NEW n \in 1..(Top - 1)
               PROVE  FillTaker(market[pair], n).out <= FillTaker(market[pair], n + 1).out
    BY DEF MoreInNeverLess
  <2>1. IsBook(market[pair])
    BY StateFacts, LegSells
  <2>2. n \in Nat /\ n + 1 \in Nat /\ n <= n + 1
    BY RouteAssumption
  <2> QED BY <2>1, <2>2, GrowingBuysNoLess
<1> QED BY <1>1, SearchInvariant, PTL

\* run_opportunity_radar's verdict is true of the market: "missing" means no
\* chain at all, "unfillable" that neither the stake nor the direct pair buys
\* anything, and a raised stake is the smallest that sells.
THEOREM VerdictIsTrue == Spec => []VerdictTellsTheTruth
<1>1. SearchInv => VerdictTellsTheTruth
  <2> SUFFICES ASSUME SearchInv PROVE VerdictTellsTheTruth
    OBVIOUS
  <2> DEFINE buys(n) == \E c \in Chains : Delivered(c, n) > 0
             direct(n) == <<From, To>> \in Chains /\ Delivered(<<From, To>>, n) > 0
  <2>1. market \in Markets /\ request \in Requests /\ amount \in 1..Top /\ Top \in Nat
    BY StateFacts, RouteAssumption
  <2>2. \A n \in Nat : direct(n) <=> Direct(market, n)
    BY <2>1, DirectIs, SameMarket
  <2>3. ~Buys(market, request, request.stake) => ~buys(request.stake)
    <3> SUFFICES ASSUME NEW c \in Chains, Delivered(c, request.stake) > 0
                 PROVE  Buys(market, request, request.stake)
      OBVIOUS
    <3>1. c \in ChainsOf(market, request) /\ DeliveredIn(market, c, request.stake) > 0
      BY SameMarket
    <3>2. DeliveredIn(market, c, request.stake) # 0
      BY <3>1
    <3> QED BY <3>1, <3>2 DEF Buys
  <2>4. Chains = ChainsOf(market, request)
    BY SameMarket
  <2>5. \A n \in 1..((Top + 1) \div 2) : n \in Nat
    OBVIOUS
  <2>6. amount \in Nat /\ amount - 1 \in Nat
    BY <2>1
  <2> HIDE DEF buys, direct
  <2>7. verdict = "missing" => Chains = {}
    BY <2>4 DEF SearchInv, Told
  <2>8. verdict = "unfillable" =>
            /\ Chains # {}
            /\ ~exhausted =>
                  ~buys(request.stake) /\ \A n \in 1..((Top + 1) \div 2) : ~direct(n)
    BY <2>2, <2>3, <2>4, <2>5 DEF SearchInv, Told
  <2>9. ~exhausted =>
            IF raised
            THEN ~buys(request.stake) /\ direct(amount) /\ ~direct(amount - 1)
            ELSE amount = request.stake
    BY <2>2, <2>3, <2>6 DEF SearchInv, Why
  <2> QED BY <2>7, <2>8, <2>9 DEF VerdictTellsTheTruth, buys, direct
<1> QED BY <1>1, SearchInvariant, PTL

-----------------------------------------------------------------------------
(* The ranking: an order by one key after another.                         *)

\* An order that may leave elements level with each other.
WeakOrder(R, T) ==
    /\ \A x, y \in T : <<x, y>> \in R => <<y, x>> \notin R
    /\ \A x, y, z \in T : <<x, y>> \in R => <<x, z>> \in R \/ <<z, y>> \in R

\* First by A and, where that leaves two level, by B.
Then(A, B, T) ==
    {pair \in T \X T : pair \in A \/ (<<pair[2], pair[1]>> \notin A /\ pair \in B)}

\* One key after another is again such an order.
LEMMA ThenIsWeak ==
    ASSUME NEW A, NEW B, NEW T, WeakOrder(A, T), WeakOrder(B, T)
    PROVE  WeakOrder(Then(A, B, T), T)
<1>1. \A x, y \in T : <<x, y>> \in Then(A, B, T) <=>
                          <<x, y>> \in A \/ (<<y, x>> \notin A /\ <<x, y>> \in B)
  BY DEF Then
<1>2. ASSUME NEW x \in T, NEW y \in T, <<x, y>> \in Then(A, B, T)
      PROVE  <<y, x>> \notin Then(A, B, T)
  BY <1>1, <1>2 DEF WeakOrder
<1>3. ASSUME NEW x \in T, NEW y \in T, NEW z \in T, <<x, y>> \in Then(A, B, T)
      PROVE  <<x, z>> \in Then(A, B, T) \/ <<z, y>> \in Then(A, B, T)
  BY <1>1, <1>3 DEF WeakOrder
<1> QED BY <1>2, <1>3 DEF WeakOrder

\* ... and a strict one when it leaves no two level.
LEMMA WeakIsOrder ==
    ASSUME NEW R, NEW T, WeakOrder(R, T),
           \A x, y \in T : x # y => <<x, y>> \in R \/ <<y, x>> \in R
    PROVE  IsOrder(R, T)
<1>1. \A x \in T : <<x, x>> \notin R
  BY DEF WeakOrder
<1>2. ASSUME NEW x \in T, NEW y \in T, NEW z \in T, <<x, y>> \in R, <<y, z>> \in R
      PROVE  <<x, z>> \in R
  BY <1>2 DEF WeakOrder
<1> QED BY <1>1, <1>2 DEF IsOrder

\* Shares and prices: fractions of natural numbers.
Shares == [num : Nat, den : Nat \ {0}]

LEMMA LessIsWeak ==
    ASSUME NEW x \in Shares, NEW y \in Shares, NEW z \in Shares
    PROVE  /\ Less(x, y) => ~Less(y, x)
           /\ Less(x, y) => Less(x, z) \/ Less(z, y)
<1>1. /\ x.num \in Nat /\ y.num \in Nat /\ z.num \in Nat
      /\ x.den \in Nat \ {0} /\ y.den \in Nat \ {0} /\ z.den \in Nat \ {0}
  BY DEF Shares
<1>2. /\ x.num * y.den \in Nat /\ y.num * x.den \in Nat
      /\ x.num * z.den \in Nat /\ z.num * x.den \in Nat
      /\ y.num * z.den \in Nat /\ z.num * y.den \in Nat
  BY <1>1, MulNats
<1>3. Less(x, y) => ~Less(y, x)
  BY <1>2 DEF Less
<1>4. y.num * z.den <= z.num * y.den /\ z.num * x.den <= x.num * z.den
          => y.num * x.den <= x.num * y.den
  BY <1>1, FractionsLeq
<1>5. Less(x, y) => Less(x, z) \/ Less(z, y)
  BY <1>2, <1>4 DEF Less
<1> QED BY <1>3, <1>5

-----------------------------------------------------------------------------
(* The keys of a route.                                                    *)

\* The share got stuck is none exactly when no later leg leaves anything.
LEMMA StuckFacts ==
    ASSUME SearchInv, NEW p \in ToSet(paths)
    PROVE  /\ WorstStranded(p) \in Shares
           /\ WorstStranded(p).num = 0 <=> \A i \in 2..Len(p.legs) : p.legs[i].left = 0
<1>1. /\ p.legs \in Seq(Walk) /\ Len(p.legs) \in Nat /\ Len(p.legs) >= 1
      /\ \A i \in 1..Len(p.legs) : p.legs[i] \in Walk /\ p.legs[i].asked \in Nat \ {0}
  BY LegFacts
<1>2. PICK s : s = Tail(p.legs)
  OBVIOUS
<1>3. PICK n \in Nat : n = Len(p.legs) - 1
  BY <1>1
<1>4. /\ s \in Seq(Walk) /\ Len(s) = n
      /\ \A i \in 1..n : s[i] = p.legs[i + 1]
  <2>1. p.legs # <<>>
    BY <1>1, EmptyIs
  <2> QED BY <1>1, <1>2, <1>3, <2>1
<1>5. DOMAIN s = 1..n
  BY <1>3, <1>4
<1>6. \A i \in 1..n : i + 1 \in 1..Len(p.legs)
  BY <1>1, <1>3
<1>7. \A i \in 1..n : s[i].left \in Nat /\ s[i].asked \in Nat \ {0}
  BY <1>1, <1>4, <1>6 DEF Walk
<1>8. ASSUME NEW w \in Shares, NEW i \in 1..n
      PROVE  /\ Worse(w, s[i]) \in Shares
             /\ Worse(w, s[i]).num = 0 <=> w.num = 0 /\ s[i].left = 0
  <2> DEFINE share == [num |-> s[i].left, den |-> s[i].asked]
  <2>1. share \in Shares /\ share.num = s[i].left /\ share.den = s[i].asked
    BY <1>7 DEF Shares
  <2>2. /\ w.num \in Nat /\ w.den \in Nat \ {0}
        /\ s[i].left \in Nat /\ s[i].asked \in Nat \ {0}
    BY <1>7 DEF Shares
  <2>3. /\ w.num * s[i].asked \in Nat /\ s[i].left * w.den \in Nat
        /\ w.num = 0 => w.num * s[i].asked = 0
        /\ s[i].left = 0 => s[i].left * w.den = 0
        /\ s[i].left # 0 => s[i].left * w.den > 0
    BY <2>2, MulNats
  <2>4. Worse(w, s[i]) = IF w.num * s[i].asked < s[i].left * w.den THEN share ELSE w
    BY <2>1 DEF Worse, Less
  <2> HIDE DEF share
  <2>5. CASE w.num * s[i].asked < s[i].left * w.den
    <3>1. s[i].left # 0
      BY <2>3, <2>5
    <3> QED BY <2>1, <2>4, <2>5, <3>1
  <2>6. CASE ~(w.num * s[i].asked < s[i].left * w.den)
    <3>1. w.num = 0 => s[i].left = 0
      BY <2>3, <2>6
    <3> QED BY <2>4, <2>6, <3>1
  <2> QED BY <2>5, <2>6
<1>9. PICK b \in Shares : b = [num |-> 0, den |-> 1] /\ b.num = 0
  <2>1. 0 \in Nat /\ 1 \in Nat \ {0}
    OBVIOUS
  <2>2. [num |-> 0, den |-> 1] \in Shares
    BY <2>1 DEF Shares
  <2>3. [num |-> 0, den |-> 1].num = 0
    OBVIOUS
  <2> QED BY <2>2, <2>3
<1>10. PICK f \in [0..n -> Shares] : FoldsByWorse(f, n, b, s)
  BY <1>5, <1>8, FoldOfWorse
<1>11. /\ f[0] = b /\ FoldLeft(Worse, b, s) = f[n]
       /\ \A k \in 1..n : f[k] = Worse(f[k - 1], s[k])
  BY <1>10 DEF FoldsByWorse
<1>12. WorstStranded(p) = FoldLeft(Worse, [num |-> 0, den |-> 1], Tail(p.legs))
  BY DEF WorstStranded, Worse, FoldLeft, MapThenFoldSet
<1>13. WorstStranded(p) = f[n]
  BY <1>2, <1>9, <1>11, <1>12
<1> DEFINE Clean(k) == \A i \in 1..k : s[i].left = 0
           S == {k \in Nat : k <= n => (f[k].num = 0 <=> Clean(k))}
<1>14. 0 \in S
  BY <1>9, <1>11
<1>15. ASSUME NEW k \in Nat, k \in S PROVE k + 1 \in S
  <2> SUFFICES ASSUME k + 1 <= n PROVE f[k + 1].num = 0 <=> Clean(k + 1)
    OBVIOUS
  <2>1. k + 1 \in 1..n /\ (k + 1) - 1 = k /\ k \in 0..n /\ k <= n
    BY <1>3
  <2>2. f[k + 1].num = 0 <=> f[k].num = 0 /\ s[k + 1].left = 0
    <3>1. f[k] \in Shares
      BY <1>10, <2>1
    <3>2. f[k + 1] = Worse(f[k], s[k + 1])
      BY <1>11, <2>1
    <3>3. Worse(f[k], s[k + 1]).num = 0 <=> f[k].num = 0 /\ s[k + 1].left = 0
      BY <1>8, <2>1, <3>1
    <3> QED BY <3>2, <3>3
  <2>3. Clean(k + 1) <=> Clean(k) /\ s[k + 1].left = 0
    <3>1. \A i \in 1..(k + 1) : i = k + 1 \/ i \in 1..k
      OBVIOUS
    <3>2. k + 1 \in 1..(k + 1) /\ \A i \in 1..k : i \in 1..(k + 1)
      OBVIOUS
    <3> QED BY <3>1, <3>2
  <2>4. f[k].num = 0 <=> Clean(k)
    BY <1>15, <2>1
  <2> HIDE DEF Clean
  <2> QED BY <2>2, <2>3, <2>4
<1>16. \A k \in Nat : k \in S
  <2> HIDE DEF S
  <2> QED BY <1>14, <1>15, NatInduct
<1>17. f[n].num = 0 <=> Clean(n)
  <2>1. n \in S /\ n <= n
    <3> HIDE DEF S
    <3> QED BY <1>16
  <2> HIDE DEF Clean
  <2> QED BY <2>1
<1>18. Clean(n) <=> \A i \in 2..Len(p.legs) : p.legs[i].left = 0
  <2>1. \A i \in 1..n : i + 1 \in 2..Len(p.legs)
    BY <1>1, <1>3
  <2>2. \A i \in 2..Len(p.legs) : i - 1 \in 1..n /\ (i - 1) + 1 = i
    BY <1>1, <1>3
  <2>3. ASSUME Clean(n), NEW i \in 2..Len(p.legs) PROVE p.legs[i].left = 0
    <3>1. s[i - 1].left = 0
      BY <2>2, <2>3
    <3>2. s[i - 1] = p.legs[i]
      BY <1>4, <2>2
    <3> QED BY <3>1, <3>2
  <2>4. ASSUME \A i \in 2..Len(p.legs) : p.legs[i].left = 0, NEW i \in 1..n
        PROVE  s[i].left = 0
    BY <1>4, <2>1, <2>4
  <2> QED BY <2>3, <2>4
<1>19. f[n] \in Shares
  BY <1>3
<1> HIDE DEF Clean
<1> QED BY <1>13, <1>17, <1>18, <1>19

LEMMA PriceFacts ==
    ASSUME SearchInv, NEW p \in ToSet(paths)
    PROVE  /\ RealizedPrice(p) \in Shares
           /\ RealizedPrice(p).num = Last(p.legs).out
           /\ RealizedPrice(p).den = Head(p.legs).used
<1>1. /\ p.legs \in Seq(Walk) /\ Len(p.legs) \in Nat /\ Len(p.legs) >= 1
      /\ \A i \in 1..Len(p.legs) :
            /\ p.legs[i] \in Walk /\ p.legs[i].out \in Nat \ {0}
            /\ IsBill(p.legs[i], p.legs[i].asked)
  BY LegFacts
<1>2. 1 \in 1..Len(p.legs) /\ Len(p.legs) \in 1..Len(p.legs)
  BY <1>1
<1>3. Head(p.legs) = p.legs[1] /\ Last(p.legs) = p.legs[Len(p.legs)]
  BY <1>1 DEF Last
<1>4. p.legs[1].used \in Nat /\ p.legs[1].used # 0
  BY <1>1, <1>2 DEF IsBill, Walk
<1>5. p.legs[Len(p.legs)].out \in Nat
  BY <1>1, <1>2
<1> QED BY <1>3, <1>4, <1>5 DEF RealizedPrice, Shares

LEMMA ResidualsIsNat ==
    ASSUME SearchInv, NEW p \in ToSet(paths)
    PROVE  Residuals(p) \in Nat
<1>1. Len(p.legs) \in Nat /\ DOMAIN p.legs = 1..Len(p.legs)
  BY LegFacts
<1>2. IsFiniteSet(1..Len(p.legs))
  BY <1>1, FS_Interval
<1>3. {i \in DOMAIN p.legs : p.legs[i].left > 0} \in SUBSET (1..Len(p.legs))
  BY <1>1
<1>4. IsFiniteSet({i \in DOMAIN p.legs : p.legs[i].left > 0})
  BY <1>2, <1>3, FS_Subset
<1> QED BY <1>4, FS_CardinalityType DEF Residuals

LEMMA IdsAreDistinct ==
    ASSUME NEW a \in Currencies, NEW b \in Currencies
    PROVE  IdOf(a) \in Nat /\ (IdOf(a) = IdOf(b) => a = b)
<1>1. ASSUME NEW d \in Currencies PROVE IdOf(d) \in Nat /\ IdOrder[IdOf(d)] = d
  <2>1. IdOrder \in Seq(ToSet(IdOrder))
    BY RouteAssumption
  <2>2. DOMAIN IdOrder = 1..Len(IdOrder) /\ Len(IdOrder) \in Nat
    BY <2>1
  <2>3. \E i \in DOMAIN IdOrder : IdOrder[i] = d
    BY DEF Currencies, ToSet
  <2>4. IdOf(d) \in DOMAIN IdOrder /\ IdOrder[IdOf(d)] = d
    BY <2>3 DEF IdOf
  <2> QED BY <2>2, <2>4
<1> QED BY <1>1

-----------------------------------------------------------------------------
(* The names of the routes.                                                *)

\* The routes part at the i-th currency, and p's has the smaller id.
NamedAt(p, q, i) ==
    /\ i \in 1..Len(p.route)
    /\ \A j \in 1..(i - 1) : p.route[j] = q.route[j]
    /\ IdOf(p.route[i]) < IdOf(q.route[i])

Named(p, q) == \E i \in Nat : NamedAt(p, q, i)

LEMMA RouteFacts ==
    ASSUME SearchInv, NEW p \in ToSet(paths)
    PROVE  /\ p.route \in Seq(Currencies) /\ Len(p.route) = Len(p.legs) + 1
           /\ Len(p.legs) \in Nat /\ Len(p.legs) >= 1
           /\ DOMAIN p.route = 1..Len(p.route)
           /\ \A i \in 1..Len(p.route) : p.route[i] \in Currencies /\ IdOf(p.route[i]) \in Nat
<1>1. Len(p.route) = Len(p.legs) + 1 /\ Len(p.legs) \in Nat /\ Len(p.legs) >= 1
  BY LegFacts
<1>2. p.route \in Seq(Currencies)
  BY PathFacts DEF IsPath
<1> QED BY <1>1, <1>2, IdsAreDistinct

\* Routes of one length that differ, differ somewhere first.
LEMMA NamesDiffer ==
    ASSUME SearchInv, NEW p \in ToSet(paths), NEW q \in ToSet(paths),
           Len(p.legs) = Len(q.legs), p # q
    PROVE  /\ Named(p, q) \/ Named(q, p)
           /\ FirstByName(p, q) <=> Named(p, q)
<1>1. /\ p.route \in Seq(Currencies) /\ q.route \in Seq(Currencies)
      /\ Len(p.route) = Len(q.route) /\ Len(p.route) \in Nat
      /\ DOMAIN p.route = 1..Len(p.route) /\ DOMAIN q.route = 1..Len(p.route)
      /\ \A i \in 1..Len(p.route) : /\ p.route[i] \in Currencies /\ IdOf(p.route[i]) \in Nat
                                    /\ q.route[i] \in Currencies /\ IdOf(q.route[i]) \in Nat
  BY RouteFacts
<1>2. p.route # q.route
  <2>1. /\ p \in [route : Seq(Currencies), legs : Seq(Walk)]
        /\ q \in [route : Seq(Currencies), legs : Seq(Walk)]
        /\ p.legs = LegsOf(market, p.route, amount)
        /\ q.legs = LegsOf(market, q.route, amount)
    BY PathFacts DEF IsPath
  <2> QED BY <2>1
<1> DEFINE differ == {i \in DOMAIN p.route \cap DOMAIN q.route : p.route[i] # q.route[i]}
<1>3. differ \subseteq Nat /\ differ # {}
  <2>1. ~ \A i \in 1..Len(p.route) : p.route[i] = q.route[i]
    BY <1>1, <1>2, SameSeq
  <2> QED BY <1>1, <2>1
<1> DEFINE at == CHOOSE i \in differ : \A j \in differ : i <= j
<1>4. at \in differ /\ \A j \in differ : at <= j
  <2> HIDE DEF differ
  <2>1. \E n \in differ : \A m \in differ : n <= m
    BY <1>3, Least
  <2> QED BY <2>1
<1>5. FirstByName(p, q) <=> IdOf(p.route[at]) < IdOf(q.route[at])
  BY DEF FirstByName
<1>6. PICK d : d = at
  OBVIOUS
<1>7. /\ d \in 1..Len(p.route) /\ d \in Nat /\ p.route[d] # q.route[d]
      /\ \A j \in 1..Len(p.route) : p.route[j] # q.route[j] => d <= j
  <2>1. d \in differ /\ \A j \in differ : d <= j
    <3> HIDE DEF at, differ
    <3> QED BY <1>4, <1>6
  <2> HIDE DEF at
  <2>2. \A j : j \in differ <=> j \in 1..Len(p.route) /\ p.route[j] # q.route[j]
    BY <1>1
  <2> HIDE DEF differ
  <2>3. d \in 1..Len(p.route) /\ p.route[d] # q.route[d]
    BY <2>1, <2>2
  <2>4. d \in Nat
    BY <1>1, <2>3
  <2> QED BY <2>1, <2>2, <2>3, <2>4
<1>8. FirstByName(p, q) <=> IdOf(p.route[d]) < IdOf(q.route[d])
  <2> HIDE DEF at
  <2> QED BY <1>5, <1>6
<1> HIDE DEF at, differ
<1>9. \A j \in 1..(d - 1) : j \in 1..Len(p.route) /\ p.route[j] = q.route[j]
  BY <1>1, <1>7
<1>10. IdOf(p.route[d]) # IdOf(q.route[d])
  BY <1>1, <1>7, IdsAreDistinct
<1>11. IdOf(p.route[d]) < IdOf(q.route[d]) \/ IdOf(q.route[d]) < IdOf(p.route[d])
  BY <1>1, <1>7, <1>10
<1>12. IdOf(p.route[d]) < IdOf(q.route[d]) => Named(p, q)
  BY <1>7, <1>9 DEF Named, NamedAt
<1>13. IdOf(q.route[d]) < IdOf(p.route[d]) => Named(q, p)
  BY <1>1, <1>7, <1>9 DEF Named, NamedAt
<1>14. ASSUME NEW i \in Nat, NamedAt(p, q, i) PROVE i = d
  <2>1. i \in 1..Len(p.route) /\ IdOf(p.route[i]) < IdOf(q.route[i])
    BY <1>14 DEF NamedAt
  <2>2. p.route[i] # q.route[i]
    BY <1>1, <2>1
  <2>3. d <= i
    BY <1>7, <2>1, <2>2
  <2>4. ~(d \in 1..(i - 1))
    BY <1>7, <1>14 DEF NamedAt
  <2> QED BY <1>7, <2>3, <2>4
<1>15. Named(p, q) => IdOf(p.route[d]) < IdOf(q.route[d])
  BY <1>14 DEF Named, NamedAt
<1> QED BY <1>8, <1>11, <1>12, <1>13, <1>15

LEMMA NamedIsWeak ==
    ASSUME SearchInv, NEW x \in ToSet(paths), NEW y \in ToSet(paths), NEW z \in ToSet(paths),
           Len(x.legs) = Len(y.legs), Len(z.legs) = Len(y.legs), Named(x, y)
    PROVE  ~Named(y, x) /\ (Named(x, z) \/ Named(z, y))
<1>1. /\ Len(x.route) = Len(y.route) /\ Len(z.route) = Len(y.route) /\ Len(y.route) \in Nat
      /\ \A i \in 1..Len(y.route) : /\ x.route[i] \in Currencies /\ IdOf(x.route[i]) \in Nat
                                    /\ y.route[i] \in Currencies /\ IdOf(y.route[i]) \in Nat
                                    /\ z.route[i] \in Currencies /\ IdOf(z.route[i]) \in Nat
  <2>1. /\ Len(x.route) = Len(y.route) /\ Len(z.route) = Len(y.route) /\ Len(y.route) \in Nat
    <3>1. /\ Len(x.route) = Len(x.legs) + 1
          /\ Len(y.route) = Len(y.legs) + 1 /\ Len(y.legs) \in Nat
          /\ Len(z.route) = Len(z.legs) + 1
      BY RouteFacts
    <3> QED BY <3>1
  <2>2. /\ \A i \in 1..Len(x.route) : x.route[i] \in Currencies /\ IdOf(x.route[i]) \in Nat
        /\ \A i \in 1..Len(y.route) : y.route[i] \in Currencies /\ IdOf(y.route[i]) \in Nat
        /\ \A i \in 1..Len(z.route) : z.route[i] \in Currencies /\ IdOf(z.route[i]) \in Nat
    BY RouteFacts
  <2> QED BY <2>1, <2>2
<1>2. PICK i \in Nat : NamedAt(x, y, i)
  BY DEF Named
<1>3. /\ i \in 1..Len(y.route) /\ IdOf(x.route[i]) < IdOf(y.route[i])
      /\ \A j \in 1..(i - 1) : x.route[j] = y.route[j]
  BY <1>1, <1>2 DEF NamedAt
<1>4. ASSUME NEW k \in Nat, NamedAt(y, x, k) PROVE FALSE
  <2>1. /\ k \in 1..Len(y.route) /\ IdOf(y.route[k]) < IdOf(x.route[k])
        /\ \A j \in 1..(k - 1) : y.route[j] = x.route[j]
    BY <1>4 DEF NamedAt
  <2>2. ~(k < i)
    <3>1. k < i => k \in 1..(i - 1)
      BY <1>1, <1>3, <2>1
    <3> QED BY <1>1, <1>3, <2>1, <3>1
  <2>3. ~(i < k)
    <3>1. i < k => i \in 1..(k - 1)
      BY <1>1, <1>3, <2>1
    <3> QED BY <1>1, <1>3, <2>1, <3>1
  <2>4. i = k
    BY <1>3, <2>2, <2>3
  <2> QED BY <1>1, <1>3, <2>1, <2>4
<1> DEFINE D == {j \in 1..i : z.route[j] # x.route[j] \/ z.route[j] # y.route[j]}
<1>5. D \subseteq Nat /\ i \in D
  <2>1. x.route[i] # y.route[i]
    BY <1>1, <1>3
  <2> QED BY <1>3, <2>1
<1>6. PICK d \in D : \A j \in D : d <= j
  <2> HIDE DEF D
  <2> QED BY <1>5, Least
<1>7. /\ d \in 1..i /\ d \in 1..Len(y.route) /\ d \in Nat
      /\ z.route[d] # x.route[d] \/ z.route[d] # y.route[d]
  BY <1>1, <1>3, <1>6
<1>8. ASSUME NEW j \in 1..(d - 1)
      PROVE  z.route[j] = x.route[j] /\ z.route[j] = y.route[j] /\ x.route[j] = y.route[j]
  <2>1. j \in 1..i /\ j \in Nat /\ ~(d <= j)
    BY <1>3, <1>7
  <2>2. j \notin D
    <3> HIDE DEF D
    <3> QED BY <1>6, <2>1
  <2> QED BY <2>1, <2>2
<1> HIDE DEF D
<1>9. Named(x, z) \/ Named(z, y)
  <2>1. IdOf(x.route[d]) < IdOf(z.route[d]) => Named(x, z)
    BY <1>1, <1>7, <1>8 DEF Named, NamedAt
  <2>2. IdOf(z.route[d]) < IdOf(y.route[d]) => Named(z, y)
    BY <1>1, <1>7, <1>8 DEF Named, NamedAt
  <2>3. IdOf(x.route[d]) < IdOf(z.route[d]) \/ IdOf(z.route[d]) < IdOf(y.route[d])
    <3>1. CASE d = i
      BY <1>1, <1>3, <1>7, <3>1
    <3>2. CASE d # i
      <4>1. d \in 1..(i - 1)
        BY <1>7, <3>2
      <4>2. x.route[d] = y.route[d]
        BY <1>3, <4>1
      <4>3. IdOf(z.route[d]) # IdOf(x.route[d])
        BY <1>1, <1>7, <4>2, IdsAreDistinct
      <4> QED BY <1>1, <1>7, <4>2, <4>3
    <3> QED BY <3>1, <3>2
  <2> QED BY <2>1, <2>2, <2>3
<1> QED BY <1>4, <1>9 DEF Named

-----------------------------------------------------------------------------
(* The four keys, and the order they make.                                 *)

Earlier(p, q) ==
    \/ Len(p.legs) < Len(q.legs)
    \/ Len(p.legs) = Len(q.legs) /\ Named(p, q)

ByStuck(T)     == {x \in T \X T : Less(WorstStranded(x[1]), WorstStranded(x[2]))}
ByPrice(T)     == {x \in T \X T : Less(RealizedPrice(x[2]), RealizedPrice(x[1]))}
ByResiduals(T) == {x \in T \X T : Residuals(x[1]) < Residuals(x[2])}
ByName(T)      == {x \in T \X T : Earlier(x[1], x[2])}

LEMMA KeysAreWeak ==
    ASSUME SearchInv
    PROVE  LET T == ToSet(paths)
           IN  /\ WeakOrder(ByStuck(T), T) /\ WeakOrder(ByPrice(T), T)
               /\ WeakOrder(ByResiduals(T), T) /\ WeakOrder(ByName(T), T)
<1> DEFINE T == ToSet(paths)
<1>1. WeakOrder(ByStuck(T), T)
  <2>1. \A x \in T : WorstStranded(x) \in Shares
    BY StuckFacts
  <2>2. \A x, y \in T : <<x, y>> \in ByStuck(T) <=> Less(WorstStranded(x), WorstStranded(y))
    BY DEF ByStuck
  <2> HIDE DEF T
  <2> QED BY <2>1, <2>2, LessIsWeak DEF WeakOrder
<1>2. WeakOrder(ByPrice(T), T)
  <2>1. \A x \in T : RealizedPrice(x) \in Shares
    BY PriceFacts
  <2>2. \A x, y \in T : <<x, y>> \in ByPrice(T) <=> Less(RealizedPrice(y), RealizedPrice(x))
    BY DEF ByPrice
  <2> HIDE DEF T
  <2> QED BY <2>1, <2>2, LessIsWeak DEF WeakOrder
<1>3. WeakOrder(ByResiduals(T), T)
  <2>1. \A x \in T : Residuals(x) \in Nat
    BY ResidualsIsNat
  <2>2. \A x, y \in T : <<x, y>> \in ByResiduals(T) <=> Residuals(x) < Residuals(y)
    BY DEF ByResiduals
  <2> HIDE DEF T
  <2> QED BY <2>1, <2>2 DEF WeakOrder
<1>4. WeakOrder(ByName(T), T)
  <2>1. \A x \in T : Len(x.legs) \in Nat
    BY LegFacts
  <2>2. \A x, y \in T : <<x, y>> \in ByName(T) <=> Earlier(x, y)
    BY DEF ByName
  <2>3. ASSUME NEW x \in T, NEW y \in T, NEW z \in T, Earlier(x, y)
        PROVE  ~Earlier(y, x) /\ (Earlier(x, z) \/ Earlier(z, y))
    <3>1. CASE Len(x.legs) < Len(y.legs)
      BY <2>1, <3>1 DEF Earlier
    <3>2. CASE Len(x.legs) = Len(y.legs) /\ Named(x, y)
      <4>1. Len(z.legs) = Len(y.legs) => ~Named(y, x) /\ (Named(x, z) \/ Named(z, y))
        BY <3>2, NamedIsWeak
      <4>2. ~Named(y, x)
        BY <3>2, NamedIsWeak
      <4> QED BY <2>1, <3>2, <4>1, <4>2 DEF Earlier
    <3> QED BY <2>3, <3>1, <3>2 DEF Earlier
  <2> HIDE DEF T
  <2> QED BY <2>2, <2>3 DEF WeakOrder
<1> QED BY <1>1, <1>2, <1>3, <1>4

Ranking(T) == Then(ByStuck(T), Then(ByPrice(T), Then(ByResiduals(T), ByName(T), T), T), T)

\* Two different routes are told apart by some key.
LEMMA RankingIsOrder ==
    ASSUME SearchInv
    PROVE  /\ IsOrder(Ranking(ToSet(paths)), ToSet(paths))
           /\ \A p, q \in ToSet(paths) :
                 p # q => (Outranks(p, q) <=> <<p, q>> \in Ranking(ToSet(paths)))
<1> DEFINE T == ToSet(paths)
<1>1. WeakOrder(Ranking(T), T)
  <2>1. /\ WeakOrder(ByStuck(T), T) /\ WeakOrder(ByPrice(T), T)
        /\ WeakOrder(ByResiduals(T), T) /\ WeakOrder(ByName(T), T)
    BY KeysAreWeak
  <2> HIDE DEF T
  <2>2. WeakOrder(Then(ByResiduals(T), ByName(T), T), T)
    BY <2>1, ThenIsWeak
  <2>3. WeakOrder(Then(ByPrice(T), Then(ByResiduals(T), ByName(T), T), T), T)
    BY <2>1, <2>2, ThenIsWeak
  <2> QED BY <2>1, <2>3, ThenIsWeak DEF Ranking
<1>2. \A x \in T : Len(x.legs) \in Nat /\ Residuals(x) \in Nat
  BY LegFacts, ResidualsIsNat
<1>3. ASSUME NEW A, NEW B, NEW x \in T, NEW y \in T
      PROVE  <<x, y>> \in Then(A, B, T) <=>
                 <<x, y>> \in A \/ (<<y, x>> \notin A /\ <<x, y>> \in B)
  <2> HIDE DEF T
  <2> QED BY DEF Then
<1>4. ASSUME NEW p \in T, NEW q \in T
      PROVE  /\ <<p, q>> \in ByStuck(T) <=> Less(WorstStranded(p), WorstStranded(q))
             /\ <<p, q>> \in ByPrice(T) <=> Less(RealizedPrice(q), RealizedPrice(p))
             /\ <<p, q>> \in ByResiduals(T) <=> Residuals(p) < Residuals(q)
             /\ <<p, q>> \in ByName(T) <=> Earlier(p, q)
  BY DEF ByStuck, ByPrice, ByResiduals, ByName
<1>5. ASSUME NEW p \in T, NEW q \in T
      PROVE  <<p, q>> \in Ranking(T) <=>
                 \/ <<p, q>> \in ByStuck(T)
                 \/ /\ <<q, p>> \notin ByStuck(T)
                    /\ \/ <<p, q>> \in ByPrice(T)
                       \/ /\ <<q, p>> \notin ByPrice(T)
                          /\ \/ <<p, q>> \in ByResiduals(T)
                             \/ /\ <<q, p>> \notin ByResiduals(T)
                                /\ <<p, q>> \in ByName(T)
  <2> HIDE DEF T
  <2> QED BY <1>3 DEF Ranking
<1>6. ASSUME NEW p \in T, NEW q \in T, p # q
      PROVE  Outranks(p, q) <=> <<p, q>> \in Ranking(T)
  <2>1. Len(p.legs) = Len(q.legs) => (FirstByName(p, q) <=> Named(p, q))
    BY <1>6, NamesDiffer
  <2>2. \/ <<p, q>> \in ByResiduals(T)
        \/ <<q, p>> \notin ByResiduals(T) /\ <<p, q>> \in ByName(T)
        <=> \/ Residuals(p) < Residuals(q)
            \/ /\ Residuals(p) = Residuals(q)
               /\ \/ Len(p.legs) < Len(q.legs)
                  \/ Len(p.legs) = Len(q.legs) /\ FirstByName(p, q)
    <3> HIDE DEF T
    <3> QED BY <1>2, <1>4, <2>1 DEF Earlier
  <2> HIDE DEF T
  <2> QED BY <1>4, <1>5, <2>2 DEF Outranks
<1>7. ASSUME NEW p \in T, NEW q \in T, p # q
      PROVE  <<p, q>> \in Ranking(T) \/ <<q, p>> \in Ranking(T)
  <2>1. Len(p.legs) = Len(q.legs) => Named(p, q) \/ Named(q, p)
    BY <1>7, NamesDiffer
  <2> HIDE DEF T
  <2>2. <<p, q>> \in ByName(T) \/ <<q, p>> \in ByName(T)
    BY <1>2, <1>4, <2>1 DEF Earlier
  <2> QED BY <1>5, <2>2
<1>8. IsOrder(Ranking(T), T)
  <2> HIDE DEF T
  <2> QED BY <1>1, <1>7, WeakIsOrder
<1> QED BY <1>6, <1>8

\* The routes are finitely many, so the ranking has a head.
LEMMA BestExists ==
    ASSUME SearchInv, paths # <<>>
    PROVE  /\ BestPath \in ToSet(paths)
           /\ \A q \in ToSet(paths) \ {BestPath} : Outranks(BestPath, q)
<1> DEFINE T == ToSet(paths)
<1>1. paths \in Seq([route : Seq(Currencies), legs : Seq(Walk)])
  BY StateFacts DEF AllPaths
<1>2. Len(paths) \in Nat /\ DOMAIN paths = 1..Len(paths) /\ paths \in [1..Len(paths) -> T]
  BY <1>1 DEF ToSet
<1>3. T # {}
  <2>1. Len(paths) # 0
    BY <1>1, EmptyIs
  <2>2. 1 \in 1..Len(paths)
    BY <1>2, <2>1
  <2>3. paths[1] \in T
    BY <1>2, <2>2
  <2> QED BY <2>3
<1>4. IsFiniteSet(T)
  <2>1. IsFiniteSet(1..Len(paths))
    BY <1>2, FS_Interval
  <2>2. \A x \in T : \E i \in 1..Len(paths) : paths[i] = x
    BY <1>2 DEF ToSet
  <2>3. paths \in Surjection(1..Len(paths), T)
    <3> HIDE DEF T
    <3> QED BY <1>2, <2>2 DEF Surjection
  <2> QED BY <2>1, <2>3, FS_Surjection
<1>5. /\ IsOrder(Ranking(T), T)
      /\ \A p, q \in T : p # q => (Outranks(p, q) <=> <<p, q>> \in Ranking(T))
  BY RankingIsOrder
<1> HIDE DEF T
<1>6. PICK x \in T : IsFirst(x, Ranking(T), T)
  BY <1>3, <1>4, <1>5, FirstExists
<1>7. \A q \in T \ {x} : Outranks(x, q)
  BY <1>5, <1>6 DEF IsFirst
<1> USE DEF T
<1>8. \E p \in ToSet(paths) : \A q \in ToSet(paths) \ {p} : Outranks(p, q)
  BY <1>7
<1> QED BY <1>8 DEF BestPath

\* compare_paths puts first a route that traps nothing in a middle currency,
\* if there is one, and of those none that another beats in the price paid.
THEOREM TheBestIsBest == Spec => []BestTrapsNothingAndPaysMost
<1> DEFINE clean(p) == \A i \in 2..Len(p.legs) : p.legs[i].left = 0
           beats(p, q) == Last(p.legs).out * Head(q.legs).used
                              > Last(q.legs).out * Head(p.legs).used
<1>1. ASSUME SearchInv, paths # <<>>, NEW p \in ToSet(paths), clean(p)
      PROVE  clean(BestPath) /\ ~beats(p, BestPath)
  <2>1. PICK best : best = BestPath
    OBVIOUS
  <2>2. best \in ToSet(paths) /\ (p # best => Outranks(best, p))
    BY <1>1, <2>1, BestExists
  <2>3. /\ WorstStranded(p) \in Shares /\ WorstStranded(best) \in Shares
        /\ WorstStranded(p).num = 0 <=> clean(p)
        /\ WorstStranded(best).num = 0 <=> clean(best)
    BY <1>1, <2>2, StuckFacts
  <2>4. /\ RealizedPrice(p) \in Shares /\ RealizedPrice(best) \in Shares
        /\ RealizedPrice(p).num = Last(p.legs).out /\ RealizedPrice(p).den = Head(p.legs).used
        /\ RealizedPrice(best).num = Last(best.legs).out
        /\ RealizedPrice(best).den = Head(best.legs).used
    BY <1>1, <2>2, PriceFacts
  <2>5. /\ Last(p.legs).out * Head(best.legs).used \in Nat
        /\ Last(best.legs).out * Head(p.legs).used \in Nat
    BY <2>4, MulNats DEF Shares
  <2>6. beats(p, best) <=> Less(RealizedPrice(best), RealizedPrice(p))
    <3>1. Less(RealizedPrice(best), RealizedPrice(p)) <=>
             Last(best.legs).out * Head(p.legs).used < Last(p.legs).out * Head(best.legs).used
      BY <2>4 DEF Less
    <3> QED BY <2>5, <3>1
  <2> HIDE DEF clean, beats
  <2>7. CASE p = best
    <3>1. ~Less(RealizedPrice(p), RealizedPrice(p))
      BY <2>4, LessIsWeak
    <3> QED BY <1>1, <2>1, <2>6, <2>7, <3>1
  <2>8. CASE p # best
    <3>1. ~Less(WorstStranded(best), WorstStranded(p))
      <4>1. WorstStranded(p).num = 0 /\ WorstStranded(best).num \in Nat
            /\ WorstStranded(p).den \in Nat
        BY <1>1, <2>3 DEF Shares
      <4>2. /\ 0 * WorstStranded(best).den = 0
            /\ WorstStranded(best).num * WorstStranded(p).den \in Nat
        BY <2>3, <4>1, MulNats DEF Shares
      <4> QED BY <4>1, <4>2 DEF Less
    <3>2. /\ ~Less(WorstStranded(p), WorstStranded(best))
          /\ ~Less(RealizedPrice(best), RealizedPrice(p))
      BY <2>2, <2>3, <2>4, <2>8, <3>1, LessIsWeak DEF Outranks
    <3>3. WorstStranded(best).num = 0
      <4>1. /\ WorstStranded(p).num = 0 /\ WorstStranded(best).num \in Nat
            /\ WorstStranded(p).den \in Nat \ {0} /\ WorstStranded(best).den \in Nat
        BY <1>1, <2>3 DEF Shares
      <4>2. ~(0 * WorstStranded(best).den < WorstStranded(best).num * WorstStranded(p).den)
        BY <3>2, <4>1 DEF Less
      <4>3. 0 * WorstStranded(best).den = 0
        BY <4>1
      <4>4. WorstStranded(best).num > 0 => WorstStranded(best).num * WorstStranded(p).den > 0
        BY <4>1, MulNats
      <4> QED BY <4>1, <4>2, <4>3, <4>4
    <3> QED BY <2>1, <2>3, <2>6, <3>2, <3>3
  <2> QED BY <2>7, <2>8
<1>2. SearchInv => BestTrapsNothingAndPaysMost
  BY <1>1 DEF BestTrapsNothingAndPaysMost
<1> QED BY <1>2, SearchInvariant, PTL
=============================================================================
