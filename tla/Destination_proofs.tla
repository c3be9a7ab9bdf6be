-------------------------- MODULE Destination_proofs --------------------------
(***************************************************************************)
(* Proofs about Destination, for any roots, requests and trees of          *)
(* directories and links, and any number of changes to them: what a path   *)
(* leads to, how that changes when the tree does, and what holds of a      *)
(* validation whatever happens on the NAS meanwhile.                       *)
(*                                                                         *)
(* Clean, Walk and Leads are recursive functions.  The library's induction *)
(* theorems take an operator and cannot be used; UpTo and FromTo are the   *)
(* same for a set, from the well-foundedness of the naturals, and          *)
(* StepsExist gives the functions their recursive equations.               *)
(***************************************************************************)
EXTENDS Destination, SequenceTheorems, FiniteSetTheorems, WellFoundedInduction, TLAPS

-----------------------------------------------------------------------------
(* Numbers: every set of them has a smallest member, and induction up to a     *)
(* bound, for a set.                                                           *)

LEMMA SmallestExists ==
  ASSUME NEW S \in SUBSET Nat, S # {}
  PROVE  \E x \in S : \A y \in S : x <= y
<1>1. PICK x \in S : \A y \in S : ~(<<y, x>> \in OpToRel(<, Nat))
  BY NatLessThanWellFounded, WFMin
<1>2. ASSUME NEW y \in S PROVE x <= y
  <2>1. x \in Nat /\ y \in Nat
    OBVIOUS
  <2>2. y < x => <<y, x>> \in OpToRel(<, Nat)
    BY <2>1, Zenon DEF OpToRel
  <2>3. ~(y < x)
    BY <1>1, <2>2
  <2> QED
    BY <2>1, <2>3
<1> QED
  BY <1>2

(* Induction up to a bound, for a set of numbers. *)
LEMMA UpTo ==
  ASSUME NEW n \in Nat, NEW S, 0 \in S, \A k \in 0..n - 1 : k \in S => k + 1 \in S
  PROVE  0..n \subseteq S
<1> DEFINE T == {k \in 0..n : k \notin S}
<1> SUFFICES ASSUME T # {} PROVE FALSE
  OBVIOUS
<1>1. T \in SUBSET Nat
  OBVIOUS
<1>2. PICK k \in T : \A i \in T : k <= i
  <2> HIDE DEF T
  <2> QED
    BY <1>1, SmallestExists
<1>3. k \in 0..n /\ k \notin S /\ k # 0
  OBVIOUS
<1>4. k - 1 \in 0..n - 1 /\ k - 1 \notin T /\ k - 1 \in 0..n
  <2>1. k \in Nat /\ k - 1 < k
    BY <1>3
  <2> QED
    BY <1>2, <1>3, <2>1
<1>5. k - 1 \in S
  BY <1>4
<1> QED
  BY <1>3, <1>4, <1>5

LEMMA FromTo ==
  ASSUME NEW a \in Nat, NEW b \in Nat, NEW S, a \in S, \A k \in a..b - 1 : k \in S => k + 1 \in S
  PROVE  a..b \subseteq S
<1> DEFINE T == {k \in 0..b : k >= a => k \in S}
<1>1. 0 \in T
  OBVIOUS
<1>2. ASSUME NEW k \in 0..b - 1, k \in T PROVE k + 1 \in T
  BY <1>2
<1>3. 0..b \subseteq T
  <2> HIDE DEF T
  <2> QED
    BY <1>1, <1>2, UpTo
<1> QED
  BY <1>3

(* f is what the first n of some steps make of b, each a function on X. *)
Follows(f, n, X, b, step) ==
    f \in [0..n -> X] /\ f[0] = b /\ \A k \in 1..n : f[k] = step[k][f[k - 1]]

LEMMA StepsExist ==
  ASSUME NEW n \in Nat, NEW X, NEW b \in X, NEW step \in [1..n -> [X -> X]]
  PROVE  \E f : Follows(f, n, X, b, step)
<1> DEFINE Good(m, f) == f \in [0..m -> X] /\ f[0] = b /\ \A k \in 1..m : f[k] = step[k][f[k - 1]]
           S == {m \in 0..n : \E f : Good(m, f)}
<1>1. 0 \in S
  <2>1. Good(0, [k \in 0..0 |-> b])
    OBVIOUS
  <2> HIDE DEF Good
  <2> QED
    BY <2>1
<1>2. ASSUME NEW m \in 0..n - 1, m \in S PROVE m + 1 \in S
  <2>1. PICK f : Good(m, f)
    BY <1>2
  <2> DEFINE g == [k \in 0..m + 1 |-> IF k = m + 1 THEN step[m + 1][f[m]] ELSE f[k]]
  <2>2. f[m] \in X /\ m + 1 \in 1..n /\ step[m + 1] \in [X -> X]
    BY <2>1
  <2>3. step[m + 1][f[m]] \in X
    BY <2>2
  <2>4. g \in [0..m + 1 -> X] /\ g[0] = b /\ g[m + 1] = step[m + 1][f[m]] /\ \A k \in 0..m : g[k] = f[k]
    BY <2>1, <2>3
  <2>5. ASSUME NEW k \in 1..m + 1 PROVE g[k] = step[k][g[k - 1]]
    <3>1. CASE k = m + 1
      <4>1. k - 1 = m /\ m \in 0..m
        BY <3>1
      <4> QED
        BY <2>4, <3>1, <4>1
    <3>2. CASE k # m + 1
      <4>1. k \in 1..m /\ k \in 0..m /\ k - 1 \in 0..m
        BY <3>2
      <4> QED
        BY <2>1, <2>4, <4>1
    <3> QED
      BY <3>1, <3>2
  <2>6. Good(m + 1, g)
    <3> HIDE DEF g
    <3> QED
      BY <2>4, <2>5
  <2>7. m + 1 \in 0..n
    OBVIOUS
  <2> HIDE DEF Good
  <2> QED
    BY <2>6, <2>7
<1>3. n \in S
  <2>1. 0..n \subseteq S
    <3> HIDE DEF S
    <3> QED
      BY <1>1, <1>2, UpTo
  <2> QED
    BY <2>1
<1> QED
  BY <1>3 DEF Follows

(* A walk begins at "/" and goes on one component at a time. *)
LEMMA WalkSteps ==
  ASSUME NEW D, << >> \in D, NEW L, NEW p, Len(p) \in Nat
  PROVE  /\ Walk(D, L, p)[0] = << >>
         /\ \A k \in 1..Len(p) : Walk(D, L, p)[k] = Enter(D, L, Walk(D, L, p)[k - 1], p[k])
         /\ \A k \in 0..Len(p) : Walk(D, L, p)[k] \in D \cup {Nowhere}
<1> DEFINE n == Len(p)
           X == D \cup {Nowhere}
           step == [k \in 1..n |-> [d \in X |-> Enter(D, L, d, p[k])]]
           Is(f) == f = [k \in 0..n |-> IF k = 0 THEN << >> ELSE Enter(D, L, f[k - 1], p[k])]
<1>1. \A d, c : Enter(D, L, d, c) \in X
  BY DEF Enter
<1>2. step \in [1..n -> [X -> X]]
  <2> HIDE DEF X
  <2> QED
    BY <1>1
<1>3. PICK f \in [0..n -> X] : f[0] = << >> /\ \A k \in 1..n : f[k] = step[k][f[k - 1]]
  <2> DEFINE b == << >>
  <2>1. b \in X /\ n \in Nat
    OBVIOUS
  <2> HIDE DEF X, step, b, n
  <2>2. PICK f : Follows(f, n, X, b, step)
    BY <1>2, <2>1, StepsExist, Zenon
  <2> QED
    BY <2>2 DEF b, Follows
<1>4. \A k \in 1..n : f[k] = Enter(D, L, f[k - 1], p[k])
  <2> SUFFICES ASSUME NEW k \in 1..n PROVE f[k] = Enter(D, L, f[k - 1], p[k])
    OBVIOUS
  <2>1. k - 1 \in 0..n
    OBVIOUS
  <2>2. f[k - 1] \in X
    BY <2>1
  <2>3. step[k][f[k - 1]] = Enter(D, L, f[k - 1], p[k])
    <3> HIDE DEF X
    <3> QED
      BY <2>2
  <2> QED
    BY <1>3, <2>3
<1>5. Is(f)
  <2> DEFINE g == [k \in 0..n |-> IF k = 0 THEN << >> ELSE Enter(D, L, f[k - 1], p[k])]
  <2>1. \A k \in 0..n : f[k] = g[k]
    <3> SUFFICES ASSUME NEW k \in 0..n PROVE f[k] = g[k]
      OBVIOUS
    <3>1. k = 0 \/ k \in 1..n
      OBVIOUS
    <3> QED
      BY <1>3, <1>4, <3>1
  <2>2. f = [k \in 0..n |-> f[k]]
    OBVIOUS
  <2>3. f = g
    BY <2>1, <2>2
  <2> QED
    BY <2>3
<1>6. Walk(D, L, p) = CHOOSE h : Is(h)
  BY DEF Walk
<1>7. Is(Walk(D, L, p))
  <2> HIDE DEF Is
  <2> QED
    BY <1>5, <1>6
<1> DEFINE w == Walk(D, L, p)
<1>8. /\ w[0] = << >> /\ \A k \in 1..n : w[k] = Enter(D, L, w[k - 1], p[k])
  <2>1. w = [k \in 0..n |-> IF k = 0 THEN << >> ELSE Enter(D, L, w[k - 1], p[k])]
    BY <1>7
  <2> HIDE DEF w
  <2>2. 0 \in 0..n /\ \A k \in 1..n : k \in 0..n /\ k # 0
    OBVIOUS
  <2> QED
    BY <2>1, <2>2
<1>9. \A k \in 0..n : w[k] \in X
  <2> HIDE DEF w
  <2> SUFFICES ASSUME NEW k \in 0..n PROVE w[k] \in X
    OBVIOUS
  <2>1. k = 0 \/ k \in 1..n
    OBVIOUS
  <2> QED
    BY <1>1, <1>8, <2>1
<1> QED
  BY <1>8, <1>9

(* What Clean makes is a path. *)
LEMMA CleanIsAPath ==
  ASSUME NEW parts \in Seq(STRING)
  PROVE  Clean(parts) \in Seq(STRING)
<1> DEFINE n == Len(parts)
           X == Seq(STRING)
           b == << >>
           Next1(p, k) == CASE parts[k] = "."  -> p
                            [] parts[k] = ".." -> Up(p)
                            [] OTHER           -> Append(p, parts[k])
           step == [k \in 1..n |-> [p \in X |-> Next1(p, k)]]
           Is(f) == f = [k \in 0..n |-> IF k = 0 THEN b ELSE Next1(f[k - 1], k)]
<1>1. \A p \in X, k \in 1..n : Next1(p, k) \in X
  <2> SUFFICES ASSUME NEW p \in X, NEW k \in 1..n PROVE Next1(p, k) \in X
    OBVIOUS
  <2>1. Append(p, parts[k]) \in X
    OBVIOUS
  <2>2. Up(p) \in X
    <3>1. CASE p = << >>
      BY <3>1 DEF Up
    <3>2. CASE p # << >>
      <4>1. Up(p) = SubSeq(p, 1, Len(p) - 1)
        BY <3>2 DEF Up, Front
      <4>2. Len(p) \in Nat /\ 1 \in Int /\ Len(p) - 1 \in Int /\ \A i \in 1..Len(p) - 1 : p[i] \in STRING
        OBVIOUS
      <4> QED
        BY <4>1, <4>2, SubSeqProperties
    <3> QED
      BY <3>1, <3>2
  <2> QED
    BY <2>1, <2>2
<1>2. step \in [1..n -> [X -> X]] /\ b \in X /\ n \in Nat
  <2>1. b \in X /\ n \in Nat
    OBVIOUS
  <2> HIDE DEF X, Next1
  <2> QED
    BY <1>1, <2>1
<1>3. PICK f \in [0..n -> X] : f[0] = b /\ \A k \in 1..n : f[k] = step[k][f[k - 1]]
  <2> HIDE DEF X, step, b, n
  <2>1. PICK f : Follows(f, n, X, b, step)
    BY <1>2, StepsExist, Zenon
  <2> QED
    BY <2>1 DEF Follows
<1> HIDE DEF X, Next1, b, n
<1>4. Is(f)
  <2> DEFINE g == [k \in 0..n |-> IF k = 0 THEN b ELSE Next1(f[k - 1], k)]
  <2>1. \A k \in 0..n : f[k] = g[k]
    <3> SUFFICES ASSUME NEW k \in 0..n PROVE f[k] = g[k]
      OBVIOUS
    <3>1. CASE k = 0
      BY <1>3, <3>1
    <3>2. CASE k # 0
      <4>1. k \in 1..n /\ k - 1 \in 0..n
        BY <1>2, <3>2
      <4>2. f[k - 1] \in X
        BY <4>1
      <4>3. step[k][f[k - 1]] = Next1(f[k - 1], k)
        BY <4>1, <4>2
      <4> QED
        BY <1>3, <3>2, <4>1, <4>3
    <3> QED
      BY <3>1, <3>2
  <2>2. f = [k \in 0..n |-> f[k]]
    OBVIOUS
  <2>3. f = g
    BY <2>1, <2>2
  <2> QED
    BY <2>3
<1>5. Clean(parts) = (CHOOSE h : Is(h))[n]
  BY DEF Clean, Next1, b, n
<1> DEFINE c == CHOOSE h : Is(h)
<1>6. c = [k \in 0..n |-> IF k = 0 THEN b ELSE Next1(c[k - 1], k)]
  <2>1. Is(c)
    <3> HIDE DEF Is
    <3> QED
      BY <1>4
  <2> QED
    BY <2>1
<1> HIDE DEF c
<1> DEFINE S == {k \in 0..n : c[k] \in X}
<1>7. 0..n \subseteq S
  <2>1. 0 \in S
    BY <1>2, <1>6
  <2>2. ASSUME NEW k \in 0..n - 1, k \in S PROVE k + 1 \in S
    <3>1. k + 1 \in 0..n /\ k + 1 \in 1..n /\ k + 1 # 0 /\ (k + 1) - 1 = k
      BY <1>2
    <3>2. c[k + 1] = Next1(c[k], k + 1)
      BY <1>6, <3>1
    <3> QED
      BY <1>1, <2>2, <3>1, <3>2
  <2> HIDE DEF S
  <2> QED
    BY <1>2, <2>1, <2>2, UpTo, Zenon
<1> QED
  BY <1>2, <1>5, <1>7 DEF c, X

-----------------------------------------------------------------------------
Path == Seq(STRING)
Take(p, k) == SubSeq(p, 1, k)

(* The first k components of a path. *)
LEMMA TakeFacts ==
  ASSUME NEW p \in Path, NEW k \in 0..Len(p)
  PROVE  Take(p, k) \in Path /\ Len(Take(p, k)) = k /\ \A i \in 1..k : Take(p, k)[i] = p[i]
<1>1. Len(p) \in Nat /\ \A i \in 1..k : p[i] \in STRING
  BY DEF Path
<1>2. /\ SubSeq(p, 1, k) \in Seq(STRING)
      /\ Len(SubSeq(p, 1, k)) = IF 1 <= k THEN k - 1 + 1 ELSE 0
      /\ \A i \in 1..k - 1 + 1 : SubSeq(p, 1, k)[i] = p[1 + i - 1]
  BY <1>1, SubSeqProperties
<1> QED
  BY <1>1, <1>2 DEF Take, Path

(* Two paths with the same components are the same. *)
LEMMA SamePath ==
  ASSUME NEW p \in Path, NEW q \in Path, Len(p) = Len(q), \A i \in 1..Len(p) : p[i] = q[i]
  PROVE  p = q
  BY SeqEqual DEF Path

LEMMA TakeAll ==
  ASSUME NEW p \in Path
  PROVE  Take(p, 0) = << >> /\ Take(p, Len(p)) = p /\ Len(p) \in Nat /\ (p = << >> <=> Len(p) = 0)
<1>1. Len(p) \in Nat /\ (p = << >> <=> Len(p) = 0) /\ << >> \in Path /\ Len(<< >>) = 0
  BY DEF Path
<1>2. Take(p, Len(p)) = p
  BY <1>1, TakeFacts, SamePath
<1>3. Take(p, 0) = << >>
  <2>1. Take(p, 0) \in Path /\ Len(Take(p, 0)) = 0
    BY <1>1, TakeFacts
  <2> QED
    BY <2>1 DEF Path
<1> QED
  BY <1>1, <1>2, <1>3

LEMMA TakeTake ==
  ASSUME NEW p \in Path, NEW k \in 0..Len(p), NEW j \in 0..k
  PROVE  Take(Take(p, k), j) = Take(p, j)
<1>1. Len(p) \in Nat /\ j \in 0..Len(p)
  BY TakeAll
<1>2. Take(p, k) \in Path /\ Len(Take(p, k)) = k /\ \A i \in 1..k : Take(p, k)[i] = p[i]
  BY TakeFacts
<1>3. /\ Take(Take(p, k), j) \in Path /\ Len(Take(Take(p, k), j)) = j
      /\ \A i \in 1..j : Take(Take(p, k), j)[i] = Take(p, k)[i]
  BY <1>2, TakeFacts
<1>4. Take(p, j) \in Path /\ Len(Take(p, j)) = j /\ \A i \in 1..j : Take(p, j)[i] = p[i]
  BY <1>1, TakeFacts
<1>5. \A i \in 1..j : Take(Take(p, k), j)[i] = Take(p, j)[i]
  BY <1>2, <1>3, <1>4
<1> QED
  BY <1>3, <1>4, <1>5, SamePath

LEMMA UpIsTake ==
  ASSUME NEW p \in Path, p # << >>
  PROVE  Up(p) = Take(p, Len(p) - 1) /\ Len(p) - 1 \in 0..Len(p) /\ Up(p) \in Path /\ Len(Up(p)) = Len(p) - 1
<1>1. Len(p) - 1 \in 0..Len(p)
  BY TakeAll
<1>2. Up(p) = Take(p, Len(p) - 1)
  BY DEF Up, Front, Take
<1> QED
  BY <1>1, <1>2, TakeFacts

LEMMA UpAppend ==
  ASSUME NEW p \in Path, NEW n \in STRING
  PROVE  /\ Append(p, n) \in Path /\ Append(p, n) # << >> /\ Up(Append(p, n)) = p
         /\ Len(Append(p, n)) = Len(p) + 1
<1> DEFINE q == Append(p, n)
<1>1. q \in Path /\ q # << >> /\ Len(q) = Len(p) + 1 /\ \A i \in 1..Len(p) : q[i] = p[i]
  <2>1. p \in Seq(STRING)
    BY DEF Path
  <2>2. q \in Seq(STRING) /\ Len(q) = Len(p) + 1
    BY <2>1, AppendProperties
  <2>3. \A i \in 1..Len(p) : q[i] = p[i]
    BY <2>1
  <2>4. q # << >>
    BY <2>1, AppendProperties
  <2> QED
    BY <2>2, <2>3, <2>4 DEF Path
<1> HIDE DEF q
<1>2. Len(p) \in Nat
  BY TakeAll
<1>3. Up(q) = Take(q, Len(p)) /\ Len(p) \in 0..Len(q)
  BY <1>1, <1>2, UpIsTake
<1>4. Take(q, Len(p)) = p
  BY <1>1, <1>2, <1>3, TakeFacts, SamePath
<1> QED
  BY <1>1, <1>3, <1>4 DEF q

LEMMA TakeStep ==
  ASSUME NEW p \in Path, NEW k \in 1..Len(p)
  PROVE  /\ Take(p, k) = Append(Take(p, k - 1), p[k]) /\ p[k] \in STRING
         /\ Take(p, k) # << >> /\ Up(Take(p, k)) = Take(p, k - 1)
<1>1. Len(p) \in Nat /\ p[k] \in STRING /\ k \in 0..Len(p) /\ k - 1 \in 0..Len(p)
  BY DEF Path
<1>2. Take(p, k - 1) \in Path /\ Len(Take(p, k - 1)) = k - 1 /\ \A i \in 1..k - 1 : Take(p, k - 1)[i] = p[i]
  BY <1>1, TakeFacts
<1>3. Take(p, k) \in Path /\ Len(Take(p, k)) = k /\ \A i \in 1..k : Take(p, k)[i] = p[i]
  BY <1>1, TakeFacts
<1>4. /\ Append(Take(p, k - 1), p[k]) \in Path /\ Len(Append(Take(p, k - 1), p[k])) = k
      /\ \A i \in 1..k - 1 : Append(Take(p, k - 1), p[k])[i] = p[i]
      /\ Append(Take(p, k - 1), p[k])[k] = p[k]
  <2>1. /\ Append(Take(p, k - 1), p[k]) \in Path /\ Len(Append(Take(p, k - 1), p[k])) = Len(Take(p, k - 1)) + 1
        /\ \A i \in 1..Len(Take(p, k - 1)) : Append(Take(p, k - 1), p[k])[i] = Take(p, k - 1)[i]
        /\ Append(Take(p, k - 1), p[k])[Len(Take(p, k - 1)) + 1] = p[k]
    BY <1>1, <1>2, AppendProperties DEF Path
  <2> QED
    BY <1>1, <1>2, <2>1
<1>5. \A i \in 1..k : Take(p, k)[i] = Append(Take(p, k - 1), p[k])[i]
  <2> SUFFICES ASSUME NEW i \in 1..k PROVE Take(p, k)[i] = Append(Take(p, k - 1), p[k])[i]
    OBVIOUS
  <2>1. i \in 1..k - 1 \/ i = k
    OBVIOUS
  <2> QED
    BY <1>3, <1>4, <2>1
<1>6. Take(p, k) = Append(Take(p, k - 1), p[k])
  BY <1>3, <1>4, <1>5, SamePath
<1> QED
  BY <1>1, <1>2, <1>6, UpAppend

(* What a prefix is. *)
LEMMA PrefixIs ==
  ASSUME NEW u \in Path, NEW p \in Path
  PROVE  IsPrefix(u, p) <=> Len(u) <= Len(p) /\ u = Take(p, Len(u))
<1>1. SubSeq(u, 1, Len(u)) = u
  BY TakeAll DEF Take
<1> QED
  BY <1>1 DEF IsPrefix, Take

LEMMA TakeIsPrefix ==
  ASSUME NEW p \in Path, NEW k \in 0..Len(p)
  PROVE  IsPrefix(Take(p, k), p)
<1>1. Take(p, k) \in Path /\ Len(Take(p, k)) = k /\ Len(p) \in Nat
  BY TakeFacts, TakeAll
<1> QED
  BY <1>1, PrefixIs

(* Of two prefixes of a path the shorter one is a prefix of the other. *)
LEMMA PrefixesNest ==
  ASSUME NEW p \in Path, NEW u \in Path, NEW v \in Path, IsPrefix(v, p), Len(u) <= Len(v)
  PROVE  IsPrefix(u, p) <=> IsPrefix(u, v)
<1>1. Len(u) \in Nat /\ Len(v) \in Nat /\ Len(p) \in Nat
  BY TakeAll
<1>2. Len(v) <= Len(p) /\ v = Take(p, Len(v))
  BY PrefixIs
<1>3. Take(v, Len(u)) = Take(p, Len(u))
  BY <1>1, <1>2, TakeTake
<1> QED
  BY <1>1, <1>2, <1>3, PrefixIs

LEMMA PrefixOfLonger ==
  ASSUME NEW p \in Path, NEW u \in Path, NEW v \in Path, IsPrefix(u, v), IsPrefix(v, p)
  PROVE  IsPrefix(u, p)
<1>1. Len(u) <= Len(v)
  BY PrefixIs
<1> QED
  BY <1>1, PrefixesNest

LEMMA PrefixOfConcat ==
  ASSUME NEW u \in Path, NEW v \in Path
  PROVE  u \o v \in Path /\ IsPrefix(u, u \o v)
<1> DEFINE w == u \o v
<1>1. /\ w \in Path /\ Len(w) = Len(u) + Len(v)
      /\ \A i \in 1..Len(u) + Len(v) : w[i] = IF i <= Len(u) THEN u[i] ELSE v[i - Len(u)]
  BY ConcatProperties DEF Path
<1> HIDE DEF w
<1>2. Len(u) \in Nat /\ Len(v) \in Nat /\ Len(u) \in 0..Len(w)
  BY <1>1, TakeAll
<1>3. /\ Take(w, Len(u)) \in Path /\ Len(Take(w, Len(u))) = Len(u)
      /\ \A i \in 1..Len(u) : Take(w, Len(u))[i] = w[i]
  BY <1>1, <1>2, TakeFacts
<1>4. \A i \in 1..Len(u) : Take(w, Len(u))[i] = u[i]
  BY <1>1, <1>2, <1>3
<1>5. Take(w, Len(u)) = u
  BY <1>3, <1>4, SamePath
<1>6. w \in Path /\ IsPrefix(u, w)
  BY <1>1, <1>2, <1>5, PrefixIs
<1> QED
  BY <1>6 DEF w

(* What is left of a path after its first n components. *)
Drop(p, n) == SubSeq(p, n + 1, Len(p))

LEMMA DropFacts ==
  ASSUME NEW p \in Path, NEW n \in 0..Len(p), NEW w \in Path
  PROVE  /\ Drop(p, n) \in Path
         /\ n = Len(p) => w \o Drop(p, n) = w
         /\ n < Len(p) => w \o Drop(p, n) = Append(w, p[n + 1]) \o Drop(p, n + 1)
<1>1. Len(p) \in Nat /\ n \in Nat /\ p \in Seq(STRING) /\ w \in Seq(STRING)
  BY TakeAll DEF Path
<1>2. ASSUME NEW m \in 0..Len(p) PROVE Drop(p, m) \in Path
  <2>1. m + 1 \in Int /\ Len(p) \in Int /\ \A i \in m + 1..Len(p) : p[i] \in STRING
    BY <1>1
  <2> QED
    BY <2>1, SubSeqProperties DEF Drop, Path
<1>3. ASSUME n = Len(p) PROVE w \o Drop(p, n) = w
  <2>1. Drop(p, n) = << >>
    BY <1>1, <1>3, SubSeqEmpty DEF Drop
  <2> QED
    BY <1>1, <2>1, ConcatEmptySeq
<1>4. ASSUME n < Len(p) PROVE w \o Drop(p, n) = Append(w, p[n + 1]) \o Drop(p, n + 1)
  <2>1. n + 1 \in 1..Len(p) /\ Len(p) \in n + 1..Len(p) /\ n + 1 \in 0..Len(p)
    BY <1>1, <1>4
  <2> DEFINE e == p[n + 1]
             r == Drop(p, n + 1)
  <2>2. e \in STRING /\ r \in Seq(STRING) /\ <<e>> \in Seq(STRING)
    BY <1>1, <1>2, <2>1 DEF Path
  <2>3. Drop(p, n) = <<e>> \o r
    BY <1>1, <2>1, SubSeqRecursiveFirst DEF Drop
  <2> HIDE DEF e, r
  <2>4. (w \o <<e>>) \o r = w \o (<<e>> \o r)
    BY <1>1, <2>2, ConcatAssociative
  <2>5. Append(w, e) = w \o <<e>>
    BY <1>1, <2>2, AppendIsConcat
  <2>6. w \o Drop(p, n) = Append(w, e) \o r
    BY <2>3, <2>4, <2>5
  <2> QED
    BY <2>6 DEF e, r
<1> QED
  BY <1>2, <1>3, <1>4

-----------------------------------------------------------------------------
(* The NAS as a tree: whatever has a name is in a directory, and nothing is a   *)
(* directory and a link.                                                        *)
Tree(D, L) ==
    /\ << >> \in D /\ D \subseteq Path
    /\ \A l \in DOMAIN L : l \in Path \ D /\ L[l] \in Path
    /\ \A p \in (D \cup DOMAIN L) \ {<< >>} : Up(p) \in D

(* The name of the k-th component of p where the walk has come to. *)
Onto(D, L, p, k) == Append(Walk(D, L, p)[k - 1], p[k])

(* One step of a walk. *)
LEMMA WalkFacts ==
  ASSUME NEW D, NEW L, Tree(D, L), NEW p \in Path
  PROVE  /\ Walk(D, L, p)[0] = << >> /\ Nowhere \notin D
         /\ \A k \in 0..Len(p) : Walk(D, L, p)[k] \in D \cup {Nowhere}
         /\ \A k \in 1..Len(p) :
              \/ Walk(D, L, p)[k - 1] = Nowhere /\ Walk(D, L, p)[k] = Nowhere
              \/ /\ Walk(D, L, p)[k - 1] \in D
                 /\ Onto(D, L, p, k) \in Path \ {<< >>} /\ Up(Onto(D, L, p, k)) = Walk(D, L, p)[k - 1]
                 /\ \/ Onto(D, L, p, k) \in D /\ Onto(D, L, p, k) \notin DOMAIN L
                       /\ Walk(D, L, p)[k] = Onto(D, L, p, k)
                    \/ Onto(D, L, p, k) \in DOMAIN L /\ Onto(D, L, p, k) \notin D
                       /\ Walk(D, L, p)[k] = IF L[Onto(D, L, p, k)] \in D THEN L[Onto(D, L, p, k)] ELSE Nowhere
                    \/ Onto(D, L, p, k) \notin D /\ Onto(D, L, p, k) \notin DOMAIN L
                       /\ Walk(D, L, p)[k] = Nowhere
<1> DEFINE w == Walk(D, L, p)
<1>1. << >> \in D /\ D \subseteq Path /\ Nowhere \notin D /\ \A q \in D : q \notin DOMAIN L
  BY PathsAssumption DEF Tree, Path
<1>2. Len(p) \in Nat
  BY TakeAll
<1>3. /\ w[0] = << >>
      /\ \A k \in 1..Len(p) : w[k] = Enter(D, L, w[k - 1], p[k])
      /\ \A k \in 0..Len(p) : w[k] \in D \cup {Nowhere}
  BY <1>1, <1>2, WalkSteps
<1> HIDE DEF w
<1>4. ASSUME NEW k \in 1..Len(p), w[k - 1] # Nowhere
      PROVE  LET q == Append(w[k - 1], p[k])
             IN /\ w[k - 1] \in D /\ q \in Path \ {<< >>} /\ Up(q) = w[k - 1]
                /\ \/ q \in D /\ q \notin DOMAIN L /\ w[k] = q
                   \/ q \in DOMAIN L /\ q \notin D /\ w[k] = IF L[q] \in D THEN L[q] ELSE Nowhere
                   \/ q \notin D /\ q \notin DOMAIN L /\ w[k] = Nowhere
  <2> DEFINE q == Append(w[k - 1], p[k])
  <2>1. k - 1 \in 0..Len(p) /\ p[k] \in STRING
    BY <1>2 DEF Path
  <2>2. w[k - 1] \in D
    BY <1>3, <1>4, <2>1
  <2>3. q \in Path \ {<< >>} /\ Up(q) = w[k - 1]
    BY <1>1, <2>1, <2>2, UpAppend
  <2>4. w[k] = IF q \in DOMAIN L /\ L[q] \in D THEN L[q] ELSE IF q \in D THEN q ELSE Nowhere
    BY <1>3, <1>4 DEF Enter
  <2> HIDE DEF q
  <2>5. \/ q \in D /\ q \notin DOMAIN L /\ w[k] = q
        \/ q \in DOMAIN L /\ q \notin D /\ w[k] = IF L[q] \in D THEN L[q] ELSE Nowhere
        \/ q \notin D /\ q \notin DOMAIN L /\ w[k] = Nowhere
    BY <1>1, <2>4
  <2> QED
    BY <2>2, <2>3, <2>5 DEF q
<1>5. ASSUME NEW k \in 1..Len(p), w[k - 1] = Nowhere PROVE w[k] = Nowhere
  BY <1>3, <1>5 DEF Enter
<1> QED
  BY <1>1, <1>3, <1>4, <1>5 DEF w, Onto

LEMMA TreeFacts ==
  ASSUME NEW D, NEW L, Tree(D, L)
  PROVE  /\ << >> \in D /\ D \subseteq Path /\ Nowhere \notin D /\ \A q \in D : q \notin DOMAIN L
         /\ \A q \in D \cup DOMAIN L : q \in Path /\ (q # << >> => Up(q) \in D)
         /\ \A l \in DOMAIN L : l # << >> /\ L[l] \in Path
  BY PathsAssumption DEF Tree, Path

(* The name after the first n components of p where they lead. *)
Ahead(D, L, p, n) == Append(Walk(D, L, p)[n], p[n + 1])

LEMMA AheadFacts ==
  ASSUME NEW D, NEW L, Tree(D, L), NEW p \in Path, NEW n \in Nat, n < Len(p), Walk(D, L, p)[n] # Nowhere
  PROVE  /\ n + 1 \in 1..Len(p) /\ n + 1 \in 0..Len(p)
         /\ Walk(D, L, p)[n] \in D /\ Walk(D, L, p)[n] \in Path /\ p[n + 1] \in STRING
         /\ Ahead(D, L, p, n) \in Path \ {<< >>} /\ Up(Ahead(D, L, p, n)) = Walk(D, L, p)[n]
         /\ \/ Ahead(D, L, p, n) \in D /\ Ahead(D, L, p, n) \notin DOMAIN L
               /\ Walk(D, L, p)[n + 1] = Ahead(D, L, p, n)
            \/ Ahead(D, L, p, n) \in DOMAIN L /\ Ahead(D, L, p, n) \notin D
               /\ Walk(D, L, p)[n + 1] = IF L[Ahead(D, L, p, n)] \in D THEN L[Ahead(D, L, p, n)] ELSE Nowhere
            \/ Ahead(D, L, p, n) \notin D /\ Ahead(D, L, p, n) \notin DOMAIN L
               /\ Walk(D, L, p)[n + 1] = Nowhere
<1>1. PICK i \in 1..Len(p) : i = n + 1 /\ i - 1 = n
  BY TakeAll
<1>2. Onto(D, L, p, i) = Ahead(D, L, p, n)
  BY <1>1 DEF Onto, Ahead
<1>3. i \in 0..Len(p) /\ p[i] \in STRING
  BY <1>1, TakeStep
<1>4. Walk(D, L, p)[n] \in D /\ Walk(D, L, p)[n] \in Path
  BY <1>1, WalkFacts, TreeFacts
<1> DEFINE w == Walk(D, L, p)
           q == Ahead(D, L, p, n)
<1>5. /\ q \in Path \ {<< >>} /\ Up(q) = w[n]
      /\ \/ q \in D /\ q \notin DOMAIN L /\ w[i] = q
         \/ q \in DOMAIN L /\ q \notin D /\ w[i] = IF L[q] \in D THEN L[q] ELSE Nowhere
         \/ q \notin D /\ q \notin DOMAIN L /\ w[i] = Nowhere
  BY <1>1, <1>2, WalkFacts
<1> HIDE DEF w, q
<1>6. /\ n + 1 \in 1..Len(p) /\ n + 1 \in 0..Len(p) /\ p[n + 1] \in STRING
      /\ \/ q \in D /\ q \notin DOMAIN L /\ w[n + 1] = q
         \/ q \in DOMAIN L /\ q \notin D /\ w[n + 1] = IF L[q] \in D THEN L[q] ELSE Nowhere
         \/ q \notin D /\ q \notin DOMAIN L /\ w[n + 1] = Nowhere
  BY <1>1, <1>3, <1>5
<1> QED
  BY <1>4, <1>5, <1>6 DEF w, q

(* What is above a directory is a directory. *)
LEMMA Ancestors ==
  ASSUME NEW D, NEW L, Tree(D, L), NEW p \in D, NEW k \in 0..Len(p)
  PROVE  Take(p, k) \in D
<1> DEFINE n == Len(p)
           S == {j \in 0..n : Take(p, n - j) \in D}
<1>1. p \in Path /\ n \in Nat /\ Take(p, n) = p
  BY TreeFacts, TakeAll
<1>2. 0 \in S
  BY <1>1
<1>3. ASSUME NEW j \in 0..n - 1, j \in S PROVE j + 1 \in S
  <2>1. n - j \in 1..n /\ (n - j) - 1 = n - (j + 1) /\ j + 1 \in 0..n
    BY <1>1
  <2>2. Take(p, n - j) # << >> /\ Up(Take(p, n - j)) = Take(p, n - (j + 1))
    BY <1>1, <2>1, TakeStep
  <2>3. Take(p, n - j) \in D
    BY <1>3
  <2>4. Take(p, n - (j + 1)) \in D
    BY <2>2, <2>3, TreeFacts
  <2> QED
    BY <2>1, <2>4
<1>4. 0..n \subseteq S
  <2> HIDE DEF S, n
  <2> QED
    BY <1>1, <1>2, <1>3, UpTo
<1>5. n - k \in 0..n /\ n - (n - k) = k
  BY <1>1
<1> QED
  BY <1>4, <1>5

(* A walk that has come to nothing gets nowhere. *)
LEMMA NowhereStays ==
  ASSUME NEW D, NEW L, Tree(D, L), NEW p \in Path, NEW k \in 0..Len(p), Walk(D, L, p)[k] = Nowhere
  PROVE  \A i \in k..Len(p) : Walk(D, L, p)[i] = Nowhere
<1> DEFINE n == Len(p)
           S == {j \in k..n : Walk(D, L, p)[j] = Nowhere}
<1>1. n \in Nat /\ k \in Nat /\ k \in S
  BY TakeAll
<1>2. ASSUME NEW j \in k..n - 1, j \in S PROVE j + 1 \in S
  <2>1. j + 1 \in 1..n /\ (j + 1) - 1 = j /\ j + 1 \in k..n
    BY <1>1
  <2>2. Walk(D, L, p)[j] = Nowhere /\ Nowhere \notin D
    BY <1>2, TreeFacts
  <2>3. Walk(D, L, p)[j + 1] = Nowhere
    BY <2>1, <2>2, WalkFacts
  <2> QED
    BY <2>1, <2>3
<1>3. k..n \subseteq S
  <2> HIDE DEF S, n
  <2> QED
    BY <1>1, <1>2, FromTo
<1> QED
  BY <1>3

(* A walk through a path without links on it leads to the path, if it leads    *)
(* anywhere, and does so as far as the directories are there.                  *)
LEMMA WalkPlain ==
  ASSUME NEW D, NEW L, Tree(D, L), NEW p \in Path, NEW k \in 0..Len(p),
         \A i \in 1..k : Take(p, i) \notin DOMAIN L
  PROVE  /\ Walk(D, L, p)[k] \in {Take(p, k), Nowhere}
         /\ Take(p, k) \in D => Walk(D, L, p)[k] = Take(p, k)
<1> DEFINE w == Walk(D, L, p)
           S == {j \in 0..k : w[j] \in {Take(p, j), Nowhere} /\ (Take(p, j) \in D => w[j] = Take(p, j))}
<1>1. Len(p) \in Nat /\ k \in Nat
  BY TakeAll
<1>2. 0 \in S
  BY <1>1, TakeAll, WalkFacts
<1>3. ASSUME NEW j \in 0..k - 1, j \in S PROVE j + 1 \in S
  <2>1. j + 1 \in 1..Len(p) /\ j + 1 \in 1..k /\ j + 1 \in 0..k /\ (j + 1) - 1 = j /\ Nowhere \notin D
    BY <1>1, TreeFacts
  <2>2. Take(p, j + 1) = Append(Take(p, j), p[j + 1]) /\ Up(Take(p, j + 1)) = Take(p, j) /\ Take(p, j + 1) # << >>
    BY <2>1, TakeStep
  <2>3. CASE w[j] = Nowhere
    <3>1. w[j + 1] = Nowhere
      BY <2>1, <2>3, WalkFacts
    <3>2. Take(p, j + 1) \notin D
      BY <1>3, <2>1, <2>2, <2>3, TreeFacts
    <3> QED
      BY <2>1, <3>1, <3>2
  <2>4. CASE w[j] # Nowhere
    <3>1. Onto(D, L, p, j + 1) = Take(p, j + 1)
      BY <1>3, <2>1, <2>2, <2>4 DEF Onto
    <3>2. Take(p, j + 1) \notin DOMAIN L
      BY <2>1
    <3>3. w[j + 1] = IF Take(p, j + 1) \in D THEN Take(p, j + 1) ELSE Nowhere
      BY <2>1, <2>4, <3>1, <3>2, WalkFacts
    <3> QED
      BY <2>1, <3>3
  <2> QED
    BY <2>3, <2>4
<1>4. 0..k \subseteq S
  <2> HIDE DEF S
  <2> QED
    BY <1>1, <1>2, <1>3, UpTo
<1> QED
  BY <1>1, <1>4

(* Every directory leads to itself. *)
LEMMA DirectoriesLead ==
  ASSUME NEW D, NEW L, Tree(D, L), NEW p \in Path, NEW k \in 0..Len(p), Take(p, k) \in D
  PROVE  Walk(D, L, p)[k] = Take(p, k)
<1>1. Take(p, k) \in Path /\ Len(Take(p, k)) = k
  BY TakeFacts
<1>2. ASSUME NEW i \in 1..k PROVE Take(p, i) \notin DOMAIN L
  <2>1. i \in 0..k /\ i \in 0..Len(Take(p, k))
    BY <1>1
  <2>2. Take(p, i) \in D
    BY <2>1, Ancestors, TakeTake
  <2> QED
    BY <2>2, TreeFacts
<1> QED
  BY <1>2, WalkPlain

(* The walk through the first components of a path is the beginning of the     *)
(* walk through the path.                                                      *)
LEMMA WalkOfPrefix ==
  ASSUME NEW D, NEW L, Tree(D, L), NEW p \in Path, NEW u \in Path, IsPrefix(u, p)
  PROVE  Walk(D, L, u)[Len(u)] = Walk(D, L, p)[Len(u)]
<1> DEFINE m == Len(u)
           S == {j \in 0..m : Walk(D, L, u)[j] = Walk(D, L, p)[j]}
<1>1. m \in Nat /\ m <= Len(p) /\ Len(p) \in Nat /\ u = Take(p, m) /\ << >> \in D
  BY TakeAll, PrefixIs, TreeFacts
<1>2. \A i \in 1..m : u[i] = p[i]
  BY <1>1, TakeFacts
<1>3. 0 \in S
  BY <1>1, WalkFacts
<1>4. ASSUME NEW j \in 0..m - 1, j \in S PROVE j + 1 \in S
  <2>1. j + 1 \in 1..m /\ j + 1 \in 1..Len(p) /\ j + 1 \in 0..m /\ (j + 1) - 1 = j
    BY <1>1
  <2>2. /\ Walk(D, L, u)[j + 1] = Enter(D, L, Walk(D, L, u)[j], u[j + 1])
        /\ Walk(D, L, p)[j + 1] = Enter(D, L, Walk(D, L, p)[j], p[j + 1])
    BY <1>1, <2>1, WalkSteps
  <2> QED
    BY <1>2, <1>4, <2>1, <2>2
<1>5. 0..m \subseteq S
  <2> HIDE DEF S, m
  <2> QED
    BY <1>1, <1>3, <1>4, UpTo
<1> QED
  BY <1>1, <1>5

(* A walk gets as far as some component. *)
EndsAt(D, L, p, n) ==
    /\ n \in 0..Len(p) /\ Walk(D, L, p)[n] # Nowhere
    /\ n < Len(p) => Walk(D, L, p)[n + 1] = Nowhere

LEMMA WalkEnds ==
  ASSUME NEW D, NEW L, Tree(D, L), NEW p \in Path
  PROVE  \E n : EndsAt(D, L, p, n)
<1> SUFFICES ASSUME \A n : ~EndsAt(D, L, p, n) PROVE FALSE
  OBVIOUS
<1> DEFINE m == Len(p)
           S == {j \in 0..m : Walk(D, L, p)[j] # Nowhere}
<1>1. m \in Nat
  BY TakeAll
<1>2. 0 \in S
  BY <1>1, WalkFacts, TreeFacts
<1>3. ASSUME NEW j \in 0..m - 1, j \in S PROVE j + 1 \in S
  BY <1>1, <1>3 DEF EndsAt
<1>4. 0..m \subseteq S
  <2> HIDE DEF S, m
  <2> QED
    BY <1>1, <1>2, <1>3, UpTo
<1> QED
  BY <1>1, <1>4 DEF EndsAt

(* Where the path then leads for mkdir -p. *)
Blocked(L, p, n, q) == n < Len(p) /\ q \in DOMAIN L

LEMMA LeadsFrom ==
  ASSUME NEW D, NEW L, Tree(D, L), NEW p \in Path, NEW n, EndsAt(D, L, p, n)
  PROVE  /\ Blocked(L, p, n, Ahead(D, L, p, n)) => Leads(D, L, p) = Nowhere
         /\ ~Blocked(L, p, n, Ahead(D, L, p, n)) => Leads(D, L, p) = Walk(D, L, p)[n] \o Drop(p, n)
         /\ Walk(D, L, p)[n] \in D /\ n \in Nat /\ Len(p) \in Nat
         /\ n < Len(p) => Ahead(D, L, p, n) \notin D /\ Walk(D, L, p)[n + 1] = Nowhere
<1> DEFINE w == Walk(D, L, p)
           Is(k) == k \in 0..Len(p) /\ w[k] # Nowhere /\ \A i \in k + 1..Len(p) : w[i] = Nowhere
<1>1. Len(p) \in Nat /\ n \in 0..Len(p) /\ w[n] \in D /\ w[n] # Nowhere
  BY TakeAll, WalkFacts DEF EndsAt
<1>2. Is(n)
  <2>1. CASE n = Len(p)
    BY <1>1, <2>1
  <2>2. CASE n < Len(p)
    <3>1. n + 1 \in 0..Len(p) /\ w[n + 1] = Nowhere
      BY <1>1, <2>2 DEF EndsAt
    <3>2. \A i \in n + 1..Len(p) : w[i] = Nowhere
      BY <3>1, NowhereStays
    <3> QED
      BY <1>1, <3>2
  <2> QED
    BY <1>1, <2>1, <2>2
<1>3. \A k : Is(k) => k = n
  <2> SUFFICES ASSUME NEW k, Is(k), k # n PROVE FALSE
    OBVIOUS
  <2>1. k < n \/ n < k
    BY <1>1
  <2>2. k \in n + 1..Len(p) \/ n \in k + 1..Len(p)
    BY <1>1, <2>1
  <2> QED
    BY <1>2, <2>2
<1> DEFINE m == CHOOSE k \in 0..Len(p) : w[k] # Nowhere /\ \A i \in k + 1..Len(p) : w[i] = Nowhere
<1>4. m = n
  BY <1>2, <1>3
<1>6. Leads(D, L, p) = IF n < Len(p) /\ Ahead(D, L, p, n) \in DOMAIN L THEN Nowhere ELSE w[n] \o Drop(p, n)
  <2>1. Leads(D, L, p) = IF m < Len(p) /\ Append(w[m], p[m + 1]) \in DOMAIN L THEN Nowhere
                         ELSE w[m] \o SubSeq(p, m + 1, Len(p))
    BY DEF Leads
  <2>2. Ahead(D, L, p, n) = Append(w[n], p[n + 1])
    BY DEF Ahead
  <2> HIDE DEF m
  <2> QED
    BY <1>4, <2>1, <2>2 DEF Drop
<1>7. ASSUME n < Len(p) PROVE Ahead(D, L, p, n) \notin D /\ w[n + 1] = Nowhere
  <2>1. w[n + 1] = Nowhere /\ n \in Nat
    BY <1>1, <1>7 DEF EndsAt
  <2> QED
    BY <1>1, <1>7, <2>1, AheadFacts, TreeFacts
<1> QED
  BY <1>1, <1>6, <1>7 DEF Blocked

LEMMA LeadsIsAPath ==
  ASSUME NEW D, NEW L, Tree(D, L), NEW p \in Path
  PROVE  Leads(D, L, p) \in Path \cup {Nowhere}
<1>1. PICK n : EndsAt(D, L, p, n)
  BY WalkEnds
<1>2. Walk(D, L, p)[n] \in Path /\ n \in 0..Len(p)
  BY <1>1, LeadsFrom, TreeFacts DEF EndsAt
<1>3. Walk(D, L, p)[n] \o Drop(p, n) \in Path
  BY <1>2, DropFacts, PrefixOfConcat
<1> QED
  <2>1. Leads(D, L, p) = Nowhere \/ Leads(D, L, p) = Walk(D, L, p)[n] \o Drop(p, n)
    BY <1>1, LeadsFrom
  <2> QED
    BY <1>3, <2>1

(* A directory leads to itself for mkdir -p, too. *)
LEMMA DirectoryIsMeant ==
  ASSUME NEW D, NEW L, Tree(D, L), NEW p \in D
  PROVE  Leads(D, L, p) = p /\ Walk(D, L, p)[Len(p)] = p
<1>1. p \in Path /\ Nowhere \notin D /\ Len(p) \in Nat /\ Take(p, Len(p)) = p
  BY TreeFacts, TakeAll
<1>2. Walk(D, L, p)[Len(p)] = p
  BY <1>1, DirectoriesLead
<1>3. EndsAt(D, L, p, Len(p))
  BY <1>1, <1>2 DEF EndsAt
<1>4. Leads(D, L, p) = p \o Drop(p, Len(p))
  <2>1. ~Blocked(L, p, Len(p), Ahead(D, L, p, Len(p)))
    BY <1>1 DEF Blocked
  <2>2. Leads(D, L, p) = Walk(D, L, p)[Len(p)] \o Drop(p, Len(p))
    BY <1>1, <1>3, <2>1, LeadsFrom
  <2> QED
    BY <1>2, <2>2
<1> QED
  BY <1>1, <1>2, <1>4, DropFacts

(* The k-th component of p is a link that leads somewhere. *)
Linked(D, L, p, k) ==
    /\ Walk(D, L, p)[k - 1] # Nowhere
    /\ Onto(D, L, p, k) \in DOMAIN L /\ L[Onto(D, L, p, k)] \in D

(* What lies behind a component that leads to r, and behind no link after it,  *)
(* is made below r.                                                            *)
LEMMA LeadsBelow ==
  ASSUME NEW D, NEW L, Tree(D, L), NEW p \in Path, NEW j \in 0..Len(p), Walk(D, L, p)[j] # Nowhere,
         \A k \in j + 1..Len(p) : ~Linked(D, L, p, k)
  PROVE  Leads(D, L, p) = Nowhere \/ IsPrefix(Walk(D, L, p)[j], Leads(D, L, p))
<1> DEFINE w == Walk(D, L, p)
           m == Len(p)
           S == {k \in j..m : w[k] = Nowhere \/ IsPrefix(w[j], w[k])}
<1>1. m \in Nat /\ j \in Nat /\ w[j] \in D /\ w[j] \in Path /\ Nowhere \notin D /\ D \subseteq Path
  BY TakeAll, WalkFacts, TreeFacts
<1>2. j \in S
  <2>1. IsPrefix(w[j], w[j])
    BY <1>1, TakeAll, PrefixIs
  <2> QED
    BY <1>1, <2>1
<1>3. ASSUME NEW k \in j..m - 1, k \in S PROVE k + 1 \in S
  <2>1. k + 1 \in j..m /\ k + 1 \in 1..m /\ k + 1 \in j + 1..m /\ (k + 1) - 1 = k /\ k \in 0..m
    BY <1>1
  <2>2. CASE w[k] = Nowhere
    BY <1>1, <2>1, <2>2, WalkFacts
  <2>3. CASE w[k] # Nowhere
    <3>1. ~(Onto(D, L, p, k + 1) \in DOMAIN L /\ L[Onto(D, L, p, k + 1)] \in D)
      BY <2>1, <2>3 DEF Linked
    <3>2. w[k] \in D /\ p[k + 1] \in STRING /\ Onto(D, L, p, k + 1) = Append(w[k], p[k + 1])
      BY <1>1, <2>1, <2>3, WalkFacts, TakeStep DEF Onto
    <3>3. w[k + 1] = Nowhere \/ w[k + 1] = Append(w[k], p[k + 1])
      BY <2>1, <2>3, <3>1, <3>2, WalkFacts
    <3>4. IsPrefix(w[k], Append(w[k], p[k + 1])) /\ Append(w[k], p[k + 1]) \in Path
      <4> DEFINE q == Append(w[k], p[k + 1])
      <4>1. w[k] \in Path /\ q \in Path /\ q # << >> /\ Up(q) = w[k] /\ Len(q) = Len(w[k]) + 1
        BY <1>1, <3>2, UpAppend
      <4> HIDE DEF q
      <4>2. w[k] = Take(q, Len(w[k])) /\ Len(w[k]) <= Len(q)
        BY <4>1, UpIsTake, TakeAll
      <4> QED
        BY <4>1, <4>2, PrefixIs DEF q
    <3>5. IsPrefix(w[j], w[k]) /\ w[k] \in Path
      BY <1>1, <1>3, <2>3, <3>2
    <3> QED
      BY <1>1, <2>1, <3>3, <3>4, <3>5, PrefixOfLonger
  <2> QED
    BY <2>2, <2>3
<1>4. j..m \subseteq S
  <2> HIDE DEF S, m
  <2> QED
    BY <1>1, <1>2, <1>3, FromTo
<1>5. PICK n : EndsAt(D, L, p, n)
  BY WalkEnds
<1>6. n \in 0..m /\ w[n] # Nowhere /\ w[n] \in Path
  BY <1>1, <1>5, LeadsFrom DEF EndsAt
<1>7. n \in j..m
  <2>1. n < j => w[j] = Nowhere
    <3> SUFFICES ASSUME n < j PROVE w[j] = Nowhere
      OBVIOUS
    <3>1. n + 1 \in 0..m /\ j \in n + 1..m /\ n < m
      BY <1>1, <1>6
    <3>2. w[n + 1] = Nowhere
      BY <1>5, <3>1 DEF EndsAt
    <3> QED
      BY <3>1, <3>2, NowhereStays
  <2> QED
    BY <1>1, <1>6, <2>1
<1>8. IsPrefix(w[j], w[n])
  BY <1>4, <1>6, <1>7
<1>9. IsPrefix(w[j], w[n] \o Drop(p, n))
  <2>1. Drop(p, n) \in Path
    BY <1>6, DropFacts
  <2> DEFINE t == w[n] \o Drop(p, n)
  <2>2. t \in Path /\ IsPrefix(w[n], t)
    BY <1>6, <2>1, PrefixOfConcat
  <2> HIDE DEF t
  <2>3. IsPrefix(w[j], t)
    BY <1>1, <1>6, <1>8, <2>2, PrefixOfLonger
  <2> QED
    BY <2>3 DEF t
<1>10. Leads(D, L, p) = Nowhere \/ Leads(D, L, p) = w[n] \o Drop(p, n)
  BY <1>5, LeadsFrom
<1> QED
  BY <1>9, <1>10

-----------------------------------------------------------------------------
(* Trees that change.  L2 is what is left of the links L. *)
LinksLeft(L, L2) == DOMAIN L2 \subseteq DOMAIN L /\ \A q \in DOMAIN L2 : L2[q] = L[q]

(* As long as no link is made, a walk that leads to a directory of the tree    *)
(* that was has always led there.                                              *)
LEMMA SameWalk ==
  ASSUME NEW D, NEW L, Tree(D, L), NEW D2, NEW L2, Tree(D2, L2), LinksLeft(L, L2),
         NEW p \in Path, NEW k \in 0..Len(p), Walk(D2, L2, p)[k] \in D
  PROVE  Walk(D, L, p)[k] = Walk(D2, L2, p)[k]
<1> DEFINE w == Walk(D, L, p)
           v == Walk(D2, L2, p)
           n == Len(p)
           S == {j \in 0..n : v[j] \in D => w[j] = v[j]}
<1>1. n \in Nat /\ Nowhere \notin D
  BY TakeAll, TreeFacts
<1>2. 0 \in S
  BY <1>1, WalkFacts
<1>3. ASSUME NEW j \in 0..n - 1, j \in S PROVE j + 1 \in S
  <2> SUFFICES ASSUME v[j + 1] \in D PROVE w[j + 1] = v[j + 1]
    BY <1>1
  <2>1. j + 1 \in 1..n /\ (j + 1) - 1 = j
    BY <1>1
  <2> DEFINE q == Onto(D2, L2, p, j + 1)
  <2>2. /\ v[j] \in D2 /\ q \in Path \ {<< >>} /\ Up(q) = v[j]
        /\ \/ q \in D2 /\ v[j + 1] = q
           \/ q \in DOMAIN L2 /\ v[j + 1] = L2[q] /\ L2[q] \in D2
    <3>1. v[j + 1] # Nowhere
      BY <1>1
    <3> QED
      BY <2>1, <3>1, WalkFacts
  <2>3. Up(q) \in D /\ (q \in D \/ (q \in DOMAIN L /\ L[q] = v[j + 1]))
    BY <2>2, TreeFacts DEF LinksLeft
  <2>4. w[j] = v[j] /\ w[j] # Nowhere
    BY <1>1, <1>3, <2>2, <2>3
  <2>5. Onto(D, L, p, j + 1) = q
    BY <2>1, <2>4 DEF Onto
  <2>6. \/ q \in D /\ w[j + 1] = q
        \/ q \in DOMAIN L /\ q \notin D /\ w[j + 1] = IF L[q] \in D THEN L[q] ELSE Nowhere
    BY <2>1, <2>3, <2>4, <2>5, WalkFacts
  <2>7. q \in D2 => q \notin DOMAIN L2
    BY TreeFacts
  <2> HIDE DEF q
  <2> QED
    BY <2>2, <2>3, <2>6, <2>7, TreeFacts DEF LinksLeft
<1>4. 0..n \subseteq S
  <2> HIDE DEF S, n
  <2> QED
    BY <1>1, <1>2, <1>3, UpTo
<1> QED
  BY <1>4

(* A component that is a link has been one, unless the target is new. *)
LEMMA LinkedBefore ==
  ASSUME NEW D, NEW L, Tree(D, L), NEW D2, NEW L2, Tree(D2, L2), LinksLeft(L, L2),
         \A l \in DOMAIN L2 : L2[l] \in D2 => L2[l] \in D,
         NEW p \in Path, NEW k \in 1..Len(p), Linked(D2, L2, p, k)
  PROVE  Linked(D, L, p, k)
<1> DEFINE q == Onto(D2, L2, p, k)
<1>1. q \in DOMAIN L2 /\ L2[q] \in D2 /\ q # << >> /\ Up(q) = Walk(D2, L2, p)[k - 1]
  BY WalkFacts DEF Linked
<1>2. q \in DOMAIN L /\ L[q] \in D /\ Up(q) \in D
  BY <1>1, TreeFacts DEF LinksLeft
<1>3. k - 1 \in 0..Len(p) /\ Nowhere \notin D
  BY TakeAll, TreeFacts
<1>4. Walk(D, L, p)[k - 1] = Walk(D2, L2, p)[k - 1]
  BY <1>1, <1>2, <1>3, SameWalk
<1>5. Onto(D, L, p, k) = q
  BY <1>4 DEF Onto
<1> QED
  BY <1>1, <1>2, <1>3, <1>4, <1>5 DEF Linked

(* A directory more: a path means what it meant, unless a link to nothing      *)
(* names the new one.                                                          *)
LEMMA DirMade ==
  ASSUME NEW D, NEW L, Tree(D, L), NEW m, m \notin D, Tree(D \cup {m}, L), NEW p \in Path,
         (\A l \in DOMAIN L : L[l] # m) \/ Leads(D, L, p) # Nowhere
  PROVE  Leads(D \cup {m}, L, p) = Leads(D, L, p)
<1> DEFINE E == D \cup {m}
           w == Walk(D, L, p)
           v == Walk(E, L, p)
<1>0. Tree(E, L) /\ LinksLeft(L, L) /\ D \subseteq E /\ E \ D = {m}
  BY DEF LinksLeft
<1> SUFFICES Leads(E, L, p) = Leads(D, L, p)
  OBVIOUS
<1> HIDE DEF E
<1>1. PICK n : EndsAt(D, L, p, n)
  BY WalkEnds
<1> DEFINE q == Ahead(D, L, p, n)
           i == n + 1
<1>2. /\ n \in 0..Len(p) /\ n \in Nat /\ Len(p) \in Nat /\ w[n] \in D /\ w[n] \in Path
      /\ n < Len(p) => w[i] = Nowhere /\ q \notin D
      /\ Nowhere \notin D /\ Nowhere \notin E
  BY <1>0, <1>1, LeadsFrom, TreeFacts DEF EndsAt
<1>3. v[n] = w[n]
  BY <1>0, <1>2, SameWalk
<1>4. Ahead(E, L, p, n) = q /\ q = Append(w[n], p[i])
  BY <1>3 DEF Ahead
<1>5. /\ Blocked(L, p, n, q) => Leads(D, L, p) = Nowhere
      /\ ~Blocked(L, p, n, q) => Leads(D, L, p) = w[n] \o Drop(p, n)
  BY <1>1, LeadsFrom
<1>6. ASSUME EndsAt(E, L, p, n)
      PROVE  /\ Blocked(L, p, n, q) => Leads(E, L, p) = Nowhere
             /\ ~Blocked(L, p, n, q) => Leads(E, L, p) = v[n] \o Drop(p, n)
  <2>1. Ahead(E, L, p, n) = q
    BY <1>4
  <2>2. /\ Blocked(L, p, n, Ahead(E, L, p, n)) => Leads(E, L, p) = Nowhere
        /\ ~Blocked(L, p, n, Ahead(E, L, p, n)) => Leads(E, L, p) = v[n] \o Drop(p, n)
    BY <1>0, <1>6, LeadsFrom
  <2> HIDE DEF q, v
  <2> QED
    BY <2>1, <2>2
<1>7. ASSUME EndsAt(E, L, p, n) PROVE Leads(E, L, p) = Leads(D, L, p)
  <2> HIDE DEF q, v, w
  <2> QED
    BY <1>3, <1>5, <1>6, <1>7
<1>8. ASSUME n < Len(p) => v[i] = Nowhere PROVE Leads(E, L, p) = Leads(D, L, p)
  <2>1. EndsAt(E, L, p, n)
    BY <1>2, <1>3, <1>8 DEF EndsAt
  <2> QED
    BY <1>7, <2>1
<1>9. CASE n = Len(p)
  <2>1. ~(n < Len(p))
    BY <1>2, <1>9
  <2> QED
    BY <1>8, <2>1
<1>10. ASSUME n < Len(p)
       PROVE  /\ i \in 1..Len(p) /\ i \in 0..Len(p) /\ i \in Nat
              /\ q \in Path \ {<< >>} /\ Up(q) = w[n] /\ p[i] \in STRING
              /\ \/ q \in E /\ v[i] = q
                 \/ q \in DOMAIN L /\ q \notin E /\ v[i] = IF L[q] \in E THEN L[q] ELSE Nowhere
                 \/ q \notin E /\ q \notin DOMAIN L /\ v[i] = Nowhere
              /\ q \in DOMAIN L => L[q] \notin D
  <2>1. v[n] # Nowhere /\ w[n] # Nowhere
    BY <1>2, <1>3
  <2>2. /\ i \in 1..Len(p) /\ i \in 0..Len(p) /\ i \in Nat
        /\ q \in Path \ {<< >>} /\ Up(q) = w[n] /\ p[i] \in STRING
    BY <1>2, <1>10, <2>1, AheadFacts
  <2>3. \/ Ahead(E, L, p, n) \in E /\ v[i] = Ahead(E, L, p, n)
        \/ Ahead(E, L, p, n) \in DOMAIN L /\ Ahead(E, L, p, n) \notin E
           /\ v[i] = IF L[Ahead(E, L, p, n)] \in E THEN L[Ahead(E, L, p, n)] ELSE Nowhere
        \/ Ahead(E, L, p, n) \notin E /\ Ahead(E, L, p, n) \notin DOMAIN L /\ v[i] = Nowhere
    BY <1>0, <1>2, <1>10, <2>1, AheadFacts
  <2>4. \/ q \in E /\ v[i] = q
        \/ q \in DOMAIN L /\ q \notin E /\ v[i] = IF L[q] \in E THEN L[q] ELSE Nowhere
        \/ q \notin E /\ q \notin DOMAIN L /\ v[i] = Nowhere
    <3> HIDE DEF q, v, i
    <3> QED
      BY <1>4, <2>3
  <2>5. q \in DOMAIN L => L[q] \notin D
    <3>1. q \in DOMAIN L => w[i] = IF L[q] \in D THEN L[q] ELSE Nowhere
      BY <1>2, <1>10, <2>1, AheadFacts
    <3> HIDE DEF q, w, i
    <3> QED
      BY <1>2, <1>10, <3>1
  <2> QED
    BY <2>2, <2>4, <2>5
<1>11. CASE n < Len(p) /\ q \in DOMAIN L
  <2>1. Blocked(L, p, n, q)
    BY <1>11 DEF Blocked
  <2>2. Leads(D, L, p) = Nowhere
    BY <1>5, <2>1
  <2> HIDE DEF q, v, w, i
  <2>3. L[q] \notin E
    BY <1>0, <1>10, <1>11, <2>2
  <2>4. q \notin E
    BY <1>0, <1>11, TreeFacts
  <2>5. v[i] = Nowhere
    BY <1>10, <1>11, <2>3, <2>4
  <2> QED
    BY <1>8, <2>5
<1>12. CASE n < Len(p) /\ q \notin DOMAIN L /\ q # m
  <2> HIDE DEF q, v, w, i
  <2>1. q \notin E
    BY <1>0, <1>2, <1>12
  <2>2. v[i] = Nowhere
    BY <1>10, <1>12, <2>1
  <2> QED
    BY <1>8, <2>2
<1>13. CASE n < Len(p) /\ q \notin DOMAIN L /\ q = m
  <2>1. ~Blocked(L, p, n, q)
    BY <1>13 DEF Blocked
  <2>2. Leads(D, L, p) = w[n] \o Drop(p, n)
    BY <1>5, <2>1
  <2>3. w[n] \o Drop(p, n) = Append(w[n], p[i]) \o Drop(p, i)
    BY <1>2, <1>13, DropFacts
  <2>4. m \in E /\ Tree(E, L) /\ m \in Path \ {<< >>}
    <3> HIDE DEF q
    <3>1. m \in E
      BY <1>0
    <3> QED
      BY <1>0, <1>10, <1>13, <3>1
  <2>5. v[i] = m
    <3> HIDE DEF q, v, w, i
    <3> QED
      BY <1>10, <1>13, <2>4
  <2> DEFINE r == Ahead(E, L, p, i)
  <2>6. ASSUME i < Len(p) PROVE v[i + 1] = Nowhere /\ r \notin DOMAIN L
    <3>1. v[i] # Nowhere /\ i \in Nat
      BY <1>2, <1>10, <1>13, <2>4, <2>5
    <3>2. /\ r \in Path \ {<< >>} /\ Up(r) = v[i]
          /\ \/ r \in E /\ v[i + 1] = r
             \/ r \in DOMAIN L
             \/ r \notin DOMAIN L /\ v[i + 1] = Nowhere
      <4> HIDE DEF i
      <4> QED
        BY <2>4, <2>6, <3>1, AheadFacts
    <3> HIDE DEF r, v, i
    <3>3. r \notin D \cup DOMAIN L
      BY <2>5, <3>2, TreeFacts
    <3>4. r # m
      <4>1. Len(Up(m)) = Len(m) - 1 /\ Len(m) \in Nat
        BY <2>4, UpIsTake, TakeAll
      <4> QED
        BY <2>5, <3>2, <4>1
    <3> QED
      BY <1>0, <3>2, <3>3, <3>4
  <2>7. i \in 0..Len(p) /\ i \in Nat
    BY <1>10, <1>13
  <2> HIDE DEF i
  <2>8. EndsAt(E, L, p, i)
    BY <1>2, <2>4, <2>5, <2>6, <2>7 DEF EndsAt
  <2>9. ~Blocked(L, p, i, r)
    BY <2>6 DEF Blocked
  <2>10. Leads(E, L, p) = v[i] \o Drop(p, i)
    BY <2>4, <2>8, <2>9, LeadsFrom
  <2> HIDE DEF v, w, q
  <2> QED
    BY <1>4, <1>13, <2>2, <2>3, <2>5, <2>10
<1>14. n = Len(p) \/ n < Len(p)
  BY <1>2
<1> HIDE DEF q, w, v, i
<1> QED
  BY <1>9, <1>11, <1>12, <1>13, <1>14

(* A link less: a path means what it meant, or nothing, or a place behind      *)
(* where the link was.                                                         *)
LEMMA LinkGone ==
  ASSUME NEW D, NEW L, Tree(D, L), NEW M, Tree(D, M), LinksLeft(L, M),
         NEW l, DOMAIN L \ DOMAIN M = {l}, NEW p \in Path
  PROVE  Leads(D, M, p) \in {Leads(D, L, p), Nowhere} \/ IsPrefix(l, Leads(D, M, p))
<1> DEFINE w == Walk(D, L, p)
           v == Walk(D, M, p)
<1>1. PICK n : EndsAt(D, M, p, n)
  BY WalkEnds
<1> DEFINE q == Ahead(D, M, p, n)
           i == n + 1
<1>2. /\ n \in 0..Len(p) /\ n \in Nat /\ Len(p) \in Nat /\ v[n] \in D /\ v[n] \in Path
      /\ n < Len(p) => v[i] = Nowhere /\ q \notin D
      /\ Nowhere \notin D
  BY <1>1, LeadsFrom, TreeFacts DEF EndsAt
<1>3. w[n] = v[n]
  BY <1>2, SameWalk
<1>4. Ahead(D, L, p, n) = q /\ q = Append(v[n], p[i])
  BY <1>3 DEF Ahead
<1>5. /\ Blocked(M, p, n, q) => Leads(D, M, p) = Nowhere
      /\ ~Blocked(M, p, n, q) => Leads(D, M, p) = v[n] \o Drop(p, n)
  BY <1>1, LeadsFrom
<1>6. ASSUME EndsAt(D, L, p, n), ~Blocked(L, p, n, q)
      PROVE  Leads(D, L, p) = v[n] \o Drop(p, n)
  <2>1. ~Blocked(L, p, n, Ahead(D, L, p, n))
    <3> HIDE DEF q
    <3> QED
      BY <1>4, <1>6
  <2>2. Leads(D, L, p) = w[n] \o Drop(p, n)
    BY <1>6, <2>1, LeadsFrom
  <2> HIDE DEF v, w
  <2> QED
    BY <1>3, <2>2
<1>7. CASE Blocked(M, p, n, q)
  BY <1>5, <1>7
<1>8. CASE n = Len(p)
  <2>1. ~(n < Len(p))
    BY <1>2, <1>8
  <2>2. ~Blocked(M, p, n, q) /\ ~Blocked(L, p, n, q)
    BY <2>1 DEF Blocked
  <2>3. EndsAt(D, L, p, n)
    BY <1>2, <1>3, <2>1 DEF EndsAt
  <2> QED
    BY <1>5, <1>6, <2>2, <2>3
<1>9. CASE n < Len(p) /\ q \notin DOMAIN L
  <2>1. ~Blocked(M, p, n, q) /\ ~Blocked(L, p, n, q)
    BY <1>9 DEF Blocked, LinksLeft
  <2>2. w[n] # Nowhere
    BY <1>2, <1>3
  <2>3. \/ Ahead(D, L, p, n) \in D
        \/ Ahead(D, L, p, n) \in DOMAIN L
        \/ w[i] = Nowhere
    BY <1>2, <1>9, <2>2, AheadFacts
  <2>4. w[i] = Nowhere
    <3> HIDE DEF q, w, i
    <3> QED
      BY <1>2, <1>4, <1>9, <2>3
  <2>5. EndsAt(D, L, p, n)
    BY <1>2, <2>2, <2>4 DEF EndsAt
  <2> QED
    BY <1>5, <1>6, <2>1, <2>5
<1>10. CASE n < Len(p) /\ q \in DOMAIN L /\ ~Blocked(M, p, n, q)
  <2>1. q = l
    BY <1>10 DEF Blocked
  <2>2. v[n] \o Drop(p, n) = Append(v[n], p[i]) \o Drop(p, i)
    BY <1>2, <1>10, DropFacts
  <2>3. i \in 0..Len(p) /\ q \in Path
    BY <1>2, <1>10, AheadFacts
  <2>4. Drop(p, i) \in Path
    <3> HIDE DEF i
    <3> QED
      BY <2>3, DropFacts
  <2>5. IsPrefix(q, q \o Drop(p, i))
    BY <2>3, <2>4, PrefixOfConcat
  <2> HIDE DEF q, v, i
  <2> QED
    BY <1>4, <1>5, <1>10, <2>1, <2>2, <2>5
<1>11. n = Len(p) \/ n < Len(p)
  BY <1>2
<1> QED
  BY <1>7, <1>8, <1>9, <1>10, <1>11

(* What mkdir -p makes next is neither a directory nor a link. *)
LEMMA MadeIsNew ==
  ASSUME NEW D, NEW L, Tree(D, L), NEW p \in Path, Leads(D, L, p) # Nowhere,
         NEW k \in 1..Len(Leads(D, L, p)),
         Take(Leads(D, L, p), k) \notin D, Up(Take(Leads(D, L, p), k)) \in D
  PROVE  Take(Leads(D, L, p), k) \notin DOMAIN L
<1> DEFINE t == Leads(D, L, p)
           m == Take(t, k)
           w == Walk(D, L, p)
<1>1. PICK n : EndsAt(D, L, p, n)
  BY WalkEnds
<1> DEFINE q == Ahead(D, L, p, n)
<1>2. /\ n \in 0..Len(p) /\ n \in Nat /\ Len(p) \in Nat /\ w[n] \in D /\ w[n] \in Path
      /\ n < Len(p) => q \notin D
  BY <1>1, LeadsFrom, TreeFacts DEF EndsAt
<1>3. ~Blocked(L, p, n, q) /\ t = w[n] \o Drop(p, n)
  BY <1>1, LeadsFrom
<1>4. t \in Path /\ IsPrefix(w[n], t) /\ k \in 0..Len(t) /\ Len(t) \in Nat
  <2>1. t \in Path
    BY LeadsIsAPath
  <2>2. Drop(p, n) \in Path
    BY <1>2, DropFacts
  <2>3. IsPrefix(w[n], t)
    BY <1>2, <1>3, <2>2, PrefixOfConcat
  <2> QED
    BY <2>1, <2>3, TakeAll
<1>5. Len(w[n]) <= Len(t) /\ w[n] = Take(t, Len(w[n])) /\ Len(w[n]) \in Nat
  BY <1>2, <1>4, PrefixIs, TakeAll
<1>6. Up(m) = Take(t, k - 1) /\ m \notin D /\ Take(t, k - 1) \in D
  BY <1>4, TakeStep
<1>7. k > Len(w[n])
  <2> SUFFICES ASSUME k \in 0..Len(w[n]) PROVE FALSE
    BY <1>5
  <2>1. Take(w[n], k) = m
    BY <1>4, <1>5, TakeTake
  <2>2. Take(w[n], k) \in D
    BY <1>2, Ancestors
  <2> QED
    BY <1>6, <2>1, <2>2
<1>8. n < Len(p)
  <2> SUFFICES ASSUME n = Len(p) PROVE FALSE
    BY <1>2
  <2>1. t = w[n]
    BY <1>2, <1>3, DropFacts
  <2> HIDE DEF t
  <2> QED
    BY <1>4, <1>7, <2>1
<1>9. q = Append(w[n], p[n + 1]) /\ n + 1 \in 1..Len(p) /\ n + 1 \in 0..Len(p) /\ p[n + 1] \in STRING
  <2>1. w[n] # Nowhere
    BY <1>2, TreeFacts
  <2>2. n + 1 \in 1..Len(p) /\ n + 1 \in 0..Len(p) /\ p[n + 1] \in STRING
    BY <1>2, <1>8, <2>1, AheadFacts
  <2> QED
    BY <2>2 DEF Ahead
<1>10. q \in Path /\ Len(q) = Len(w[n]) + 1 /\ q \notin D
  <2>1. q \notin D
    BY <1>2, <1>8
  <2> HIDE DEF w
  <2>2. Append(w[n], p[n + 1]) \in Path /\ Len(Append(w[n], p[n + 1])) = Len(w[n]) + 1
    BY <1>2, <1>9, UpAppend
  <2> HIDE DEF q
  <2> QED
    BY <1>9, <2>1, <2>2
<1>11. IsPrefix(q, t)
  <2>1. t = Append(w[n], p[n + 1]) \o Drop(p, n + 1) /\ Drop(p, n + 1) \in Path
    BY <1>2, <1>3, <1>8, <1>9, DropFacts
  <2> HIDE DEF t, q, w
  <2>2. t = q \o Drop(p, n + 1)
    BY <1>9, <2>1
  <2> QED
    BY <1>10, <2>1, <2>2, PrefixOfConcat
<1> HIDE DEF t, q, w
<1>12. q = Take(t, Len(w[n]) + 1)
  BY <1>4, <1>10, <1>11, PrefixIs
<1>13. k = Len(w[n]) + 1
  <2> SUFFICES ASSUME Len(w[n]) + 1 \in 0..k - 1 PROVE FALSE
    BY <1>5, <1>7, <1>4
  <2>1. k - 1 \in 0..Len(t) /\ Len(Take(t, k - 1)) = k - 1
    <3>1. k - 1 \in 0..Len(t)
      BY <1>4, <1>5, <1>7
    <3> QED
      BY <1>4, <3>1, TakeFacts
  <2>2. Take(Take(t, k - 1), Len(w[n]) + 1) = q
    BY <1>4, <1>12, <2>1, TakeTake
  <2>3. Take(Take(t, k - 1), Len(w[n]) + 1) \in D
    BY <1>6, <2>1, Ancestors
  <2> QED
    BY <1>10, <2>2, <2>3
<1> QED
  BY <1>3, <1>8, <1>12, <1>13 DEF Blocked, t

-----------------------------------------------------------------------------
(* The NAS stays a tree. *)
LEMMA TreeGrows ==
  ASSUME NEW D, NEW L, Tree(D, L), NEW m \in Path, m \notin D \cup DOMAIN L, Up(m) \in D
  PROVE  Tree(D \cup {m}, L)
  BY DEF Tree

LEMMA TreeShrinks ==
  ASSUME NEW D, NEW L, Tree(D, L), NEW m \in D \ {<< >>},
         \A q \in D \cup DOMAIN L : q # m => Up(q) # m
  PROVE  Tree(D \ {m}, L)
<1>1. ASSUME NEW p \in ((D \ {m}) \cup DOMAIN L) \ {<< >>} PROVE Up(p) \in D \ {m}
  <2>1. p # m /\ p \in (D \cup DOMAIN L) \ {<< >>}
    BY DEF Tree
  <2> QED
    BY <2>1 DEF Tree
<1> QED
  BY <1>1 DEF Tree

LEMMA TreeUnlinks ==
  ASSUME NEW D, NEW L, Tree(D, L), NEW M, LinksLeft(L, M)
  PROVE  Tree(D, M)
  BY DEF Tree, LinksLeft

LEMMA TreeLinks ==
  ASSUME NEW D, NEW L, Tree(D, L), NEW l \in Path, l \notin D \cup DOMAIN L, Up(l) \in D, NEW t \in Path
  PROVE  Tree(D, [q \in DOMAIN L \cup {l} |-> IF q = l THEN t ELSE L[q]])
  BY DEF Tree

-----------------------------------------------------------------------------
(* What the requests and the roots are made of. *)
LEMMA CleanPaths ==
  /\ \A r \in Roots : r \in Path
  /\ \A p \in Inputs : p.absolute \in BOOLEAN /\ Clean(p.parts) \in Path
<1>1. ASSUME NEW p \in Inputs \cup RootInputs PROVE p.absolute \in BOOLEAN /\ Clean(p.parts) \in Path
  BY PathsAssumption, CleanIsAPath DEF Path
<1> QED
  BY <1>1 DEF Roots

LEMMA ContainedBelow ==
  ASSUME NEW q \in Path, NEW t \in Path, IsPrefix(q, t), Contained(q)
  PROVE  Contained(t)
  BY CleanPaths, PrefixOfLonger DEF Contained

LEMMA UpIsPrefix ==
  ASSUME NEW p \in Path, p # << >>
  PROVE  Up(p) \in Path /\ IsPrefix(Up(p), p) /\ Len(Up(p)) = Len(p) - 1 /\ Len(p) \in Nat
  BY UpIsTake, TakeIsPrefix, TakeAll

-----------------------------------------------------------------------------
(* The state of a validation: the place resolveAncestor has come to is on the  *)
(* way to the path, and there is a destination only when it is accepted.       *)
ValInv ==
    /\ Tree(dirs, links)
    /\ relinked \in BOOLEAN
    /\ stage \in {"idle", "resolve", "ancestor", "accepted", "rejected"}
    /\ clean \in Path \cup {Nowhere}
    /\ clean = Nowhere => stage = "rejected" /\ cur = Nowhere
    /\ clean # Nowhere => cur \in Path /\ IsPrefix(cur, clean)
    /\ stage = "resolve" => cur = clean
    /\ dest \in Path \cup {Nowhere}
    /\ stage = "accepted" <=> dest # Nowhere
    /\ attempt \in {0, 1} /\ (attempt = 1 => breaks >= 1)
    /\ moves \in 0..MaxMoves /\ breaks \in 0..MaxBreaks

Looking == stage \in {"resolve", "ancestor"}

(* Nobody interferes, no link is on the way: the roots that are there are      *)
(* ancestors of the place, until the path is accepted.                         *)
Lost ==
    \/ ~Contained(clean)
    \/ \E k \in 1..Len(clean) : SubSeq(clean, 1, k) \in DOMAIN links
    \/ \A r \in Roots : IsPrefix(r, clean) => r \notin dirs

PlainInv ==
    moves = 0 /\ clean # Nowhere =>
      /\ stage = "rejected" => breaks >= 2 \/ Lost
      /\ Looking => Lost \/ \A r \in Roots : IsPrefix(r, clean) /\ r \in dirs => IsPrefix(r, cur)

(* The links below the place that was asked for do not lead anywhere, and what *)
(* is accepted means a place inside a root.                                    *)
InsideInv ==
    ~relinked =>
      /\ Looking => \A k \in Len(cur) + 1..Len(clean) : ~Linked(dirs, links, clean, k)
      /\ stage = "accepted" =>
           Meant(dest) = Nowhere \/ \E r \in Roots : IsPrefix(r, Meant(dest)) /\ (moves = 0 => r \in dirs)

(* A call to the NAS asks for the place, and either goes up or decides. *)
LEMMA Looks ==
  ASSUME ValInv, Resolve \/ Ancestor
  PROVE  /\ Looking /\ clean \in Path /\ cur \in Path /\ IsPrefix(cur, clean) /\ dest = Nowhere
         /\ UNCHANGED <<dirs, links, relinked, moves, breaks, clean, attempt>>
         /\ \/ RealPath(cur) = Nowhere /\ stage' = "ancestor" /\ cur' = Up(cur) /\ dest' = Nowhere
            \/ /\ RealPath(cur) # Nowhere /\ Contained(RealPath(cur))
               /\ stage' = "accepted" /\ cur' = cur /\ dest' \in {RealPath(cur), clean}
            \/ /\ RealPath(cur) # Nowhere /\ ~Contained(RealPath(cur))
               /\ stage' = "rejected" /\ cur' = cur /\ dest' = Nowhere
<1>1. Looking /\ clean \in Path /\ cur \in Path /\ IsPrefix(cur, clean) /\ dest = Nowhere
  BY DEF ValInv, Resolve, Ancestor, Looking
<1>2. UNCHANGED <<dirs, links, relinked, moves, breaks>>
  BY DEF Resolve, Ancestor, OnlyValidation, nas, nasBounds
<1>3. CASE Resolve
  <2>1. cur = clean
    BY <1>3 DEF ValInv, Resolve
  <2> QED
    BY <1>1, <1>2, <1>3, <2>1 DEF Resolve, Decides
<1>4. CASE Ancestor
  BY <1>1, <1>2, <1>4 DEF Ancestor, Decides
<1> QED
  BY <1>3, <1>4

(* Where the place leads, and that "/" always leads somewhere. *)
LEMMA RealPathFacts ==
  ASSUME Tree(dirs, links), NEW p \in Path
  PROVE  /\ RealPath(p) \in dirs \cup {Nowhere} /\ Nowhere \notin dirs /\ dirs \subseteq Path
         /\ RealPath(p) = Nowhere => p # << >> /\ p \notin dirs
         /\ \A t \in Path : IsPrefix(p, t) => RealPath(p) = Walk(dirs, links, t)[Len(p)] /\ Len(p) \in 0..Len(t)
<1>1. Nowhere \notin dirs /\ dirs \subseteq Path /\ << >> \in dirs /\ Len(p) \in 0..Len(p)
  BY TreeFacts, TakeAll
<1>2. RealPath(p) \in dirs \cup {Nowhere}
  BY <1>1, WalkFacts DEF RealPath
<1>3. p \in dirs => RealPath(p) = p
  BY DirectoryIsMeant DEF RealPath
<1>4. ASSUME NEW t \in Path, IsPrefix(p, t)
      PROVE  RealPath(p) = Walk(dirs, links, t)[Len(p)] /\ Len(p) \in 0..Len(t)
  <2>1. RealPath(p) = Walk(dirs, links, t)[Len(p)]
    BY <1>4, WalkOfPrefix DEF RealPath
  <2>2. Len(p) \in 0..Len(t)
    BY <1>1, <1>4, PrefixIs, TakeAll
  <2> QED
    BY <2>1, <2>2
<1> QED
  BY <1>1, <1>2, <1>3, <1>4

-----------------------------------------------------------------------------
(* The steps of a validation keep the three invariants. *)
LEMMA BeginsKeeps ==
  ASSUME ValInv, NEW p \in Inputs, ValidateBegins(p)
  PROVE  ValInv' /\ PlainInv' /\ InsideInv'
<1>2. /\ stage = "idle" /\ UNCHANGED <<dirs, links, relinked, moves, breaks, attempt, dest>>
      /\ clean' = IF p.absolute THEN Clean(p.parts) ELSE Nowhere
      /\ cur' = clean'
      /\ stage' = IF p.absolute /\ Contained(clean') THEN "resolve" ELSE "rejected"
  BY DEF ValidateBegins, OnlyValidation, nas, nasBounds
<1>3. clean' \in Path \cup {Nowhere} /\ (clean' # Nowhere <=> p.absolute) /\ Nowhere \notin Path
  BY <1>2, CleanPaths, PathsAssumption DEF Path
<1>4. \A q \in Path : IsPrefix(q, q) /\ Len(q) \in Nat
  BY PrefixIs, TakeAll
<1>5. ValInv'
  BY <1>2, <1>3, <1>4 DEF ValInv
<1>6. PlainInv'
  BY <1>2, <1>3, <1>4 DEF PlainInv, Lost, Looking
<1>7. InsideInv'
  <2>1. clean' # Nowhere => Len(cur') + 1..Len(clean') = {}
    <3>1. clean' # Nowhere => Len(clean') \in Nat
      BY <1>3, <1>4
    <3> QED
      BY <1>2, <3>1
  <2>2. Looking' => clean' # Nowhere
    BY <1>2, <1>3 DEF Looking
  <2> QED
    BY <1>2, <2>1, <2>2 DEF InsideInv
<1> QED
  BY <1>5, <1>6, <1>7

LEMMA LooksKeepsVal ==
  ASSUME ValInv, Resolve \/ Ancestor
  PROVE  ValInv'
<1>1. /\ clean \in Path /\ cur \in Path /\ IsPrefix(cur, clean) /\ clean # Nowhere
      /\ UNCHANGED <<dirs, links, relinked, moves, breaks, clean, attempt>>
      /\ \/ RealPath(cur) = Nowhere /\ stage' = "ancestor" /\ cur' = Up(cur) /\ dest' = Nowhere
         \/ RealPath(cur) # Nowhere /\ stage' = "accepted" /\ cur' = cur /\ dest' \in {RealPath(cur), clean}
         \/ stage' = "rejected" /\ cur' = cur /\ dest' = Nowhere
  BY Looks, PathsAssumption DEF Path
<1>2. RealPath(cur) \in Path \cup {Nowhere} /\ (RealPath(cur) = Nowhere => cur # << >>)
  BY <1>1, RealPathFacts DEF ValInv
<1>3. RealPath(cur) = Nowhere => Up(cur) \in Path /\ IsPrefix(Up(cur), clean)
  BY <1>1, <1>2, UpIsPrefix, PrefixOfLonger
<1> QED
  BY <1>1, <1>2, <1>3 DEF ValInv

LEMMA LooksKeepsPlain ==
  ASSUME ValInv, PlainInv, Resolve \/ Ancestor
  PROVE  PlainInv'
<1>1. /\ Looking /\ clean \in Path /\ cur \in Path /\ IsPrefix(cur, clean) /\ clean # Nowhere
      /\ UNCHANGED <<dirs, links, moves, breaks, clean>>
      /\ \/ RealPath(cur) = Nowhere /\ stage' = "ancestor" /\ cur' = Up(cur)
         \/ stage' = "accepted"
         \/ RealPath(cur) # Nowhere /\ ~Contained(RealPath(cur)) /\ stage' = "rejected"
  BY Looks, PathsAssumption DEF Path
<1>2. Lost' <=> Lost
  BY <1>1 DEF Lost
<1> SUFFICES ASSUME moves = 0, ~Lost PROVE PlainInv'
  BY <1>1, <1>2 DEF PlainInv
<1>3. \A r \in Roots : r \in Path /\ (IsPrefix(r, clean) /\ r \in dirs => IsPrefix(r, cur))
  BY <1>1, CleanPaths DEF PlainInv
<1>4. /\ RealPath(cur) \in dirs \cup {Nowhere}
      /\ RealPath(cur) = Nowhere => cur # << >> /\ cur \notin dirs
      /\ RealPath(cur) = Walk(dirs, links, clean)[Len(cur)] /\ Len(cur) \in 0..Len(clean)
  BY <1>1, RealPathFacts DEF ValInv
<1>5. CASE RealPath(cur) = Nowhere /\ stage' = "ancestor" /\ cur' = Up(cur)
  <2>1. ASSUME NEW r \in Roots, IsPrefix(r, clean), r \in dirs PROVE IsPrefix(r, Up(cur))
    <3>1. IsPrefix(r, cur) /\ r # cur /\ r \in Path
      BY <1>3, <1>4, <1>5, <2>1
    <3>2. Len(r) < Len(cur)
      <4>1. Len(r) <= Len(cur) /\ r = Take(cur, Len(r)) /\ Len(r) \in Nat /\ Len(cur) \in Nat
        BY <1>1, <3>1, PrefixIs, TakeAll
      <4>2. Take(cur, Len(cur)) = cur
        BY <1>1, TakeAll
      <4> QED
        BY <3>1, <4>1, <4>2
    <3>3. Up(cur) \in Path /\ IsPrefix(Up(cur), cur) /\ Len(r) <= Len(Up(cur))
      <4>1. Up(cur) \in Path /\ IsPrefix(Up(cur), cur) /\ Len(Up(cur)) = Len(cur) - 1 /\ Len(cur) \in Nat
        BY <1>1, <1>4, <1>5, UpIsPrefix
      <4>2. Len(r) \in Nat
        BY <3>1, TakeAll
      <4> QED
        BY <3>2, <4>1, <4>2
    <3> QED
      BY <1>1, <3>1, <3>3, PrefixesNest
  <2> QED
    BY <1>1, <1>5, <2>1 DEF PlainInv, Looking
<1>6. CASE stage' = "accepted"
  BY <1>6 DEF PlainInv, Looking
<1>7. CASE RealPath(cur) # Nowhere /\ ~Contained(RealPath(cur)) /\ stage' = "rejected"
  <2>1. Contained(clean) /\ \A k \in 1..Len(clean) : Take(clean, k) \notin DOMAIN links
    BY DEF Lost, Take
  <2>2. PICK r \in Roots : IsPrefix(r, clean) /\ r \in dirs
    BY DEF Lost
  <2>3. \A k \in 1..Len(cur) : Take(clean, k) \notin DOMAIN links
    <3>1. \A k \in 1..Len(cur) : k \in 1..Len(clean)
      BY <1>1, <1>4, TakeAll
    <3> QED
      BY <2>1, <3>1
  <2>4. Walk(dirs, links, clean)[Len(cur)] \in {Take(clean, Len(cur)), Nowhere}
    BY <1>1, <1>4, <2>3, WalkPlain DEF ValInv
  <2>5. Take(clean, Len(cur)) = cur
    BY <1>1, PrefixIs
  <2>6. RealPath(cur) = cur
    BY <1>4, <1>7, <2>4, <2>5
  <2>7. Contained(cur)
    BY <1>3, <2>2 DEF Contained
  <2> QED
    BY <1>7, <2>6, <2>7
<1> QED
  BY <1>1, <1>5, <1>6, <1>7

LEMMA LooksKeepsInside ==
  ASSUME ValInv, InsideInv, Resolve \/ Ancestor
  PROVE  InsideInv'
<1>1. /\ Looking /\ clean \in Path /\ cur \in Path /\ IsPrefix(cur, clean) /\ clean # Nowhere
      /\ UNCHANGED <<dirs, links, relinked, moves, clean>>
      /\ \/ RealPath(cur) = Nowhere /\ stage' = "ancestor" /\ cur' = Up(cur)
         \/ /\ RealPath(cur) # Nowhere /\ Contained(RealPath(cur))
            /\ stage' = "accepted" /\ dest' \in {RealPath(cur), clean}
         \/ stage' = "rejected"
  BY Looks, PathsAssumption DEF Path
<1> SUFFICES ASSUME ~relinked PROVE InsideInv'
  BY <1>1 DEF InsideInv
<1>3. /\ Tree(dirs, links) /\ dirs \subseteq Path /\ Nowhere \notin dirs
      /\ RealPath(cur) \in dirs \cup {Nowhere}
      /\ RealPath(cur) = Nowhere => cur # << >>
      /\ RealPath(cur) = Walk(dirs, links, clean)[Len(cur)] /\ Len(cur) \in 0..Len(clean)
      /\ Len(cur) \in Nat /\ Len(clean) \in Nat
  BY <1>1, RealPathFacts, TakeAll DEF ValInv
<1>4. \A k \in Len(cur) + 1..Len(clean) : ~Linked(dirs, links, clean, k)
  BY <1>1 DEF InsideInv
<1>5. CASE RealPath(cur) = Nowhere /\ stage' = "ancestor" /\ cur' = Up(cur)
  <2>1. Len(Up(cur)) = Len(cur) - 1 /\ Len(cur) \in 1..Len(clean)
    BY <1>1, <1>3, <1>5, UpIsPrefix, TakeAll
  <2>2. ~Linked(dirs, links, clean, Len(cur))
    <3> DEFINE n == Len(cur)
               q == Onto(dirs, links, clean, n)
    <3>1. n \in 1..Len(clean) /\ Walk(dirs, links, clean)[n] = Nowhere
      BY <1>3, <1>5, <2>1
    <3> HIDE DEF n
    <3>2. q \in DOMAIN links /\ Walk(dirs, links, clean)[n - 1] # Nowhere => links[q] \notin dirs
      BY <1>1, <1>3, <3>1, WalkFacts
    <3>3. ~Linked(dirs, links, clean, n)
      BY <3>2 DEF Linked
    <3> QED
      BY <3>3 DEF n
  <2>3. \A k \in Len(cur')+ 1..Len(clean) : ~Linked(dirs, links, clean, k)
    <3> SUFFICES ASSUME NEW k \in Len(Up(cur)) + 1..Len(clean) PROVE ~Linked(dirs, links, clean, k)
      BY <1>5
    <3>1. k = Len(cur) \/ k \in Len(cur) + 1..Len(clean)
      BY <1>3, <2>1
    <3> QED
      BY <1>4, <2>2, <3>1
  <2> QED
    BY <1>1, <1>5, <2>3 DEF InsideInv
<1>6. CASE /\ RealPath(cur) # Nowhere /\ Contained(RealPath(cur))
           /\ stage' = "accepted" /\ dest' \in {RealPath(cur), clean}
  <2>1. RealPath(cur) \in dirs /\ RealPath(cur) \in Path
    BY <1>3, <1>6
  <2>2. PICK r \in Roots : IsPrefix(r, RealPath(cur))
    BY <1>6 DEF Contained
  <2>3. r \in dirs /\ r \in Path
    <3>1. r \in Path
      BY CleanPaths
    <3>2. Len(r) \in 0..Len(RealPath(cur)) /\ r = Take(RealPath(cur), Len(r))
      BY <2>1, <2>2, <3>1, PrefixIs, TakeAll
    <3> QED
      BY <1>3, <2>1, <3>1, <3>2, Ancestors
  <2>4. Meant(RealPath(cur)) = RealPath(cur)
    BY <1>3, <2>1, DirectoryIsMeant DEF Meant
  <2>5. Meant(clean) = Nowhere \/ IsPrefix(RealPath(cur), Meant(clean))
    BY <1>1, <1>3, <1>4, <1>6, LeadsBelow DEF Meant
  <2>6. Meant(clean) \in Path \cup {Nowhere}
    BY <1>1, <1>3, LeadsIsAPath DEF Meant
  <2>7. Meant(dest') = Nowhere \/ IsPrefix(r, Meant(dest'))
    <3>1. CASE dest' = RealPath(cur)
      BY <2>2, <2>4, <3>1
    <3>2. CASE dest' = clean
      BY <2>1, <2>2, <2>3, <2>5, <2>6, <3>2, PrefixOfLonger
    <3> QED
      BY <1>6, <3>1, <3>2
  <2>8. Meant(dest)' = Meant(dest')
    BY <1>1 DEF Meant
  <2> QED
    BY <1>1, <1>6, <2>3, <2>7, <2>8 DEF InsideInv, Looking
<1>7. CASE stage' = "rejected"
  BY <1>1, <1>7 DEF InsideInv, Looking
<1> QED
  BY <1>1, <1>5, <1>6, <1>7

(* A connection breaks: once more from the path, or no more. *)
LEMMA BreaksKeeps ==
  ASSUME ValInv, PlainInv, InsideInv, ValidateBreaks
  PROVE  ValInv' /\ PlainInv' /\ InsideInv'
<1>1. /\ Looking /\ clean \in Path /\ clean # Nowhere /\ breaks < MaxBreaks /\ breaks' = breaks + 1
      /\ UNCHANGED <<dirs, links, relinked, moves, clean>>
      /\ \/ attempt = 0 /\ stage' = "resolve" /\ cur' = clean /\ attempt' = 1 /\ dest' = dest /\ dest = Nowhere
         \/ attempt = 1 /\ stage' = "rejected" /\ cur' = cur /\ attempt' = 1 /\ dest' = Nowhere
  <2>1. Looking /\ clean \in Path /\ clean # Nowhere /\ attempt \in {0, 1} /\ dest = Nowhere
    BY DEF ValInv, ValidateBreaks, Looking
  <2> QED
    BY <2>1 DEF ValidateBreaks, Decides, nas
<1>2. breaks \in 0..MaxBreaks /\ MaxBreaks \in Nat /\ breaks' \in 0..MaxBreaks /\ breaks' >= 1
      /\ (attempt = 1 => breaks' >= 2)
  BY <1>1, MovesAssumption DEF ValInv
<1>3. IsPrefix(clean, clean) /\ Len(clean) \in Nat
  BY <1>1, PrefixIs, TakeAll
<1>4. ValInv'
  BY <1>1, <1>2, <1>3, PathsAssumption DEF ValInv, Path
<1>5. PlainInv'
  BY <1>1, <1>2 DEF PlainInv, Looking
<1>6. InsideInv'
  <2>1. Len(clean) + 1..Len(clean) = {}
    BY <1>3
  <2> QED
    BY <1>1, <2>1 DEF InsideInv, Looking
<1> QED
  BY <1>4, <1>5, <1>6

(* What others do to the NAS. *)
LEMMA OthersFrame ==
  ASSUME Others
  PROVE  /\ moves < MaxMoves /\ moves' = moves + 1
         /\ UNCHANGED <<stage, clean, cur, attempt, dest, breaks>>
  BY DEF Others, OthersMakeDir, OthersRemove, OthersLink, Moves, validation

LEMMA OthersKeepsTree ==
  ASSUME Tree(dirs, links), Others
  PROVE  Tree(dirs', links')
<1>1. \A p \in Paths : p \in Path
  BY PathsAssumption DEF Path
<1>2. CASE OthersMakeDir
  <2>1. PICK p \in Paths \ (dirs \cup DOMAIN links) :
          Up(p) \in dirs /\ dirs' = dirs \cup {p} /\ links' = links
    BY <1>2 DEF OthersMakeDir
  <2> QED
    BY <1>1, <2>1, TreeGrows
<1>3. CASE OthersRemove /\ links' = links
  <2>1. CASE dirs' = dirs
    BY <1>3, <2>1
  <2>2. CASE dirs' # dirs
    <3>1. PICK p \in dirs \ {<< >>} :
            dirs' = dirs \ {p} /\ \A q \in dirs \cup DOMAIN links : q # p => Up(q) # p
      BY <1>3, <2>2 DEF OthersRemove
    <3> QED
      BY <1>3, <3>1, TreeShrinks
  <2> QED
    BY <2>1, <2>2
<1>4. CASE OthersRemove /\ links' # links
  <2>1. PICK p \in DOMAIN links : links' = [q \in DOMAIN links \ {p} |-> links[q]] /\ dirs' = dirs
    BY <1>4 DEF OthersRemove
  <2>2. LinksLeft(links, links')
    BY <2>1 DEF LinksLeft
  <2> QED
    BY <2>1, <2>2, TreeUnlinks
<1>5. CASE OthersLink
  <2>1. PICK p \in Paths \ (dirs \cup DOMAIN links), t \in Paths :
          /\ Up(p) \in dirs /\ dirs' = dirs
          /\ links' = [q \in DOMAIN links \cup {p} |-> IF q = p THEN t ELSE links[q]]
    BY <1>5 DEF OthersLink
  <2> QED
    BY <1>1, <2>1, TreeLinks
<1> QED
  BY <1>2, <1>3, <1>4, <1>5 DEF Others

(* As long as the history calls it no exception, others make no component lead *)
(* elsewhere, and a path means what it meant, nothing, or a place inside.      *)
THEOREM OthersLeaveMeaning ==
  ASSUME Tree(dirs, links), Tree(dirs', links'), relinked \in BOOLEAN, Others, ~relinked'
  PROVE  /\ ~relinked /\ LinksLeft(links, links')
         /\ \A l \in DOMAIN links' : links'[l] \in dirs' => links'[l] \in dirs
         /\ \A p \in Path : \/ Leads(dirs', links', p) \in {Leads(dirs, links, p), Nowhere}
                            \/ Leads(dirs', links', p) \in Path /\ Contained(Leads(dirs', links', p))
<1>1. CASE OthersMakeDir
  <2>1. PICK m \in Paths \ (dirs \cup DOMAIN links) :
          /\ dirs' = dirs \cup {m} /\ links' = links
          /\ relinked' = (relinked \/ \E l \in DOMAIN links : links[l] = m)
    BY <1>1 DEF OthersMakeDir
  <2>2. ~relinked /\ \A l \in DOMAIN links : links[l] # m
    BY <2>1
  <2>3. ASSUME NEW p \in Path PROVE Leads(dirs', links', p) = Leads(dirs, links, p)
    <3>1. m \notin dirs /\ Tree(dirs \cup {m}, links)
      BY <2>1
    <3>2. Leads(dirs \cup {m}, links, p) = Leads(dirs, links, p)
      BY <2>2, <3>1, DirMade
    <3> QED
      BY <2>1, <3>2
  <2> QED
    BY <2>1, <2>2, <2>3 DEF LinksLeft
<1>2. CASE OthersRemove /\ links' = links /\ dirs' # dirs
  <2>1. PICK m \in dirs \ {<< >>} : dirs' = dirs \ {m} /\ relinked' = relinked
    BY <1>2 DEF OthersRemove
  <2>2. ASSUME NEW p \in Path PROVE Leads(dirs', links', p) \in {Leads(dirs, links, p), Nowhere}
    <3>1. m \notin dirs' /\ dirs' \cup {m} = dirs /\ links' = links
      BY <1>2, <2>1
    <3>2. Tree(dirs', links) /\ Tree(dirs' \cup {m}, links)
      BY <3>1
    <3> DEFINE D == dirs'
    <3> HIDE DEF D
    <3>3. Leads(D, links, p) # Nowhere => Leads(D \cup {m}, links, p) = Leads(D, links, p)
      BY <3>1, <3>2, DirMade DEF D
    <3> QED
      BY <3>1, <3>3 DEF D
  <2> QED
    BY <1>2, <2>1, <2>2 DEF LinksLeft
<1>3. CASE OthersRemove /\ links' # links
  <2>1. PICK l \in DOMAIN links :
          /\ links' = [q \in DOMAIN links \ {l} |-> links[q]] /\ dirs' = dirs
          /\ relinked' = (relinked \/ ~Contained(l))
    BY <1>3 DEF OthersRemove
  <2>2. ~relinked /\ Contained(l) /\ LinksLeft(links, links') /\ DOMAIN links \ DOMAIN links' = {l} /\ l \in Path
    BY <2>1, TreeFacts DEF LinksLeft
  <2>3. ASSUME NEW p \in Path
        PROVE  \/ Leads(dirs', links', p) \in {Leads(dirs, links, p), Nowhere}
               \/ Leads(dirs', links', p) \in Path /\ Contained(Leads(dirs', links', p))
    <3>1. \/ Leads(dirs, links', p) \in {Leads(dirs, links, p), Nowhere}
          \/ IsPrefix(l, Leads(dirs, links', p))
      BY <2>1, <2>2, LinkGone
    <3>2. Leads(dirs, links', p) \in Path \cup {Nowhere}
      BY <2>1, LeadsIsAPath
    <3> QED
      BY <2>1, <2>2, <3>1, <3>2, ContainedBelow
  <2> QED
    BY <2>1, <2>2, <2>3 DEF LinksLeft
<1>4. CASE OthersLink
  BY <1>4 DEF OthersLink
<1>5. CASE OthersRemove /\ links' = links /\ dirs' = dirs
  <2>1. CASE \E p \in dirs : dirs' = dirs \ {p}
    BY <1>5, <2>1
  <2>2. CASE \E p \in DOMAIN links : links' = [q \in DOMAIN links \ {p} |-> links[q]]
    <3>1. PICK p \in DOMAIN links : DOMAIN links' = DOMAIN links \ {p}
      BY <2>2
    <3> QED
      BY <1>5, <3>1
  <2> QED
    BY <1>5, <2>1, <2>2 DEF OthersRemove
<1> QED
  BY <1>1, <1>2, <1>3, <1>4, <1>5 DEF Others

LEMMA OthersKeeps ==
  ASSUME ValInv, PlainInv, InsideInv, Others
  PROVE  ValInv' /\ PlainInv' /\ InsideInv'
<1>1. /\ Tree(dirs, links) /\ Tree(dirs', links')
      /\ moves \in Nat /\ moves < MaxMoves /\ moves' = moves + 1
      /\ UNCHANGED <<stage, clean, cur, attempt, dest, breaks>>
  BY OthersFrame, OthersKeepsTree DEF ValInv
<1>2. relinked' \in BOOLEAN
  BY DEF ValInv, Others, OthersMakeDir, OthersRemove, OthersLink
<1>3. ValInv'
  BY <1>1, <1>2, MovesAssumption DEF ValInv
<1>4. PlainInv'
  BY <1>1 DEF PlainInv
<1> SUFFICES ASSUME ~relinked' PROVE InsideInv'
  BY <1>3, <1>4 DEF InsideInv
<1>5. /\ ~relinked /\ LinksLeft(links, links')
      /\ \A l \in DOMAIN links' : links'[l] \in dirs' => links'[l] \in dirs
      /\ \A p \in Path : \/ Leads(dirs', links', p) \in {Leads(dirs, links, p), Nowhere}
                         \/ Leads(dirs', links', p) \in Path /\ Contained(Leads(dirs', links', p))
  BY <1>1, OthersLeaveMeaning DEF ValInv
<1>6. ASSUME Looking', NEW k \in Len(cur') + 1..Len(clean') PROVE ~Linked(dirs', links', clean', k)
  <2>1. clean \in Path /\ k \in Len(cur) + 1..Len(clean) /\ k \in 1..Len(clean) /\ Looking
    <3>1. clean \in Path /\ cur \in Path /\ Looking
      BY <1>1, <1>6 DEF ValInv, Looking
    <3>2. Len(clean) \in Nat /\ Len(cur) \in Nat
      BY <3>1, TakeAll
    <3> QED
      BY <1>1, <1>6, <3>1, <3>2
  <2>2. ~Linked(dirs, links, clean, k)
    BY <1>5, <2>1 DEF InsideInv
  <2>3. ~Linked(dirs', links', clean, k)
    BY <1>1, <1>5, <2>1, <2>2, LinkedBefore
  <2> QED
    BY <1>1, <2>3
<1>7. ASSUME stage' = "accepted"
      PROVE  Meant(dest)' = Nowhere \/ \E r \in Roots : IsPrefix(r, Meant(dest)') /\ (moves' = 0 => r \in dirs')
  <2>1. dest \in Path /\ stage = "accepted" /\ moves' # 0
    BY <1>1, <1>7 DEF ValInv
  <2>2. Meant(dest)' = Leads(dirs', links', dest) /\ Meant(dest) = Leads(dirs, links, dest)
    BY <1>1 DEF Meant
  <2>3. Meant(dest) = Nowhere \/ Contained(Meant(dest))
    BY <1>5, <2>1 DEF InsideInv, Contained
  <2>4. Meant(dest)' = Nowhere \/ Contained(Meant(dest)')
    BY <1>5, <2>1, <2>2, <2>3
  <2> QED
    BY <2>1, <2>4 DEF Contained
<1> QED
  BY <1>6, <1>7 DEF InsideInv

LEMMA InitNas == NasInit => ValInv /\ PlainInv /\ InsideInv
<1> SUFFICES ASSUME NasInit PROVE ValInv /\ PlainInv /\ InsideInv
  OBVIOUS
<1>1. /\ relinked = FALSE /\ stage = "idle" /\ clean = << >> /\ cur = << >> /\ attempt = 0
      /\ dest = Nowhere /\ moves = 0 /\ breaks = 0
  BY DEF NasInit
<1>2. Tree(dirs, links)
  <2>1. PICK n \in FirstNas : dirs = n.dirs /\ links = n.links
    BY DEF NasInit
  <2>2. /\ << >> \in dirs /\ dirs \subseteq Paths \cup {<< >>}
        /\ DOMAIN links \subseteq Paths \ dirs /\ \A l \in DOMAIN links : links[l] \in Paths
        /\ \A p \in (dirs \cup DOMAIN links) \ {<< >>} : Up(p) \in dirs
    BY <2>1, NasAssumption
  <2>3. << >> \in Path /\ Paths \subseteq Path
    BY PathsAssumption DEF Path
  <2> QED
    BY <2>2, <2>3 DEF Tree
<1>3. << >> \in Path /\ IsPrefix(<< >>, << >>) /\ Nowhere \notin Path
  <2>1. << >> \in Path /\ Nowhere \notin Path
    BY PathsAssumption DEF Path
  <2> QED
    BY <2>1, PrefixIs, TakeAll
<1>4. ValInv
  <2>1. moves \in 0..MaxMoves /\ breaks \in 0..MaxBreaks
    BY <1>1, MovesAssumption
  <2>2. clean \in Path /\ cur \in Path /\ IsPrefix(cur, clean) /\ clean # Nowhere
    <3>1. clean = << >> /\ cur = << >>
      BY <1>1
    <3> QED
      BY <1>3, <3>1
  <2>3. stage \in {"idle", "resolve", "ancestor", "accepted", "rejected"} /\ ~(stage = "resolve")
        /\ (stage = "accepted" <=> dest # Nowhere) /\ relinked \in BOOLEAN
    BY <1>1
  <2>4. attempt \in {0, 1} /\ ~(attempt = 1) /\ dest \in Path \cup {Nowhere}
    BY <1>1
  <2> QED
    BY <1>2, <2>1, <2>2, <2>3, <2>4, Zenon DEF ValInv
<1>5. PlainInv /\ InsideInv
  BY <1>1 DEF PlainInv, InsideInv, Looking
<1> QED
  BY <1>4, <1>5
=============================================================================
