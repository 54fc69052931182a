---------------------------- MODULE ConfigUseProofs ----------------------------
(***************************************************************************)
(* ConfigUse for all files, strings, destinations and bounds: what the     *)
(* merge, the patterns and the mounts do, the inductive invariant IInv,    *)
(* and the properties that follow from it.                                 *)
(***************************************************************************)
EXTENDS ConfigUse, SequenceTheorems, FiniteSetTheorems, WellFoundedInduction, TLAPS

-------------------------------------------------------------------------------
(* Natural numbers                                                            *)

LEMMA Least ==
    ASSUME NEW T \in SUBSET Nat, T # {}
    PROVE  \E x \in T : \A y \in T : x <= y
<1> DEFINE R == {ss \in Nat \X Nat : ss[1] < ss[2]}
<1>1. IsWellFoundedOn(R, Nat)
  BY NatLessThanWellFounded DEF OpToRel
<1>2. PICK x \in T : \A y \in T : ~ (<<y, x>> \in R)
  BY <1>1, WFMin
<1>3. ASSUME NEW y \in T PROVE x <= y
  <2>1. x \in Nat /\ y \in Nat /\ <<y, x>> \notin R
    BY <1>2
  <2>2. ~(y < x)
    BY <2>1
  <2>. QED
    BY <2>1, <2>2
<1>. QED
  BY <1>3

LEMMA Induction ==
    ASSUME NEW T, 0 \in T, \A n \in Nat : n \in T => n + 1 \in T
    PROVE  Nat \subseteq T
<1> DEFINE U == Nat \ T
<1> SUFFICES ASSUME U # {} PROVE FALSE
  OBVIOUS
<1>1. PICK x \in U : \A y \in U : x <= y
  BY Least
<1>2. x # 0 /\ x - 1 \in Nat /\ x - 1 < x
  BY <1>1
<1>3. x - 1 \in T
  BY <1>1, <1>2
<1>. QED
  BY <1>1, <1>2, <1>3

\* A set of positions has a last one.
LEMMA Latest ==
    ASSUME NEW n \in Nat, NEW T \in SUBSET (1..n), T # {}
    PROVE  \E x \in T : \A y \in T : y <= x
<1> DEFINE U == {k \in Nat : n - k \in T}
<1>1. \A t \in T : t \in Int /\ n - t \in Nat /\ n - (n - t) = t
  OBVIOUS
<1>2. U \in SUBSET Nat /\ U # {}
  BY <1>1
<1>3. PICK k \in U : \A j \in U : k <= j
  BY <1>2, Least
<1>4. n - k \in T /\ k \in Nat
  BY <1>3
<1>5. ASSUME NEW y \in T PROVE y <= n - k
  <2>1. n - y \in U /\ y \in Int
    BY <1>1
  <2>2. k <= n - y
    BY <1>3, <2>1
  <2>. QED
    BY <1>4, <2>1, <2>2
<1>. QED
  BY <1>4, <1>5

-------------------------------------------------------------------------------
(* appendUnique                                                               *)

\* One step of appendUnique.
Added(list, v) == IF Contains(list, v) THEN list ELSE Append(list, v)

\* f describes the first n steps.
Steps(f, base, extras, n) ==
    /\ f = [k \in 0..n |-> f[k]] /\ f[0] = base
    /\ \A k \in 0..(n - 1) : f[k + 1] = Added(f[k], extras[k + 1])

LEMMA StepsExist ==
    ASSUME NEW base, NEW extras, NEW n \in Nat
    PROVE  \E f : Steps(f, base, extras, n)
<1> DEFINE T == {k \in Nat : \E f : Steps(f, base, extras, k)}
<1>1. 0 \in T
  <2>1. Steps([k \in 0..0 |-> base], base, extras, 0)
    BY DEF Steps
  <2>. QED
    BY <2>1
<1>2. ASSUME NEW k \in Nat, k \in T
      PROVE  k + 1 \in T
  <2>1. PICK f : Steps(f, base, extras, k)
    BY <1>2
  <2> DEFINE g == [j \in 0..(k + 1) |-> IF j <= k THEN f[j] ELSE Added(f[k], extras[k + 1])]
  <2>2. \A j \in 0..k : g[j] = f[j]
    OBVIOUS
  <2>3. g[k + 1] = Added(f[k], extras[k + 1])
    OBVIOUS
  <2>4. g = [j \in 0..(k + 1) |-> g[j]]
    OBVIOUS
  <2> HIDE DEF g
  <2>5. ASSUME NEW j \in 0..((k + 1) - 1) PROVE g[j + 1] = Added(g[j], extras[j + 1])
    <3>1. CASE j = k
      BY <2>2, <2>3, <3>1
    <3>2. CASE j # k
      <4>1. j \in 0..(k - 1) /\ j \in 0..k /\ j + 1 \in 0..k
        BY <3>2
      <4>. QED
        BY <2>1, <2>2, <4>1 DEF Steps
    <3>. QED
      BY <3>1, <3>2
  <2>6. g[0] = base
    BY <2>1, <2>2 DEF Steps
  <2>7. Steps(g, base, extras, k + 1)
    BY <2>4, <2>5, <2>6 DEF Steps
  <2>. QED
    BY <2>7
<1> HIDE DEF T
<1>3. Nat \subseteq T
  BY <1>1, <1>2, Induction
<1>. QED
  BY <1>3 DEF T

\* The recursive function of AppendUnique describes its steps.
LEMMA AppendUniqueSteps ==
    ASSUME NEW base, NEW extras, Len(extras) \in Nat
    PROVE  \E f : Steps(f, base, extras, Len(extras)) /\ AppendUnique(base, extras) = f[Len(extras)]
<1> DEFINE n == Len(extras)
           Body(f) == [k \in 0..n |->
                         IF k = 0 THEN base
                         ELSE LET list == f[k - 1]
                              IN  IF Contains(list, extras[k]) THEN list
                                  ELSE Append(list, extras[k])]
           upTo == CHOOSE f : f = Body(f)
<1>1. PICK g : Steps(g, base, extras, n)
  BY StepsExist
<1>2. g = Body(g)
  <2>1. ASSUME NEW k \in 0..n PROVE g[k] = Body(g)[k]
    <3>1. CASE k = 0
      BY <1>1, <3>1 DEF Steps
    <3>2. CASE k # 0
      <4>1. k - 1 \in 0..(n - 1) /\ (k - 1) + 1 = k
        BY <3>2
      <4>2. g[k] = Added(g[k - 1], extras[k])
        BY <1>1, <4>1 DEF Steps
      <4>. QED
        BY <3>2, <4>2 DEF Added
    <3>. QED
      BY <3>1, <3>2
  <2>2. g = [k \in 0..n |-> g[k]]
    BY <1>1 DEF Steps
  <2>. QED
    BY <2>1, <2>2
<1>3. upTo = Body(upTo)
  <2> HIDE DEF Body
  <2>. QED
    BY <1>2
<1>4. AppendUnique(base, extras) = upTo[n]
  BY DEF AppendUnique
<1> HIDE DEF upTo
<1>5. Steps(upTo, base, extras, n)
  <2>1. upTo[0] = base
    BY <1>3
  <2>2. ASSUME NEW k \in 0..(n - 1) PROVE upTo[k + 1] = Added(upTo[k], extras[k + 1])
    <3>1. k + 1 \in 0..n /\ k + 1 # 0 /\ (k + 1) - 1 = k
      OBVIOUS
    <3>2. upTo[k + 1] = Body(upTo)[k + 1]
      BY <1>3
    <3>. QED
      BY <3>1, <3>2 DEF Added
  <2>3. upTo = [k \in 0..n |-> upTo[k]]
    BY <1>3
  <2>. QED
    BY <2>1, <2>2, <2>3 DEF Steps
<1>. QED
  BY <1>4, <1>5

LEMMA ToSetLemma ==
    ASSUME NEW S, NEW s \in Seq(S)
    PROVE  /\ Len(s) \in Nat /\ DOMAIN s = 1..Len(s) /\ \A i \in 1..Len(s) : s[i] \in S
           /\ ToSet(s) = {s[i] : i \in 1..Len(s)} /\ ToSet(s) \subseteq S
           /\ \A v : Contains(s, v) <=> v \in ToSet(s)
           /\ s = <<>> <=> ToSet(s) = {}
<1>1. Len(s) \in Nat /\ DOMAIN s = 1..Len(s) /\ \A i \in 1..Len(s) : s[i] \in S
  BY LenProperties
<1>2. ToSet(s) = {s[i] : i \in 1..Len(s)}
  BY <1>1 DEF ToSet
<1>3. \A v : Contains(s, v) <=> v \in ToSet(s)
  BY <1>2 DEF Contains
<1>4. s = <<>> <=> ToSet(s) = {}
  <2>1. s # <<>> => 1 \in 1..Len(s)
    BY <1>1, EmptySeq
  <2>2. s = <<>> => 1..Len(s) = {}
    BY EmptySeq
  <2>. QED
    BY <1>2, <2>1, <2>2
<1>. QED
  BY <1>1, <1>2, <1>3, <1>4

LEMMA AddedLemma ==
    ASSUME NEW S, NEW list \in Seq(S), NEW v \in S
    PROVE  Added(list, v) \in Seq(S) /\ ToSet(Added(list, v)) = ToSet(list) \cup {v}
<1>1. CASE Contains(list, v)
  BY <1>1, ToSetLemma DEF Added
<1>2. CASE ~Contains(list, v)
  <2>1. Append(list, v) \in Seq(S) /\ Len(Append(list, v)) = Len(list) + 1
    BY AppendProperties
  <2>2. Len(list) \in Nat
    BY ToSetLemma
  <2>3. /\ \A i \in 1..Len(list) : Append(list, v)[i] = list[i]
        /\ Append(list, v)[Len(list) + 1] = v
    BY AppendProperties
  <2>4. 1..(Len(list) + 1) = 1..Len(list) \cup {Len(list) + 1}
    BY <2>2
  <2>5. ToSet(Append(list, v)) = {Append(list, v)[i] : i \in 1..(Len(list) + 1)}
    <3>1. ToSet(Append(list, v)) = {Append(list, v)[i] : i \in 1..Len(Append(list, v))}
      BY <2>1, ToSetLemma
    <3>. QED
      BY <2>1, <3>1
  <2>6. ToSet(list) = {list[i] : i \in 1..Len(list)}
    BY ToSetLemma
  <2>. QED
    BY <1>2, <2>1, <2>3, <2>4, <2>5, <2>6 DEF Added
<1>. QED
  BY <1>1, <1>2

\* What AppendUnique returns: the entries of both.
LEMMA AppendUniqueLemma ==
    ASSUME NEW S, NEW base \in Seq(S), NEW extras \in Seq(S)
    PROVE  /\ AppendUnique(base, extras) \in Seq(S)
           /\ ToSet(AppendUnique(base, extras)) = ToSet(base) \cup ToSet(extras)
<1> DEFINE n == Len(extras)
<1>1. n \in Nat /\ ToSet(extras) = {extras[i] : i \in 1..n} /\ \A i \in 1..n : extras[i] \in S
  BY ToSetLemma
<1>2. PICK f : Steps(f, base, extras, n) /\ AppendUnique(base, extras) = f[n]
  BY <1>1, AppendUniqueSteps
<1> HIDE DEF n
<1> DEFINE Good(k) == /\ f[k] \in Seq(S)
                      /\ ToSet(f[k]) = ToSet(base) \cup {extras[i] : i \in 1..k}
           T == {k \in Nat : k <= n => Good(k)}
<1>3. 0 \in T
  <2>1. f[0] = base /\ {extras[i] : i \in 1..0} = {}
    BY <1>2 DEF Steps
  <2>. QED
    BY <2>1
<1>4. ASSUME NEW k \in Nat, k \in T PROVE k + 1 \in T
  <2>1. CASE k + 1 <= n
    <3>1. k <= n /\ k \in 0..(n - 1) /\ k + 1 \in 1..n
      BY <1>1, <2>1
    <3>2. Good(k)
      BY <1>4, <3>1
    <3>3. f[k + 1] = Added(f[k], extras[k + 1])
      BY <1>2, <3>1 DEF Steps
    <3>4. extras[k + 1] \in S
      BY <1>1, <3>1
    <3>5. f[k + 1] \in Seq(S) /\ ToSet(f[k + 1]) = ToSet(f[k]) \cup {extras[k + 1]}
      <4>1. \A v \in S : /\ Added(f[k], v) \in Seq(S)
                         /\ ToSet(Added(f[k], v)) = ToSet(f[k]) \cup {v}
        BY <3>2, AddedLemma
      <4>. QED
        BY <3>3, <3>4, <4>1, Zenon
    <3>6. 1..(k + 1) = 1..k \cup {k + 1}
      OBVIOUS
    <3>7. Good(k + 1)
      BY <3>2, <3>5, <3>6
    <3>. QED
      BY <3>7
  <2>2. CASE ~(k + 1 <= n)
    BY <2>2
  <2>. QED
    BY <2>1, <2>2
<1>5. n \in T
  <2> HIDE DEF T
  <2>. QED
    BY <1>1, <1>3, <1>4, Induction
<1>. QED
  BY <1>1, <1>2, <1>5

\* Entries that are there already change nothing.
LEMMA AppendUniqueSame ==
    ASSUME NEW S, NEW base \in Seq(S), NEW extras \in Seq(S), ToSet(extras) \subseteq ToSet(base)
    PROVE  AppendUnique(base, extras) = base
<1> DEFINE n == Len(extras)
<1>1. n \in Nat /\ ToSet(extras) = {extras[i] : i \in 1..n}
  BY ToSetLemma
<1>2. PICK f : Steps(f, base, extras, n) /\ AppendUnique(base, extras) = f[n]
  BY <1>1, AppendUniqueSteps
<1> HIDE DEF n
<1> DEFINE T == {k \in Nat : k <= n => f[k] = base}
<1>3. 0 \in T
  BY <1>2 DEF Steps
<1>4. ASSUME NEW k \in Nat, k \in T PROVE k + 1 \in T
  <2>1. CASE k + 1 <= n
    <3>1. k <= n /\ k \in 0..(n - 1) /\ k + 1 \in 1..n
      BY <1>1, <2>1
    <3>2. f[k] = base
      BY <1>4, <3>1
    <3>3. f[k + 1] = Added(f[k], extras[k + 1])
      BY <1>2, <3>1 DEF Steps
    <3>4. extras[k + 1] \in ToSet(base)
      BY <1>1, <3>1
    <3>5. Contains(base, extras[k + 1])
      BY <3>4, ToSetLemma
    <3>. QED
      BY <3>2, <3>3, <3>5 DEF Added
  <2>2. CASE ~(k + 1 <= n)
    BY <2>2
  <2>. QED
    BY <2>1, <2>2
<1>5. n \in T
  <2> HIDE DEF T
  <2>. QED
    BY <1>1, <1>3, <1>4, Induction
<1>. QED
  BY <1>1, <1>2, <1>5

-------------------------------------------------------------------------------
(* path.Match                                                                 *)

\* owner deals the first j labels of h out to the first i of p, as in Denoted.
Dealt(owner, p, h, i, j) ==
    /\ owner \in [1..j -> 1..i]
    /\ \A a \in 1..i : \E b \in 1..j : owner[b] = a
    /\ \A a, b \in 1..j : a < b =>
         owner[a] < owner[b] \/ (owner[a] = owner[b] /\ p[owner[a]] = Star)
    /\ \A b \in 1..j : p[owner[b]] \in {h[b], Star}

Deals(p, h, i, j) == \E owner : Dealt(owner, p, h, i, j)

LEMMA DealtLast ==
    ASSUME NEW p, NEW h, NEW i \in Nat \ {0}, NEW j \in Nat \ {0},
           NEW owner, Dealt(owner, p, h, i, j)
    PROVE  owner[j] = i
<1>1. i \in 1..i /\ j \in 1..j
  OBVIOUS
<1>2. PICK b \in 1..j : owner[b] = i
  BY <1>1 DEF Dealt
<1>3. owner[j] \in 1..i
  BY <1>1 DEF Dealt
<1>4. CASE b = j
  BY <1>2, <1>4
<1>5. CASE b # j
  <2>1. b < j
    BY <1>5
  <2>2. owner[b] < owner[j] \/ owner[b] = owner[j]
    BY <1>1, <2>1 DEF Dealt
  <2>. QED
    BY <1>2, <1>3, <2>2
<1>. QED
  BY <1>4, <1>5

\* Without the last label of h: either its owner has others, or it goes as well.
LEMMA DealtBack ==
    ASSUME NEW p, NEW h, NEW i \in Nat \ {0}, NEW j \in Nat \ {0}, Deals(p, h, i, j)
    PROVE  \/ p[i] \in {h[j], Star} /\ Deals(p, h, i - 1, j - 1)
           \/ p[i] = Star /\ Deals(p, h, i, j - 1)
<1>1. PICK owner : Dealt(owner, p, h, i, j)
  BY DEF Deals
<1> DEFINE r == [b \in 1..(j - 1) |-> owner[b]]
<1>2. owner[j] = i /\ j \in 1..j
  BY <1>1, DealtLast
<1>3. p[i] \in {h[j], Star}
  BY <1>1, <1>2 DEF Dealt
<1>4. \A b \in 1..(j - 1) : b \in 1..j /\ b < j /\ b # j /\ r[b] = owner[b]
  OBVIOUS
<1>5. \A b \in 1..j : b # j => b \in 1..(j - 1)
  OBVIOUS
<1> HIDE DEF r
<1>6. /\ \A a, b \in 1..(j - 1) : a < b =>
           r[a] < r[b] \/ (r[a] = r[b] /\ p[r[a]] = Star)
      /\ \A b \in 1..(j - 1) : p[r[b]] \in {h[b], Star}
  BY <1>1, <1>4 DEF Dealt
<1>7. CASE \E b \in 1..(j - 1) : owner[b] = i
  <2>1. PICK c \in 1..(j - 1) : owner[c] = i
    BY <1>7
  <2>2. p[i] = Star
    <3>1. \/ owner[c] < owner[j]
          \/ owner[c] = owner[j] /\ p[owner[c]] = Star
      BY <1>1, <1>2, <1>4 DEF Dealt
    <3>. QED
      BY <1>2, <2>1, <3>1
  <2>3. r \in [1..(j - 1) -> 1..i]
    <3>1. \A b \in 1..(j - 1) : owner[b] \in 1..i
      BY <1>1, <1>4 DEF Dealt
    <3>. QED
      BY <3>1 DEF r
  <2>4. ASSUME NEW a \in 1..i PROVE \E b \in 1..(j - 1) : r[b] = a
    <3>1. PICK b \in 1..j : owner[b] = a
      BY <1>1 DEF Dealt
    <3>2. CASE b = j
      BY <1>2, <1>4, <2>1, <3>1, <3>2
    <3>3. CASE b # j
      BY <1>4, <1>5, <3>1, <3>3
    <3>. QED
      BY <3>2, <3>3
  <2>5. Dealt(r, p, h, i, j - 1)
    BY <1>6, <2>3, <2>4 DEF Dealt
  <2>. QED
    BY <2>2, <2>5 DEF Deals
<1>8. CASE \A b \in 1..(j - 1) : owner[b] # i
  <2>1. r \in [1..(j - 1) -> 1..(i - 1)]
    <3>1. \A b \in 1..(j - 1) : owner[b] \in 1..i
      BY <1>1, <1>4 DEF Dealt
    <3>2. \A b \in 1..(j - 1) : owner[b] \in 1..(i - 1)
      BY <1>8, <3>1
    <3>. QED
      BY <3>2 DEF r
  <2>2. ASSUME NEW a \in 1..(i - 1) PROVE \E b \in 1..(j - 1) : r[b] = a
    <3>1. a \in 1..i /\ a # i
      OBVIOUS
    <3>2. PICK b \in 1..j : owner[b] = a
      BY <1>1, <3>1 DEF Dealt
    <3>. QED
      BY <1>2, <1>4, <1>5, <3>1, <3>2
  <2>3. Dealt(r, p, h, i - 1, j - 1)
    BY <1>6, <2>1, <2>2 DEF Dealt
  <2>. QED
    BY <1>3, <2>3 DEF Deals
<1>. QED
  BY <1>7, <1>8

\* One more label of h goes to the next label of p, or to the last when it is a star.
LEMMA DealtOn ==
    ASSUME NEW p, NEW h, NEW i \in Nat \ {0}, NEW j \in Nat \ {0},
           \/ p[i] \in {h[j], Star} /\ Deals(p, h, i - 1, j - 1)
           \/ p[i] = Star /\ Deals(p, h, i, j - 1)
    PROVE  Deals(p, h, i, j)
<1>0. PICK k \in {i - 1, i} : /\ Deals(p, h, k, j - 1)
                              /\ p[i] \in {h[j], Star}
                              /\ k = i => p[i] = Star
  OBVIOUS
<1>1. PICK r : Dealt(r, p, h, k, j - 1) /\ p[i] \in {h[j], Star} /\ (k = i => p[i] = Star)
  BY <1>0 DEF Deals
<1> DEFINE owner == [b \in 1..j |-> IF b = j THEN i ELSE r[b]]
<1>2. k \in Nat /\ k <= i /\ k >= i - 1 /\ \A b \in 1..(j - 1) : r[b] \in 1..k
  BY <1>1 DEF Dealt
<1>3. \A b \in 1..j : b # j => b \in 1..(j - 1)
  OBVIOUS
<1>4. \A b \in 1..(j - 1) : b \in 1..j /\ b # j /\ owner[b] = r[b] /\ owner[b] \in 1..i
  BY <1>2
<1>5. j \in 1..j /\ owner[j] = i /\ i \in 1..i
  OBVIOUS
<1>6. owner \in [1..j -> 1..i]
  <2>1. \A b \in 1..j : owner[b] \in 1..i
    BY <1>3, <1>4, <1>5
  <2>. QED
    BY <2>1
<1> HIDE DEF owner
<1>7. ASSUME NEW a \in 1..i PROVE \E b \in 1..j : owner[b] = a
  <2>1. CASE a = i
    BY <1>5, <2>1
  <2>2. CASE a # i
    <3>1. a \in 1..k
      BY <1>2, <2>2
    <3>2. PICK b \in 1..(j - 1) : r[b] = a
      BY <1>1, <3>1 DEF Dealt
    <3>. QED
      BY <1>4, <3>2
  <2>. QED
    BY <2>1, <2>2
<1>8. ASSUME NEW a \in 1..j, NEW b \in 1..j, a < b
      PROVE  owner[a] < owner[b] \/ (owner[a] = owner[b] /\ p[owner[a]] = Star)
  <2>1. a # j /\ a \in 1..(j - 1) /\ owner[a] = r[a] /\ r[a] \in 1..k
    BY <1>2, <1>4, <1>8
  <2>2. CASE b = j
    <3>1. owner[b] = i /\ r[a] <= k
      BY <1>2, <1>5, <2>1, <2>2
    <3>2. CASE r[a] = i
      <4>1. k = i
        BY <1>2, <2>1, <3>2
      <4>. QED
        BY <1>1, <2>1, <3>1, <3>2, <4>1
    <3>3. CASE r[a] # i
      BY <1>2, <2>1, <3>1, <3>3
    <3>. QED
      BY <3>2, <3>3
  <2>3. CASE b # j
    <3>1. b \in 1..(j - 1) /\ owner[b] = r[b]
      BY <1>3, <1>4, <2>3
    <3>. QED
      BY <1>1, <1>8, <2>1, <3>1 DEF Dealt
  <2>. QED
    BY <2>2, <2>3
<1>9. ASSUME NEW b \in 1..j PROVE p[owner[b]] \in {h[b], Star}
  <2>1. CASE b = j
    BY <1>1, <1>5, <2>1
  <2>2. CASE b # j
    BY <1>1, <1>3, <1>4, <2>2 DEF Dealt
  <2>. QED
    BY <2>1, <2>2
<1>10. Dealt(owner, p, h, i, j)
  BY <1>6, <1>7, <1>8, <1>9 DEF Dealt
<1>. QED
  BY <1>10 DEF Deals

LEMMA DealtNone ==
    ASSUME NEW p, NEW h, NEW i \in Nat, NEW j \in Nat, i = 0 \/ j = 0
    PROVE  Deals(p, h, i, j) <=> i = j
<1>1. CASE i = 0 /\ j = 0
  <2>1. Dealt([b \in 1..0 |-> 1], p, h, 0, 0)
    BY DEF Dealt
  <2>. QED
    BY <1>1, <2>1 DEF Deals
<1>2. CASE i = 0 /\ j # 0
  <2>1. 1 \in 1..j /\ 1..i = {}
    BY <1>2
  <2>2. ~Deals(p, h, i, j)
    BY <2>1 DEF Deals, Dealt
  <2>. QED
    BY <1>2, <2>2
<1>3. CASE i # 0 /\ j = 0
  <2>1. 1 \in 1..i /\ 1..j = {}
    BY <1>3
  <2>2. ~Deals(p, h, i, j)
    BY <2>1 DEF Deals, Dealt
  <2>. QED
    BY <1>3, <2>2
<1>. QED
  BY <1>1, <1>2, <1>3

\* path.Match finds out whether the labels can be dealt out.
LEMMA MatchLemma ==
    ASSUME NEW p, NEW h, Len(p) \in Nat, Len(h) \in Nat
    PROVE  LabelsMatch(p, h) <=> Deals(p, h, Len(p), Len(h))
<1> DEFINE m == Len(p)
           n == Len(h)
           Body(f) == [j \in 0..n |->
                         IF j = 0 THEN {0}
                         ELSE {i \in 1..m : \/ p[i] \in {h[j], Star} /\ i - 1 \in f[j - 1]
                                            \/ p[i] = Star /\ i \in f[j - 1]}]
           reached == CHOOSE f : f = Body(f)
           g == [j \in 0..n |-> {i \in 0..m : Deals(p, h, i, j)}]
<1>1. LabelsMatch(p, h) <=> m \in reached[n]
  BY DEF LabelsMatch
<1>2. \A j \in 0..n : g[j] = {i \in 0..m : Deals(p, h, i, j)}
  OBVIOUS
<1>3. g = Body(g)
  <2>1. ASSUME NEW j \in 0..n PROVE g[j] = Body(g)[j]
    <3>1. CASE j = 0
      <4>1. \A i \in 0..m : Deals(p, h, i, j) <=> i = 0
        BY <3>1, DealtNone
      <4>. QED
        BY <3>1, <4>1
    <3>2. CASE j # 0
      <4>1. j - 1 \in 0..n /\ j \in Nat \ {0}
        BY <3>2
      <4>2. ~Deals(p, h, 0, j)
        BY <4>1, DealtNone
      <4>3. ASSUME NEW i \in 1..m
            PROVE  Deals(p, h, i, j) <=> \/ p[i] \in {h[j], Star} /\ i - 1 \in g[j - 1]
                                         \/ p[i] = Star /\ i \in g[j - 1]
        <5>1. i - 1 \in 0..m /\ i \in 0..m /\ i \in Nat \ {0}
          OBVIOUS
        <5>2. /\ i - 1 \in g[j - 1] <=> Deals(p, h, i - 1, j - 1)
              /\ i \in g[j - 1] <=> Deals(p, h, i, j - 1)
          BY <1>2, <4>1, <5>1
        <5>. QED
          BY <4>1, <5>1, <5>2, DealtBack, DealtOn
      <4>4. 0..m = {0} \cup 1..m
        OBVIOUS
      <4>5. Body(g)[j] = {i \in 1..m : \/ p[i] \in {h[j], Star} /\ i - 1 \in g[j - 1]
                                       \/ p[i] = Star /\ i \in g[j - 1]}
        <5> HIDE DEF g
        <5>. QED
          BY <3>2
      <4>. QED
        BY <1>2, <4>2, <4>3, <4>4, <4>5
    <3>. QED
      BY <3>1, <3>2
  <2>2. g = [j \in 0..n |-> g[j]]
    OBVIOUS
  <2> HIDE DEF g
  <2>. QED
    BY <2>1, <2>2
<1> HIDE DEF g
<1>4. reached = Body(reached)
  <2> HIDE DEF Body
  <2>. QED
    BY <1>3
<1> HIDE DEF reached
<1> DEFINE T == {j \in Nat : j <= n => reached[j] = g[j]}
<1>5. 0 \in T
  BY <1>3, <1>4
<1>6. ASSUME NEW j \in Nat, j \in T PROVE j + 1 \in T
  <2>1. CASE j + 1 <= n
    <3>1. j + 1 \in 0..n /\ j + 1 # 0 /\ (j + 1) - 1 = j /\ reached[j] = g[j]
      BY <1>6, <2>1
    <3>2. reached[j + 1] = Body(reached)[j + 1] /\ g[j + 1] = Body(g)[j + 1]
      BY <1>3, <1>4
    <3>3. Body(reached)[j + 1] = Body(g)[j + 1]
      BY <3>1
    <3>. QED
      BY <3>2, <3>3
  <2>2. CASE ~(j + 1 <= n)
    BY <2>2
  <2>. QED
    BY <2>1, <2>2
<1>7. n \in T
  <2> HIDE DEF T
  <2>. QED
    BY <1>5, <1>6, Induction
<1>. QED
  BY <1>1, <1>2, <1>7

-------------------------------------------------------------------------------
(* Patterns                                                                   *)

LEMMA DenotedLemma ==
    ASSUME NEW p \in Seq(Label), NEW h \in Seq(Label)
    PROVE  LabelsMatch(p, h) <=> Denoted(p, h)
<1>1. Len(p) \in Nat /\ Len(h) \in Nat /\ DOMAIN p = 1..Len(p) /\ DOMAIN h = 1..Len(h)
  BY ToSetLemma
<1>2. ASSUME Deals(p, h, Len(p), Len(h)) PROVE Denoted(p, h)
  <2>1. PICK owner : Dealt(owner, p, h, Len(p), Len(h))
    BY <1>2 DEF Deals
  <2>2. /\ owner \in [DOMAIN h -> DOMAIN p]
        /\ \A i \in DOMAIN p : \E j \in DOMAIN h : owner[j] = i
        /\ \A j \in DOMAIN h : p[owner[j]] \in {h[j], Star}
    BY <1>1, <2>1 DEF Dealt
  <2>3. \A j, k \in DOMAIN h : j < k =>
          \/ owner[j] < owner[k]
          \/ owner[j] = owner[k] /\ p[owner[j]] = Star
    BY <1>1, <2>1 DEF Dealt
  <2>. QED
    BY <2>2, <2>3 DEF Denoted
<1>3. ASSUME Denoted(p, h) PROVE Deals(p, h, Len(p), Len(h))
  <2>1. PICK owner \in [DOMAIN h -> DOMAIN p] :
          /\ \A i \in DOMAIN p : \E j \in DOMAIN h : owner[j] = i
          /\ \A j, k \in DOMAIN h : j < k =>
               \/ owner[j] < owner[k]
               \/ owner[j] = owner[k] /\ p[owner[j]] = Star
          /\ \A j \in DOMAIN h : p[owner[j]] \in {h[j], Star}
    BY <1>3 DEF Denoted
  <2>2. Dealt(owner, p, h, Len(p), Len(h))
    BY <1>1, <2>1 DEF Dealt
  <2>. QED
    BY <2>2 DEF Deals
<1>. QED
  BY <1>1, <1>2, <1>3, MatchLemma

\* A text without a star, and any other, denotes itself.
LEMMA DenotedSelf ==
    ASSUME NEW p \in Seq(Label)
    PROVE  Denoted(p, p)
<1> DEFINE owner == [i \in DOMAIN p |-> i]
<1>1. owner \in [DOMAIN p -> DOMAIN p]
  OBVIOUS
<1>2. \A j \in DOMAIN p : owner[j] = j
  OBVIOUS
<1> HIDE DEF owner
<1>. QED
  BY <1>1, <1>2 DEF Denoted

LEMMA SuffixLemma ==
    ASSUME NEW s \in Seq(Label), NEW t \in Seq(Label), IsStrictSuffix(s, t)
    PROVE  /\ Len(s) < Len(t)
           /\ \A i \in 1..Len(s) : s[i] = t[Len(t) - Len(s) + i]
<1> DEFINE r == Reverse(s)
           q == Reverse(t)
           m == Len(s)
           n == Len(t)
<1>1. m \in Nat /\ n \in Nat
  BY ToSetLemma
<1>2. /\ r \in Seq(Label) /\ Len(r) = m /\ \A i \in 1..m : r[i] = s[(m - i) + 1]
      /\ q \in Seq(Label) /\ Len(q) = n /\ \A i \in 1..n : q[i] = t[(n - i) + 1]
  <2>1. \A i \in 1..m : s[(m - i) + 1] \in Label
    BY <1>1, ToSetLemma
  <2>2. \A i \in 1..n : t[(n - i) + 1] \in Label
    BY <1>1, ToSetLemma
  <2>. QED
    BY <1>1, <2>1, <2>2 DEF Reverse
<1> HIDE DEF r, q
<1>3. m <= n /\ SubSeq(r, 1, m) = SubSeq(q, 1, m) /\ s # t
  BY <1>2 DEF IsStrictSuffix, IsSuffix, IsPrefix, r, q
<1>4. \A i \in 1..m : r[i] = q[i]
  <2>1. \A i \in 1..m : r[i] \in Label /\ q[i] \in Label
    BY <1>1, <1>2, <1>3, ToSetLemma
  <2>2. \A i \in 1..m : SubSeq(r, 1, m)[i] = r[i]
    BY <1>1, <2>1, SubSeqProperties
  <2>3. \A i \in 1..m : SubSeq(q, 1, m)[i] = q[i]
    BY <1>1, <2>1, SubSeqProperties
  <2>. QED
    BY <1>3, <2>2, <2>3
<1>5. ASSUME NEW i \in 1..m PROVE s[i] = t[n - m + i]
  <2>1. (m - i) + 1 \in 1..m /\ (m - i) + 1 \in 1..n
    BY <1>1, <1>3
  <2>2. (m - ((m - i) + 1)) + 1 = i /\ (n - ((m - i) + 1)) + 1 = n - m + i
    BY <1>1
  <2>3. r[(m - i) + 1] = s[(m - ((m - i) + 1)) + 1]
    BY <1>2, <2>1
  <2>4. q[(m - i) + 1] = t[(n - ((m - i) + 1)) + 1]
    BY <1>2, <2>1
  <2>5. r[(m - i) + 1] = q[(m - i) + 1]
    BY <1>4, <2>1
  <2>. QED
    BY <2>2, <2>3, <2>4, <2>5
<1>6. m # n
  <2> SUFFICES ASSUME m = n PROVE FALSE
    OBVIOUS
  <2>1. \A i \in 1..m : n - m + i = i
    BY <1>1
  <2>2. \A i \in 1..m : s[i] = t[i]
    BY <1>5, <2>1
  <2>. QED
    BY <1>3, <2>2, SeqEqual
<1>. QED
  BY <1>1, <1>3, <1>5, <1>6

\* A star before a name denotes what is under the name.
LEMMA DenotedUnder ==
    ASSUME NEW p \in Seq(Label), NEW h \in Seq(Label), Len(p) > 1, p[1] = Star,
           IsStrictSuffix(Tail(p), h)
    PROVE  Denoted(p, h)
<1> DEFINE m == Len(p)
           n == Len(h)
           k == n - m + 1
           owner == [j \in 1..n |-> IF j <= k THEN 1 ELSE j - k + 1]
<1>1. m \in Nat /\ n \in Nat /\ m > 1 /\ DOMAIN p = 1..m /\ DOMAIN h = 1..n
  BY ToSetLemma
<1>2. /\ Tail(p) \in Seq(Label) /\ Len(Tail(p)) = m - 1
      /\ \A i \in 1..(m - 1) : Tail(p)[i] = p[i + 1]
  <2>1. p # <<>>
    BY EmptySeq
  <2>2. /\ Tail(p) \in Seq(Label) /\ Len(Tail(p)) = m - 1
        /\ \A i \in 1..Len(Tail(p)) : Tail(p)[i] = p[i + 1]
    BY <2>1, HeadTailProperties
  <2>. QED
    BY <2>2
<1>3. /\ m - 1 < n
      /\ \A i \in 1..(m - 1) : Tail(p)[i] = h[n - (m - 1) + i]
  <2>1. /\ Len(Tail(p)) < n
        /\ \A i \in 1..Len(Tail(p)) : Tail(p)[i] = h[n - Len(Tail(p)) + i]
    BY <1>2, SuffixLemma
  <2>. QED
    BY <1>2, <2>1
<1> HIDE DEF m, n
<1>4. k \in Nat \ {0} /\ k <= n /\ m + k = n + 1
  <2>1. m - 1 < n
    BY <1>3
  <2>. QED
    BY <1>1, <2>1
<1>5. \A j \in 1..n : owner[j] = IF j <= k THEN 1 ELSE j - k + 1
  OBVIOUS
<1> HIDE DEF owner
<1>6. ASSUME NEW j \in 1..n, j > k PROVE p[j - k + 1] = h[j]
  <2>1. j - k \in 1..(m - 1) /\ n - (m - 1) + (j - k) = j
    BY <1>1, <1>4, <1>6
  <2>. QED
    BY <1>2, <1>3, <2>1
<1> HIDE DEF k
<1>7. owner \in [DOMAIN h -> DOMAIN p]
  <2>1. \A j \in 1..n : owner[j] \in 1..m
    BY <1>1, <1>4, <1>5
  <2>2. owner = [j \in 1..n |-> owner[j]]
    BY DEF owner
  <2>. QED
    BY <1>1, <2>1, <2>2
<1>8. ASSUME NEW i \in 1..m PROVE \E j \in 1..n : owner[j] = i
  <2>1. CASE i = 1
    <3>1. k \in 1..n /\ owner[k] = 1
      BY <1>1, <1>4, <1>5
    <3>. QED
      BY <2>1, <3>1
  <2>2. CASE i # 1
    <3>1. i + k - 1 \in 1..n /\ owner[i + k - 1] = i
      BY <1>1, <1>4, <1>5, <2>2
    <3>. QED
      BY <3>1
  <2>. QED
    BY <2>1, <2>2
<1>9. ASSUME NEW j \in 1..n, NEW l \in 1..n, j < l
      PROVE  owner[j] < owner[l] \/ (owner[j] = owner[l] /\ p[owner[j]] = Star)
  <2>1. CASE l <= k
    BY <1>1, <1>4, <1>5, <1>9, <2>1
  <2>2. CASE l > k
    BY <1>1, <1>4, <1>5, <1>9, <2>2
  <2>. QED
    BY <1>4, <2>1, <2>2
<1>10. ASSUME NEW j \in 1..n PROVE p[owner[j]] \in {h[j], Star}
  BY <1>1, <1>4, <1>5, <1>6
<1>11. /\ \A i \in DOMAIN p : \E j \in DOMAIN h : owner[j] = i
       /\ \A j, l \in DOMAIN h : j < l =>
            \/ owner[j] < owner[l]
            \/ owner[j] = owner[l] /\ p[owner[j]] = Star
       /\ \A j \in DOMAIN h : p[owner[j]] \in {h[j], Star}
  BY <1>1, <1>8, <1>9, <1>10
<1>. QED
  BY <1>7, <1>11 DEF Denoted

\* A text in lower case, as names and hosts are compared.
Folded(t) == t = Text(t.labels, t.tail) /\ t.labels \in Seq(Label) \ {<<>>}

\* What matches says of a name and a host is what the reference says.
LEMMA NameLemma ==
    ASSUME NEW t, Folded(t), NEW h, Folded(h)
    PROVE  NameMatches(t, h) <=> NameDenotes(t, h)
<1>1. t.labels \in Seq(Label) /\ h.labels \in Seq(Label)
  BY DEF Folded
<1>2. Rest(t).labels = Tail(t.labels) /\ Rest(t).tail = t.tail
  BY DEF Folded, Text, Rest
<1>3. LabelsMatch(t.labels, h.labels) <=> Denoted(t.labels, h.labels)
  BY <1>1, DenotedLemma
<1>4. Begins(t, Star) /\ Under(h, Rest(t)) => Denoted(t.labels, h.labels) /\ h.tail = t.tail
  BY <1>1, <1>2, DenotedUnder DEF Begins, Under
<1>5. h = t => Denoted(t.labels, h.labels) /\ h.tail = t.tail
  BY <1>1, DenotedSelf
<1>6. Under(h, Rest(t)) <=> h.tail = t.tail /\ IsStrictSuffix(Tail(t.labels), h.labels)
  BY <1>2 DEF Under
<1>. QED
  BY <1>3, <1>4, <1>5, <1>6 DEF NameMatches, NameDenotes, PathMatch

LEMMA LowerLemma ==
    ASSUME NEW t, IsText(t)
    PROVE  /\ Folded(LowerText(t)) /\ LowerText(t).tail = t.tail
           /\ HasPort(LowerText(t)) <=> HasPort(t)
<1> DEFINE low == [i \in DOMAIN t.labels |-> Lower[t.labels[i]]]
<1>1. t = [kind |-> "text", labels |-> t.labels, tail |-> t.tail] /\ t.labels \in Seq(Label) \ {<<>>}
  BY DEF IsText, Text
<1>2. LowerText(t) = [kind |-> "text", labels |-> low, tail |-> t.tail]
  BY <1>1 DEF LowerText
<1>3. /\ Len(t.labels) \in Nat /\ DOMAIN t.labels = 1..Len(t.labels)
      /\ \A i \in 1..Len(t.labels) : t.labels[i] \in Label
  BY <1>1, ToSetLemma
<1>4. low \in Seq(Label) /\ Len(low) = Len(t.labels)
  <2>1. \A i \in 1..Len(t.labels) : Lower[t.labels[i]] \in Label
    BY <1>3, MatchAssumption
  <2>. QED
    BY <1>3, <2>1
<1>5. low # <<>>
  BY <1>1, <1>4, EmptySeq
<1>6. low = <<Empty>> <=> t.labels = <<Empty>>
  <2>1. ASSUME low = <<Empty>> PROVE t.labels = <<Empty>>
    <3>1. Len(t.labels) = 1 /\ 1 \in DOMAIN t.labels /\ low[1] = Empty
      BY <1>3, <1>4, <2>1
    <3>2. Lower[t.labels[1]] = Empty /\ t.labels[1] \in Label
      BY <1>3, <3>1
    <3>3. t.labels[1] = Empty
      BY <3>2, MatchAssumption
    <3>. QED
      BY <1>1, <3>1, <3>3
  <2>2. ASSUME t.labels = <<Empty>> PROVE low = <<Empty>>
    <3>1. Len(low) = 1 /\ low[1] = Lower[Empty]
      BY <1>4, <2>2
    <3>. QED
      BY <1>4, <3>1, MatchAssumption
  <2>. QED
    BY <2>1, <2>2
<1> HIDE DEF low
<1>7. LowerText(t).labels = low /\ LowerText(t).tail = t.tail
  BY <1>2
<1>8. Folded(LowerText(t))
  BY <1>2, <1>4, <1>5, <1>7 DEF Folded, Text
<1>9. HasPort(LowerText(t)) <=> HasPort(t)
  BY <1>6, <1>7 DEF HasPort
<1>. QED
  BY <1>7, <1>8, <1>9

\* The rule that addRule makes of a string matches exactly the destinations that the
\* string denotes.
LEMMA RuleDenotes ==
    ASSUME NEW v, IsString(v), v # Blank,
           NEW d, IsDest(d), d.host # Blank, ~Misread(d.host)
    PROVE  RuleMatches(RuleOf(v), d) <=> Denotes(v, d)
<1> DEFINE h == LowerText(d.host)
<1>1. d.host.kind = "text" /\ IsText(d.host) /\ ~HasPort(d.host)
  BY DEF IsDest, Misread
<1>2. Folded(h) /\ ~HasPort(h)
  BY <1>1, LowerLemma
<1>3. CASE v.kind = "cidr"
  <2>1. RuleOf(v) = [type |-> "cidr", net |-> v.net]
    BY <1>3 DEF RuleOf
  <2>2. RuleMatches(RuleOf(v), d) <=> <<v.net, h>> \in InNet
    BY <2>1 DEF RuleMatches
  <2>3. Denotes(v, d) <=> <<v.net, h>> \in InNet
    BY <1>3 DEF Denotes
  <2>. QED
    BY <2>2, <2>3
<1>4. CASE v.kind = "text"
  <2>1. IsText(v) /\ v.kind # "cidr"
    BY <1>4 DEF IsString, Blank, Cidr
  <2>2. CASE HasPort(v)
    <3> DEFINE t == Text(v.labels, <<>>)
               c == v.tail[1]
    <3>1. IsPort(c) /\ v.labels # <<Empty>>
      BY <2>2 DEF HasPort
    <3>2. Folded(LowerText(t))
      <4>1. t.labels = v.labels /\ t.tail = <<>> /\ t = Text(t.labels, t.tail)
        BY DEF Text
      <4>2. v.labels \in Seq(Label) \ {<<>>} /\ <<>> \in Seq(Int) /\ Len(<<>>) <= 1
        BY <2>1, EmptySeq DEF IsText
      <4>3. t # Text(<<Empty>>, <<>>)
        <5>1. Text(<<Empty>>, <<>>).labels = <<Empty>>
          BY Zenon DEF Text
        <5>. QED
          BY <3>1, <4>1, <5>1, Zenon
      <4>4. IsText(t)
        BY <4>1, <4>2, <4>3, Zenon DEF IsText
      <4>. QED
        BY <4>4, LowerLemma
    <3>3. RuleOf(v) = [type |-> "domain", name |-> LowerText(t), port |-> c]
      BY <2>1, <2>2 DEF RuleOf, DomainRule
    <3>. HIDE DEF t, c
    <3>4. RuleMatches(RuleOf(v), d) <=> c = d.port /\ NameMatches(LowerText(t), h)
      <4>1. c # 0
        <5>1. ~IsPort(0)
          BY DEF IsPort
        <5>. QED
          BY <3>1, <5>1
      <4>. QED
        BY <3>3, <4>1 DEF RuleMatches
    <3>5. h # LowerText(v)
      BY <1>2, <2>1, <2>2, LowerLemma
    <3>6. Denotes(v, d) <=> c = d.port /\ NameDenotes(LowerText(t), h)
      BY <1>4, <2>1, <2>2, <3>5 DEF Denotes, t, c
    <3>7. NameMatches(LowerText(t), h) <=> NameDenotes(LowerText(t), h)
      BY <1>2, <3>2, NameLemma
    <3>. QED
      BY <3>4, <3>6, <3>7
  <2>3. CASE ~HasPort(v)
    <3>1. Folded(LowerText(v))
      BY <2>1, LowerLemma
    <3>2. RuleOf(v) = [type |-> "domain", name |-> LowerText(v), port |-> 0]
      BY <2>1, <2>3 DEF RuleOf, DomainRule
    <3>3. RuleMatches(RuleOf(v), d) <=> NameMatches(LowerText(v), h)
      BY <3>2 DEF RuleMatches
    <3>4. Denotes(v, d) <=> h = LowerText(v) \/ NameDenotes(LowerText(v), h)
      BY <1>4, <2>1, <2>3 DEF Denotes
    <3>5. NameMatches(LowerText(v), h) <=> NameDenotes(LowerText(v), h)
      BY <1>2, <3>1, NameLemma
    <3>6. h = LowerText(v) => NameDenotes(LowerText(v), h)
      <4>1. LowerText(v).labels \in Seq(Label)
        BY <3>1 DEF Folded
      <4>2. Denoted(LowerText(v).labels, LowerText(v).labels)
        BY <4>1, DenotedSelf
      <4>. QED
        BY <4>2 DEF NameDenotes
    <3>. QED
      BY <3>3, <3>4, <3>5, <3>6
  <2>. QED
    BY <2>2, <2>3
<1>. QED
  BY <1>3, <1>4 DEF IsString

\* A host that was added as it was logged is denoted by what was added.
LEMMA HostDenoted ==
    ASSUME NEW d, IsDest(d), d.host # Blank
    PROVE  IsString(d.host) /\ Denotes(d.host, d)
<1>1. d.host.kind = "text" /\ IsText(d.host)
  BY DEF IsDest
<1>. QED
  BY <1>1 DEF IsString, Denotes

-------------------------------------------------------------------------------
(* Rules                                                                      *)

\* addRule makes one rule of a string, and none of a blank one.
LEMMA RulesForLemma ==
    ASSUME NEW v \in Value
    PROVE  /\ RulesFor(v) = IF v = Blank THEN {} ELSE {RuleOf(v)}
           /\ RulesFor(v) \subseteq RuleSet
<1>1. IsString(v)
  BY ConfigAssumption
<1>2. v.kind = "blank" <=> v = Blank
  BY <1>1 DEF IsString, Blank, Cidr, IsText, Text
<1>3. RuleTable[v] = IF v = Blank THEN None ELSE RuleOf(v)
  BY <1>2 DEF RuleTable
<1>4. CASE v = Blank
  <2>1. Decision!AddRule(<<>>, v) = <<>>
    BY <1>3, <1>4 DEF Decision!AddRule
  <2>2. RulesFor(v) = {}
    BY <2>1 DEF RulesFor, Decision!RulesIn
  <2>. QED
    BY <1>4, <2>2
<1>5. CASE v # Blank
  <2>1. RuleOf(v) # None
    <3>1. None.type = "none"
      BY DEF None
    <3>2. RuleOf(v).type \in {"cidr", "domain"}
      BY DEF RuleOf, DomainRule
    <3>. QED
      BY <3>1, <3>2
  <2>2. Decision!AddRule(<<>>, v) = <<RuleOf(v)>>
    BY <1>3, <1>5, <2>1 DEF Decision!AddRule
  <2>3. RulesFor(v) = {RuleOf(v)}
    BY <2>2 DEF RulesFor, Decision!RulesIn
  <2>4. RuleOf(v) \in RuleSet
    BY <1>3, <1>5, <2>1 DEF RuleSet
  <2>. QED
    BY <1>5, <2>3, <2>4
<1>. QED
  BY <1>4, <1>5

\* Some rule of the strings in S matches a destination when one of them denotes it.
LEMMA MatchesLemma ==
    ASSUME NEW S \in SUBSET Value, NEW d \in Dest, d.host # Blank, ~Misread(d.host)
    PROVE  (\E r \in UNION {RulesFor(v) : v \in S} : Decision!Matches(r, d))
             <=> \E v \in S \ {Blank} : d \in Meaning[v]
<1>1. IsDest(d)
  BY ConfigAssumption
<1>2. ASSUME NEW v \in S \ {Blank} PROVE Decision!Matches(RuleOf(v), d) <=> d \in Meaning[v]
  <2>1. v \in Value /\ IsString(v)
    BY ConfigAssumption
  <2>2. RuleOf(v) \in RuleSet
    BY <2>1, RulesForLemma
  <2>3. Decision!Matches(RuleOf(v), d) <=> RuleMatches(RuleOf(v), d)
    BY <2>2 DEF Decision!Matches, Matching
  <2>4. d \in Meaning[v] <=> Denotes(v, d)
    BY <2>1 DEF Meaning
  <2>5. RuleMatches(RuleOf(v), d) <=> Denotes(v, d)
    BY <1>1, <2>1, RuleDenotes
  <2>. QED
    BY <2>3, <2>4, <2>5
<1>3. ASSUME NEW r PROVE r \in UNION {RulesFor(v) : v \in S} <=> \E v \in S \ {Blank} : r = RuleOf(v)
  BY RulesForLemma
<1>. QED
  BY <1>2, <1>3

\* The verdict of Check when its lists are made of the strings in S and in T.
Judged(S, T, d) ==
    Decision!Decide(UNION {RulesFor(v) : v \in S}, UNION {RulesFor(v) : v \in T}, d)

\* Check decides by what the strings behind its two lists denote.
LEMMA VerdictLemma ==
    ASSUME NEW S \in SUBSET Value, NEW T \in SUBSET Value, NEW d \in Dest, ~Misread(d.host)
    PROVE  /\ Judged(S, T, d) = "whitelist" <=>
                /\ d.host # Blank
                /\ \E v \in S \ {Blank} : d \in Meaning[v]
                /\ ~\E v \in T \ {Blank} : d \in Meaning[v]
           /\ Judged(S, T, d) \notin {"whitelist", "blocklist", "empty-host"} =>
                ~\E v \in S \ {Blank} : d \in Meaning[v]
<1>1. d \in {e \in Dest : e.host = Blank} <=> d.host = Blank
  OBVIOUS
<1>2. CASE d.host = Blank
  BY <1>1, <1>2 DEF Judged, Decision!Decide
<1>3. CASE d.host # Blank
  <2>1. (\E r \in UNION {RulesFor(v) : v \in S} : Decision!Matches(r, d))
          <=> \E v \in S \ {Blank} : d \in Meaning[v]
    BY <1>3, MatchesLemma
  <2>2. (\E r \in UNION {RulesFor(v) : v \in T} : Decision!Matches(r, d))
          <=> \E v \in T \ {Blank} : d \in Meaning[v]
    BY <1>3, MatchesLemma
  <2>. QED
    BY <1>1, <1>3, <2>1, <2>2 DEF Judged, Decision!Decide
<1>. QED
  BY <1>2, <1>3

-------------------------------------------------------------------------------
(* Mounts                                                                     *)

\* m is the last of the mounts that decides what is at p.
Final(mounts, p, m) ==
    \E i \in DOMAIN mounts :
        /\ mounts[i] = m /\ m.dest = p
        /\ \A j \in DOMAIN mounts : j > i => ~Hides(mounts[j], p)

\* What the last mount that counts has put at a place is seen there.
LEMMA FinalSeen ==
    ASSUME NEW mounts, NEW n \in Nat, DOMAIN mounts = 1..n, NEW p, NEW m, Final(mounts, p, m)
    PROVE  p \in DOMAIN View(mounts) /\ View(mounts)[p] = [source |-> m.source, mode |-> Mode(m)]
<1> DEFINE seen == {i \in DOMAIN mounts :
                      \A j \in DOMAIN mounts : j > i => ~Hides(mounts[j], mounts[i].dest)}
<1>1. PICK i \in DOMAIN mounts :
        /\ mounts[i] = m /\ m.dest = p
        /\ \A j \in DOMAIN mounts : j > i => ~Hides(mounts[j], p)
  BY DEF Final
<1>2. i \in seen /\ mounts[i].dest = p
  BY <1>1
<1>3. ASSUME NEW k \in seen, mounts[k].dest = p PROVE k = i
  <2>1. k \in 1..n /\ i \in 1..n
    BY <1>1
  <2>2. Hides(mounts[k], p) /\ Hides(mounts[i], p)
    BY <1>2, <1>3 DEF Hides
  <2>3. ~(k > i)
    BY <1>1, <2>2
  <2>4. ~(i > k)
    BY <1>1, <1>3, <2>2
  <2>. QED
    BY <2>1, <2>3, <2>4
<1>4. (CHOOSE k \in seen : mounts[k].dest = p) = i
  <2> HIDE DEF seen
  <2>. QED
    BY <1>2, <1>3
<1>5. p \in {mounts[k].dest : k \in seen}
  BY <1>2
<1>6. View(mounts) = [q \in {mounts[k].dest : k \in seen} |->
                        [source |-> mounts[CHOOSE k \in seen : mounts[k].dest = q].source,
                         mode |-> Mode(mounts[CHOOSE k \in seen : mounts[k].dest = q])]]
  BY DEF View
<1>7. DOMAIN View(mounts) = {mounts[k].dest : k \in seen}
  BY <1>6, Zenon
<1>8. View(mounts)[p] = [source |-> mounts[i].source, mode |-> Mode(mounts[i])]
  <2> HIDE DEF seen
  <2>. QED
    BY <1>4, <1>5, <1>6, Zenon
<1> HIDE DEF seen
<1>. QED
  BY <1>1, <1>5, <1>7, <1>8

\* Only what was mounted somewhere is seen there.
LEMMA SeenMounted ==
    ASSUME NEW mounts, NEW p \in DOMAIN View(mounts)
    PROVE  \E i \in DOMAIN mounts : mounts[i].dest = p
<1> DEFINE seen == {i \in DOMAIN mounts :
                      \A j \in DOMAIN mounts : j > i => ~Hides(mounts[j], mounts[i].dest)}
<1>1. DOMAIN View(mounts) = {mounts[k].dest : k \in seen}
  BY DEF View
<1>2. seen \subseteq DOMAIN mounts
  OBVIOUS
<1> HIDE DEF seen
<1>. QED
  BY <1>1, <1>2

LEMMA FinalLeft ==
    ASSUME NEW S, NEW s \in Seq(S), NEW t \in Seq(S), NEW p, NEW m, Final(s, p, m),
           \A j \in DOMAIN t : ~Hides(t[j], p)
    PROVE  Final(s \o t, p, m)
<1>1. /\ Len(s) \in Nat /\ Len(t) \in Nat /\ DOMAIN s = 1..Len(s) /\ DOMAIN t = 1..Len(t)
      /\ s \o t \in Seq(S) /\ Len(s \o t) = Len(s) + Len(t)
      /\ \A i \in 1..(Len(s) + Len(t)) : (s \o t)[i] = IF i <= Len(s) THEN s[i] ELSE t[i - Len(s)]
  BY LenProperties, ConcatProperties
<1>2. DOMAIN (s \o t) = 1..(Len(s) + Len(t))
  BY <1>1, LenProperties
<1>3. PICK i \in DOMAIN s : /\ s[i] = m /\ m.dest = p
                            /\ \A j \in DOMAIN s : j > i => ~Hides(s[j], p)
  BY DEF Final
<1>4. i \in DOMAIN (s \o t) /\ (s \o t)[i] = m
  BY <1>1, <1>2, <1>3
<1>5. ASSUME NEW j \in DOMAIN (s \o t), j > i PROVE ~Hides((s \o t)[j], p)
  <2>1. CASE j <= Len(s)
    <3>1. j \in DOMAIN s /\ (s \o t)[j] = s[j]
      BY <1>1, <1>2, <2>1
    <3>. QED
      BY <1>3, <1>5, <3>1
  <2>2. CASE ~(j <= Len(s))
    <3>1. j - Len(s) \in DOMAIN t /\ (s \o t)[j] = t[j - Len(s)]
      BY <1>1, <1>2, <2>2
    <3>. QED
      BY <3>1
  <2>. QED
    BY <2>1, <2>2
<1>. QED
  BY <1>3, <1>4, <1>5 DEF Final

LEMMA FinalRight ==
    ASSUME NEW S, NEW s \in Seq(S), NEW t \in Seq(S), NEW p, NEW m, Final(t, p, m)
    PROVE  Final(s \o t, p, m)
<1>1. /\ Len(s) \in Nat /\ Len(t) \in Nat /\ DOMAIN t = 1..Len(t)
      /\ s \o t \in Seq(S) /\ Len(s \o t) = Len(s) + Len(t)
      /\ \A i \in 1..(Len(s) + Len(t)) : (s \o t)[i] = IF i <= Len(s) THEN s[i] ELSE t[i - Len(s)]
  BY LenProperties, ConcatProperties
<1>2. DOMAIN (s \o t) = 1..(Len(s) + Len(t))
  BY <1>1, LenProperties
<1>3. PICK i \in DOMAIN t : /\ t[i] = m /\ m.dest = p
                            /\ \A j \in DOMAIN t : j > i => ~Hides(t[j], p)
  BY DEF Final
<1>4. i + Len(s) \in DOMAIN (s \o t) /\ (s \o t)[i + Len(s)] = m
  BY <1>1, <1>2, <1>3
<1>5. ASSUME NEW j \in DOMAIN (s \o t), j > i + Len(s) PROVE ~Hides((s \o t)[j], p)
  <2>1. j - Len(s) \in DOMAIN t /\ j - Len(s) > i /\ (s \o t)[j] = t[j - Len(s)]
    BY <1>1, <1>2, <1>5
  <2>. QED
    BY <1>3, <2>1
<1>. QED
  BY <1>3, <1>4, <1>5 DEF Final

LEMMA MountFields ==
    \A source, dest, mode : /\ Mount(source, dest, mode).source = source
                            /\ Mount(source, dest, mode).dest = dest
                            /\ Mount(source, dest, mode).mode = mode
BY DEF Mount

\* What the command sees: its directory, the project file read-only over it, each agent
\* directory and each share.
LEMMA MountsLemma ==
    ASSUME NEW cfg, IsConfig(cfg), NEW file, NEW order \in AgentOrders(cfg)
    PROVE  LET mounts == PrepareMounts(cfg, file, order)
           IN  /\ \E n \in Nat : DOMAIN mounts = 1..n
               /\ Final(mounts, Workspace, Mount("cwd", Workspace, cfg.cwd))
               /\ file => Final(mounts, ProjectFile, Mount("cwd/.xb.yaml", ProjectFile, "ro"))
               /\ \A a \in Mounted(cfg) :
                    Final(mounts, HomeOf[a], Mount(cfg.persist[a], HomeOf[a], "rw"))
               /\ \A a \in DOMAIN HomeOf \ Mounted(cfg), i \in DOMAIN mounts :
                    mounts[i].dest # HomeOf[a]
               /\ \A i \in DOMAIN cfg.shares :
                    LET share == cfg.shares[i] IN
                    (\A j \in DOMAIN cfg.shares :
                       j > i => ShareDest[cfg.shares[j].path] # ShareDest[share.path]) =>
                    Final(mounts, ShareDest[share.path],
                          Mount(Expand[share.path], ShareDest[share.path], share.mode))
<1> DEFINE A == <<Mount("cwd", Workspace, cfg.cwd)>>
           B == IF file THEN <<Mount("cwd/.xb.yaml", ProjectFile, "ro")>> ELSE <<>>
           C == AgentMounts(cfg, order)
           D == ShareMounts(cfg)
           E == SystemMounts
           k == Cardinality(Mounted(cfg))
           S == {A[1], Mount("cwd/.xb.yaml", ProjectFile, "ro")} \cup {C[i] : i \in DOMAIN order}
                \cup {D[i] : i \in DOMAIN cfg.shares} \cup {E[i] : i \in DOMAIN System}
<1>1. /\ k \in Nat /\ DOMAIN order = 1..k /\ ToSet(order) = Mounted(cfg)
      /\ \A i \in 1..k : order[i] \in Mounted(cfg)
  <2>1. Mounted(cfg) \subseteq DOMAIN HomeOf
    BY DEF Mounted
  <2>2. IsFiniteSet(Mounted(cfg))
    BY <2>1, FS_Subset, MountsAssumption
  <2>3. k \in Nat
    BY <2>2, FS_CardinalityType
  <2>4. order \in [1..k -> Mounted(cfg)] /\ ToSet(order) = Mounted(cfg)
    BY DEF AgentOrders
  <2>. QED
    BY <2>3, <2>4
<1>2. /\ cfg.shares \in Seq([path : DOMAIN ShareDest, mode : STRING])
      /\ Len(cfg.shares) \in Nat /\ DOMAIN cfg.shares = 1..Len(cfg.shares)
      /\ \A i \in DOMAIN cfg.shares : cfg.shares[i].path \in DOMAIN ShareDest
  <2> DEFINE R == [path : DOMAIN ShareDest, mode : STRING]
  <2>1. cfg.shares \in Seq(R)
    BY DEF IsConfig
  <2>2. \A r \in R : r.path \in DOMAIN ShareDest
    OBVIOUS
  <2> HIDE DEF R
  <2>3. /\ Len(cfg.shares) \in Nat /\ DOMAIN cfg.shares = 1..Len(cfg.shares)
        /\ \A i \in 1..Len(cfg.shares) : cfg.shares[i] \in R
    BY <2>1, ToSetLemma
  <2>. QED
    BY <2>1, <2>2, <2>3 DEF R
<1>3. DOMAIN System = 1..6 /\ \A i \in DOMAIN System : System[i] \in ToSet(System)
  BY DEF System, ToSet
<1>4. /\ DOMAIN C = 1..k
      /\ \A i \in 1..k : C[i] = Mount(cfg.persist[order[i]], HomeOf[order[i]], "rw")
  BY <1>1 DEF AgentMounts
<1>5. /\ DOMAIN D = DOMAIN cfg.shares
      /\ \A i \in DOMAIN cfg.shares :
           D[i] = Mount(Expand[cfg.shares[i].path], ShareDest[cfg.shares[i].path], cfg.shares[i].mode)
  BY DEF ShareMounts
<1>6. DOMAIN E = DOMAIN System /\ \A i \in DOMAIN System : E[i] = Mount(System[i], System[i], "ro")
  BY DEF SystemMounts
<1>7. A \in Seq(S) /\ B \in Seq(S) /\ C \in Seq(S) /\ D \in Seq(S) /\ E \in Seq(S)
  <2>1. A \in Seq(S)
    <3>1. A[1] \in S
      OBVIOUS
    <3> HIDE DEF S
    <3>. QED
      BY <3>1
  <2>2. B \in Seq(S)
    <3>1. Mount("cwd/.xb.yaml", ProjectFile, "ro") \in S
      OBVIOUS
    <3> HIDE DEF S
    <3>. QED
      BY <3>1
  <2>3. C \in Seq(S)
    <3>1. \A i \in 1..k : C[i] \in S
      BY <1>1
    <3>2. C = [i \in 1..k |-> C[i]]
      BY <1>4 DEF AgentMounts
    <3> HIDE DEF S, C, k
    <3>3. C \in [1..k -> S]
      BY <3>1, <3>2
    <3>. QED
      BY <1>1, <3>3, SeqDef
  <2>4. D \in Seq(S)
    <3>1. \A i \in 1..Len(cfg.shares) : D[i] \in S
      BY <1>2
    <3>2. D = [i \in 1..Len(cfg.shares) |-> D[i]]
      BY <1>2 DEF ShareMounts
    <3> HIDE DEF S, D
    <3>3. D \in [1..Len(cfg.shares) -> S]
      BY <3>1, <3>2
    <3>. QED
      BY <1>2, <3>3, SeqDef
  <2>5. E \in Seq(S)
    <3> DEFINE n == 6
    <3>1. n \in Nat /\ \A i \in 1..n : E[i] \in S
      BY <1>3
    <3>2. E = [i \in 1..n |-> E[i]]
      BY <1>3 DEF SystemMounts
    <3> HIDE DEF S, E, n
    <3>3. E \in [1..n -> S]
      BY <3>1, <3>2
    <3>. QED
      BY <3>1, <3>3, SeqDef
  <2>. QED
    BY <2>1, <2>2, <2>3, <2>4, <2>5
<1>8. PrepareMounts(cfg, file, order) = ((((A \o B) \o C) \o D) \o E)
  BY DEF PrepareMounts
<1>9. A \o B \in Seq(S) /\ (A \o B) \o C \in Seq(S) /\ ((A \o B) \o C) \o D \in Seq(S)
      /\ PrepareMounts(cfg, file, order) \in Seq(S)
  <2> HIDE DEF A, B, C, D, E, S
  <2>. QED
    BY <1>7, <1>8, ConcatProperties
<1>10. \E n \in Nat : DOMAIN PrepareMounts(cfg, file, order) = 1..n
  BY <1>9, LenProperties
\* The places of the later mounts.
<1>11. /\ Workspace # ProjectFile
       /\ \A i \in DOMAIN C : C[i].dest \notin {Workspace, ProjectFile}
       /\ \A i \in DOMAIN D : D[i].dest \notin {Workspace, ProjectFile}
       /\ \A i \in DOMAIN E : E[i].dest \notin {Workspace, ProjectFile}
       /\ \A i \in DOMAIN C, j \in DOMAIN D : C[i].dest # D[j].dest
       /\ \A i \in DOMAIN C, j \in DOMAIN E : C[i].dest # E[j].dest
       /\ \A i \in DOMAIN D, j \in DOMAIN E : D[i].dest # E[j].dest
  <2> DEFINE homes  == {HomeOf[a] : a \in DOMAIN HomeOf}
             shares == {ShareDest[p] : p \in DOMAIN ShareDest}
  <2>1. Workspace # ProjectFile /\ {Workspace, ProjectFile} \cap ToSet(System) = {}
    BY <1>3 DEF Workspace, ProjectFile, System, ToSet
  <2>2. /\ homes \cap shares = {}
        /\ (homes \cup shares) \cap ({Workspace, ProjectFile} \cup ToSet(System)) = {}
    BY MountsAssumption
  <2>3. \A i \in DOMAIN C : C[i].dest \in homes
    <3>1. ASSUME NEW i \in 1..k PROVE C[i].dest \in homes
      <4>1. order[i] \in DOMAIN HomeOf
        BY <1>1 DEF Mounted
      <4>2. C[i].dest = HomeOf[order[i]]
        BY <1>4 DEF Mount
      <4>. QED
        BY <4>1, <4>2
    <3>. QED
      BY <1>4, <3>1
  <2>4. \A i \in DOMAIN D : D[i].dest \in shares
    <3>1. ASSUME NEW i \in DOMAIN cfg.shares PROVE D[i].dest \in shares
      <4>1. D[i].dest = ShareDest[cfg.shares[i].path]
        BY <1>5, MountFields
      <4>2. cfg.shares[i].path \in DOMAIN ShareDest
        BY <1>2
      <4>. QED
        BY <4>1, <4>2
    <3>. QED
      BY <1>5, <3>1
  <2>5. \A i \in DOMAIN E : E[i].dest \in ToSet(System)
    BY <1>3, <1>6 DEF Mount
  <2> HIDE DEF homes, shares, C, D, E
  <2>. QED
    BY <2>1, <2>2, <2>3, <2>4, <2>5
<1> HIDE DEF k, S
<1>12. Final(PrepareMounts(cfg, file, order), Workspace, Mount("cwd", Workspace, cfg.cwd))
  <2>1. Final(A, Workspace, Mount("cwd", Workspace, cfg.cwd))
    BY DEF Final, Mount
  <2>2. \A j \in DOMAIN B : ~Hides(B[j], Workspace)
    BY <1>11 DEF Hides, Mount
  <2> HIDE DEF A, B, C, D, E
  <2>3. Final(A \o B, Workspace, Mount("cwd", Workspace, cfg.cwd))
    BY <1>7, <2>1, <2>2, FinalLeft
  <2>4. Final((A \o B) \o C, Workspace, Mount("cwd", Workspace, cfg.cwd))
    BY <1>7, <1>9, <1>11, <2>3, FinalLeft DEF Hides
  <2>5. Final(((A \o B) \o C) \o D, Workspace, Mount("cwd", Workspace, cfg.cwd))
    BY <1>7, <1>9, <1>11, <2>4, FinalLeft DEF Hides
  <2>. QED
    BY <1>7, <1>8, <1>9, <1>11, <2>5, FinalLeft DEF Hides
<1>13. ASSUME file
       PROVE  Final(PrepareMounts(cfg, file, order), ProjectFile,
                    Mount("cwd/.xb.yaml", ProjectFile, "ro"))
  <2>1. Final(B, ProjectFile, Mount("cwd/.xb.yaml", ProjectFile, "ro"))
    BY <1>13 DEF Final, Mount
  <2> HIDE DEF A, B, C, D, E
  <2>2. Final(A \o B, ProjectFile, Mount("cwd/.xb.yaml", ProjectFile, "ro"))
    BY <1>7, <2>1, FinalRight
  <2>3. Final((A \o B) \o C, ProjectFile, Mount("cwd/.xb.yaml", ProjectFile, "ro"))
    BY <1>7, <1>9, <1>11, <2>2, FinalLeft DEF Hides
  <2>4. Final(((A \o B) \o C) \o D, ProjectFile, Mount("cwd/.xb.yaml", ProjectFile, "ro"))
    BY <1>7, <1>9, <1>11, <2>3, FinalLeft DEF Hides
  <2>. QED
    BY <1>7, <1>8, <1>9, <1>11, <2>4, FinalLeft DEF Hides
<1>14. ASSUME NEW a \in Mounted(cfg)
       PROVE  Final(PrepareMounts(cfg, file, order), HomeOf[a],
                    Mount(cfg.persist[a], HomeOf[a], "rw"))
  <2>1. PICK i \in 1..k : order[i] = a /\ \A j \in 1..k : order[j] = a => j <= i
    <3> DEFINE T == {j \in 1..k : order[j] = a}
    <3>1. T # {}
      BY <1>1 DEF ToSet
    <3>2. PICK i \in T : \A j \in T : j <= i
      BY <1>1, <3>1, Latest
    <3>. QED
      BY <3>2
  <2>2. C[i] = Mount(cfg.persist[a], HomeOf[a], "rw") /\ C[i].dest = HomeOf[a]
    BY <1>4, <2>1 DEF Mount
  <2>3. ASSUME NEW j \in 1..k, j > i PROVE ~Hides(C[j], HomeOf[a])
    <3>1. order[j] # a
      BY <1>1, <2>1, <2>3
    <3>2. order[j] \in DOMAIN HomeOf /\ a \in DOMAIN HomeOf
      BY <1>1 DEF Mounted
    <3>3. C[j].dest = HomeOf[order[j]]
      BY <1>4 DEF Mount
    <3>4. C[j].dest # HomeOf[a]
      BY <3>1, <3>2, <3>3, MountsAssumption
    <3>. QED
      BY <1>4, <1>11, <3>4 DEF Hides
  <2>4. Final(C, HomeOf[a], Mount(cfg.persist[a], HomeOf[a], "rw"))
    BY <1>4, <2>1, <2>2, <2>3 DEF Final
  <2>5. \A j \in DOMAIN D : ~Hides(D[j], HomeOf[a])
    BY <1>4, <1>11, <2>1, <2>2 DEF Hides
  <2>6. \A j \in DOMAIN E : ~Hides(E[j], HomeOf[a])
    BY <1>4, <1>11, <2>1, <2>2 DEF Hides
  <2> HIDE DEF A, B, C, D, E
  <2>7. Final((A \o B) \o C, HomeOf[a], Mount(cfg.persist[a], HomeOf[a], "rw"))
    BY <1>7, <1>9, <2>4, FinalRight
  <2>8. Final(((A \o B) \o C) \o D, HomeOf[a], Mount(cfg.persist[a], HomeOf[a], "rw"))
    BY <1>7, <1>9, <2>5, <2>7, FinalLeft
  <2>. QED
    BY <1>7, <1>8, <1>9, <2>6, <2>8, FinalLeft
<1>15. ASSUME NEW i \in DOMAIN cfg.shares,
              \A j \in DOMAIN cfg.shares :
                j > i => ShareDest[cfg.shares[j].path] # ShareDest[cfg.shares[i].path]
       PROVE  Final(PrepareMounts(cfg, file, order), ShareDest[cfg.shares[i].path], D[i])
  <2>1. \A j \in DOMAIN D : D[j].dest = ShareDest[cfg.shares[j].path]
    BY <1>5, MountFields
  <2>2. \A j \in DOMAIN D : j > i => ~Hides(D[j], D[i].dest)
    BY <1>5, <1>11, <1>15, <2>1 DEF Hides
  <2>3. \A j \in DOMAIN E : ~Hides(E[j], D[i].dest)
    BY <1>5, <1>11 DEF Hides
  <2>4. D[i].dest = ShareDest[cfg.shares[i].path] /\ i \in DOMAIN D
    BY <1>5, <2>1
  <2> HIDE DEF A, B, C, D, E
  <2>5. Final(D, ShareDest[cfg.shares[i].path], D[i])
    BY <2>2, <2>4 DEF Final
  <2>6. Final(((A \o B) \o C) \o D, ShareDest[cfg.shares[i].path], D[i])
    BY <1>7, <1>9, <2>5, FinalRight
  <2>. QED
    BY <1>7, <1>8, <1>9, <2>3, <2>4, <2>6, FinalLeft
<1>16. ASSUME NEW a \in DOMAIN HomeOf \ Mounted(cfg),
              NEW i \in DOMAIN PrepareMounts(cfg, file, order)
       PROVE  PrepareMounts(cfg, file, order)[i].dest # HomeOf[a]
  <2>1. PrepareMounts(cfg, file, order)[i] \in S
    <3> DEFINE mounts == PrepareMounts(cfg, file, order)
    <3>1. mounts \in Seq(S) /\ i \in DOMAIN mounts
      BY <1>9
    <3> HIDE DEF mounts
    <3>2. mounts[i] \in S
      BY <3>1, ToSetLemma
    <3>. QED
      BY <3>2 DEF mounts
  <2> DEFINE fixed == {Workspace, ProjectFile} \cup ToSet(System)
             shares == {ShareDest[q] : q \in DOMAIN ShareDest}
  <2>2. HomeOf[a] \notin fixed /\ HomeOf[a] \notin shares
    BY MountsAssumption
  <2>3. ASSUME NEW j \in DOMAIN C PROVE C[j].dest # HomeOf[a]
    <3>1. order[j] \in Mounted(cfg) /\ order[j] \in DOMAIN HomeOf
      BY <1>1, <1>4, <2>3 DEF Mounted
    <3>2. C[j].dest = HomeOf[order[j]]
      BY <1>4, <2>3 DEF Mount
    <3>. QED
      BY <3>1, <3>2, MountsAssumption
  <2>4. \A j \in DOMAIN D : D[j].dest \in shares
    <3>1. ASSUME NEW j \in DOMAIN cfg.shares PROVE D[j].dest \in shares
      <4>1. D[j].dest = ShareDest[cfg.shares[j].path]
        BY <1>5, MountFields
      <4>2. cfg.shares[j].path \in DOMAIN ShareDest
        BY <1>2
      <4>. QED
        BY <4>1, <4>2
    <3>. QED
      BY <1>5, <3>1
  <2>5. \A j \in DOMAIN E : E[j].dest \in fixed
    BY <1>3, <1>6 DEF Mount
  <2>6. A[1].dest \in fixed /\ Mount("cwd/.xb.yaml", ProjectFile, "ro").dest \in fixed
    BY MountFields
  <2>7. DOMAIN C = DOMAIN order /\ DOMAIN D = DOMAIN cfg.shares /\ DOMAIN E = DOMAIN System
    BY <1>1, <1>4, <1>5, <1>6
  <2> HIDE DEF A, C, D, E, fixed, shares
  <2>8. \A x \in S : x.dest # HomeOf[a]
    BY <2>2, <2>3, <2>4, <2>5, <2>6, <2>7 DEF S
  <2>. QED
    BY <2>1, <2>8
<1>. QED
  BY <1>5, <1>10, <1>12, <1>13, <1>14, <1>15, <1>16

\* An environment has what xb sets, and of the host what it does not set.
LEMMA EnvironmentLemma ==
    ASSUME NEW kept, NEW set
    PROVE  /\ \A v \in set : v \in DOMAIN Environment(kept, set) /\ Environment(kept, set)[v] = "xb"
           /\ FromHost(Environment(kept, set)) = kept \ set
<1>1. /\ DOMAIN Environment(kept, set) = kept \cup set
      /\ \A v \in kept \cup set :
           Environment(kept, set)[v] = IF v \in set THEN "xb" ELSE "host"
  BY DEF Environment
<1>. QED
  BY <1>1 DEF FromHost

\* The view and the environment of a sandbox with a given configuration.
LEMMA AsConfiguredLemma ==
    ASSUME SandboxOK(sb)
    PROVE  SandboxAsConfigured
<1> DEFINE cfg == sb.cfg
<1>1. /\ IsConfig(cfg) /\ cfg.envAllow # <<>>
      /\ sb.env.linux = LinuxEnv(cfg) /\ sb.env.darwin = DarwinEnv(cfg)
  BY DEF SandboxOK
<1>2. PICK order \in AgentOrders(cfg) : sb.view = View(PrepareMounts(cfg, sb.file, order))
  BY DEF SandboxOK
<1> DEFINE mounts == PrepareMounts(cfg, sb.file, order)
<1>3. PICK n \in Nat : DOMAIN mounts = 1..n
  BY <1>1, MountsLemma
<1> HIDE DEF cfg
<1>4. ASSUME NEW p, NEW m, Final(mounts, p, m)
      PROVE  p \in DOMAIN sb.view /\ sb.view[p] = [source |-> m.source, mode |-> Mode(m)]
  BY <1>2, <1>3, <1>4, FinalSeen
<1> HIDE DEF mounts
<1>5. sb.view[Workspace] = [source |-> "cwd", mode |-> IF cfg.cwd = "ro" THEN "ro" ELSE "rw"]
  <2>1. Final(mounts, Workspace, Mount("cwd", Workspace, cfg.cwd))
    BY <1>1, MountsLemma DEF mounts
  <2>. QED
    BY <1>4, <2>1, MountFields DEF Mode
<1>6. ASSUME sb.file PROVE ProjectFile \in DOMAIN sb.view /\ sb.view[ProjectFile].mode = "ro"
  <2>1. Final(mounts, ProjectFile, Mount("cwd/.xb.yaml", ProjectFile, "ro"))
    BY <1>1, <1>6, MountsLemma DEF mounts
  <2>2. /\ ProjectFile \in DOMAIN sb.view
        /\ sb.view[ProjectFile] = [source |-> "cwd/.xb.yaml", mode |-> "ro"]
    BY <1>4, <2>1, MountFields DEF Mode
  <2>. QED
    BY <2>2
<1>7. ASSUME NEW a \in DOMAIN cfg.persist \cap DOMAIN HomeOf
      PROVE  IF cfg.persist[a] \in HostDir
             THEN sb.view[HomeOf[a]] = [source |-> cfg.persist[a], mode |-> "rw"]
             ELSE HomeOf[a] \notin DOMAIN sb.view
  <2>1. CASE cfg.persist[a] \in HostDir
    <3>1. a \in Mounted(cfg)
      BY <1>7, <2>1 DEF Mounted
    <3>2. Final(mounts, HomeOf[a], Mount(cfg.persist[a], HomeOf[a], "rw"))
      BY <1>1, <3>1, MountsLemma DEF mounts
    <3>. QED
      BY <1>4, <2>1, <3>2, MountFields DEF Mode
  <2>2. CASE cfg.persist[a] \notin HostDir
    <3>1. a \in DOMAIN HomeOf \ Mounted(cfg)
      BY <1>7, <2>2 DEF Mounted
    <3>2. \A i \in DOMAIN mounts : mounts[i].dest # HomeOf[a]
      BY <1>1, <3>1, MountsLemma DEF mounts
    <3>3. HomeOf[a] \notin DOMAIN View(mounts)
      BY <3>2, SeenMounted
    <3>. QED
      BY <1>2, <2>2, <3>3 DEF mounts
  <2>. QED
    BY <2>1, <2>2
<1>8. ASSUME NEW i \in DOMAIN cfg.shares,
             \A j \in DOMAIN cfg.shares :
               j > i => ShareDest[cfg.shares[j].path] # ShareDest[cfg.shares[i].path]
      PROVE  sb.view[ShareDest[cfg.shares[i].path]] =
               [source |-> Expand[cfg.shares[i].path],
                mode |-> IF cfg.shares[i].mode = "ro" THEN "ro" ELSE "rw"]
  <2>1. Final(mounts, ShareDest[cfg.shares[i].path],
              Mount(Expand[cfg.shares[i].path], ShareDest[cfg.shares[i].path], cfg.shares[i].mode))
    BY <1>1, <1>8, MountsLemma DEF mounts
  <2>. QED
    BY <1>4, <2>1, MountFields DEF Mode
<1> DEFINE kept == IF cfg.filter THEN HostEnv \cap ToSet(cfg.envAllow) ELSE HostEnv
           more == Telemetry \cup CAVars(cfg)
<1>9. sb.env.linux = Environment(kept, ProxyVars)
      /\ sb.env.darwin = Environment(kept, ProxyVars \cup more)
  <2>1. ProxyVars \cup Telemetry \cup CAVars(cfg) = ProxyVars \cup more
    OBVIOUS
  <2>. QED
    BY <1>1, <2>1 DEF LinuxEnv, DarwinEnv
<1>10. cfg.filter => kept \subseteq ToSet(cfg.envAllow)
  OBVIOUS
<1> HIDE DEF kept, more
<1>11. /\ \A v \in ProxyVars : v \in DOMAIN sb.env.linux /\ sb.env.linux[v] = "xb"
       /\ FromHost(sb.env.linux) = kept \ ProxyVars
  BY <1>9, EnvironmentLemma
<1>12. /\ \A v \in ProxyVars : v \in DOMAIN sb.env.darwin /\ sb.env.darwin[v] = "xb"
       /\ FromHost(sb.env.darwin) = kept \ (ProxyVars \cup more)
  BY <1>9, EnvironmentLemma
<1>13. /\ \A env \in {sb.env.linux, sb.env.darwin} :
            /\ \A v \in ProxyVars : v \in DOMAIN env /\ env[v] = "xb"
            /\ cfg.filter => FromHost(env) \subseteq ToSet(cfg.envAllow)
       /\ FromHost(sb.env.darwin) = FromHost(sb.env.linux) \ more
  BY <1>10, <1>11, <1>12
<1>. QED
  BY <1>5, <1>6, <1>7, <1>8, <1>13 DEF SandboxAsConfigured, cfg, more

-------------------------------------------------------------------------------
(* Configurations                                                             *)

LEMMA ZeroFields ==
    DOMAIN Zero = {"allow", "deny", "envAllow", "filter", "logFile", "cwd",
                   "caBundle", "caVars", "shares", "persist"}
BY DEF Zero

LEMMA MergeLists ==
    ASSUME NEW b, DOMAIN b = DOMAIN Zero, NEW o
    PROVE  /\ Merge(b, o).allow = AppendUnique(b.allow, o.allow)
           /\ Merge(b, o).deny = AppendUnique(b.deny, o.deny)
           /\ Merge(b, o).envAllow = AppendUnique(b.envAllow, o.envAllow)
           /\ Merge(b, o).caVars = AppendUnique(b.caVars, o.caVars)
           /\ Merge(b, o).shares = b.shares \o o.shares
           /\ Merge(b, o).persist = Override(b.persist, o.persist)
<1>1. DOMAIN b = {"allow", "deny", "envAllow", "filter", "logFile", "cwd",
                   "caBundle", "caVars", "shares", "persist"}
  BY ZeroFields
<1>. QED
  BY <1>1 DEF Merge

LEMMA MergeScalars ==
    ASSUME NEW b, DOMAIN b = DOMAIN Zero, NEW o
    PROVE  /\ DOMAIN Merge(b, o) = DOMAIN Zero
           /\ Merge(b, o) = [x \in DOMAIN Zero |-> Merge(b, o)[x]]
           /\ Merge(b, o).filter = (b.filter /\ o.filter)
           /\ Merge(b, o).logFile = Scalar(b.logFile, o.logFile)
           /\ Merge(b, o).cwd = Scalar(b.cwd, o.cwd)
           /\ Merge(b, o).caBundle = Scalar(b.caBundle, o.caBundle)
<1>1. DOMAIN b = {"allow", "deny", "envAllow", "filter", "logFile", "cwd",
                   "caBundle", "caVars", "shares", "persist"}
  BY ZeroFields
<1>. QED
  BY <1>1, ZeroFields DEF Merge

\* A configuration that the defaults are part of.
Settled(c) ==
    /\ IsConfig(c) /\ c = [x \in DOMAIN Zero |-> c[x]]
    /\ c.filter \in BOOLEAN /\ c.logFile # "" /\ c.envAllow # <<>>

LEMMA MergeSettled ==
    ASSUME NEW b, Settled(b), NEW o, IsConfig(o), o.filter \in BOOLEAN
    PROVE  /\ Settled(Merge(b, o))
           /\ ToSet(Merge(b, o).allow) = ToSet(b.allow) \cup ToSet(o.allow)
<1> DEFINE c == Merge(b, o)
<1>0. DOMAIN b = DOMAIN Zero
  BY DEF Settled, IsConfig
<1>1. /\ DOMAIN c = DOMAIN Zero /\ c = [x \in DOMAIN Zero |-> c[x]]
      /\ c.filter = (b.filter /\ o.filter)
      /\ c.logFile = Scalar(b.logFile, o.logFile)
  BY <1>0, MergeScalars
<1>2. /\ c.allow = AppendUnique(b.allow, o.allow) /\ c.deny = AppendUnique(b.deny, o.deny)
      /\ c.envAllow = AppendUnique(b.envAllow, o.envAllow)
      /\ c.caVars = AppendUnique(b.caVars, o.caVars)
      /\ c.shares = b.shares \o o.shares
  BY <1>0, MergeLists
<1> HIDE DEF c
<1>3. c.allow \in Seq(Value) /\ ToSet(c.allow) = ToSet(b.allow) \cup ToSet(o.allow)
  <2>1. b.allow \in Seq(Value) /\ o.allow \in Seq(Value)
    BY DEF Settled, IsConfig
  <2>. QED
    BY <1>2, <2>1, AppendUniqueLemma
<1>4. c.deny \in Seq(Value)
  <2>1. b.deny \in Seq(Value) /\ o.deny \in Seq(Value)
    BY DEF Settled, IsConfig
  <2>. QED
    BY <1>2, <2>1, AppendUniqueLemma
<1>5. c.envAllow \in Seq(STRING) /\ c.envAllow # <<>>
  <2> DEFINE S == STRING
             list == b.envAllow
             more == o.envAllow
  <2>1. list \in Seq(S) /\ list # <<>> /\ more \in Seq(S) /\ c.envAllow = AppendUnique(list, more)
    BY <1>2 DEF Settled, IsConfig
  <2> HIDE DEF S, list, more
  <2>2. AppendUnique(list, more) \in Seq(S) /\ ToSet(AppendUnique(list, more)) = ToSet(list) \cup ToSet(more)
    BY <2>1, AppendUniqueLemma
  <2>3. ToSet(list) # {}
    BY <2>1, ToSetLemma
  <2>4. AppendUnique(list, more) # <<>>
    BY <2>2, <2>3, ToSetLemma
  <2>. QED
    BY <2>1, <2>2, <2>4 DEF S
<1>6. c.shares \in Seq([path : DOMAIN ShareDest, mode : STRING])
  <2> DEFINE R == [path : DOMAIN ShareDest, mode : STRING]
             list == b.shares
             more == o.shares
  <2>1. list \in Seq(R) /\ more \in Seq(R) /\ c.shares = list \o more
    BY <1>2 DEF Settled, IsConfig
  <2> HIDE DEF R, list, more
  <2>2. list \o more \in Seq(R)
    BY <2>1, ConcatProperties
  <2>. QED
    BY <2>1, <2>2 DEF R
<1>7. c.filter \in BOOLEAN /\ c.logFile # "" /\ c.logFile \in LogNames \cup {""}
  <2>1. /\ b.filter \in BOOLEAN /\ b.logFile # "" /\ b.logFile \in LogNames \cup {""}
        /\ o.logFile \in LogNames \cup {""}
    BY DEF Settled, IsConfig
  <2>. QED
    BY <1>1, <2>1 DEF Scalar
<1>ca. c.caVars \in Seq(STRING)
  <2> DEFINE S == STRING
             list == b.caVars
             more == o.caVars
  <2>1. list \in Seq(S) /\ more \in Seq(S) /\ c.caVars = AppendUnique(list, more)
    BY <1>2 DEF Settled, IsConfig
  <2> HIDE DEF S, list, more
  <2>2. AppendUnique(list, more) \in Seq(S)
    BY <2>1, AppendUniqueLemma
  <2>. QED
    BY <2>1, <2>2 DEF S
<1>8. IsConfig(c)
  BY <1>1, <1>3, <1>4, <1>5, <1>ca, <1>6, <1>7 DEF IsConfig
<1>. QED
  BY <1>1, <1>3, <1>5, <1>7, <1>8 DEF Settled, c

\* The entries of the allow list of a file.
FileAllow(f) == IF f.kind = "yaml" THEN ToSet(f.doc.allow) ELSE {}

LEMMA UnmarshalLemma ==
    ASSUME NEW doc, IsConfig(doc)
    PROVE  /\ IsConfig(Unmarshal(doc)) /\ Unmarshal(doc).filter \in BOOLEAN
           /\ Unmarshal(doc).filter = (doc.filter = <<TRUE>>)
           /\ \A x \in DOMAIN Zero \ {"filter"} : Unmarshal(doc)[x] = doc[x]
           /\ Unmarshal(doc) = [x \in DOMAIN Zero |-> Unmarshal(doc)[x]]
<1>1. DOMAIN doc = DOMAIN Zero
  BY DEF IsConfig
<1>2. /\ DOMAIN Unmarshal(doc) = DOMAIN Zero
      /\ Unmarshal(doc).filter \in BOOLEAN
      /\ Unmarshal(doc).filter = (doc.filter = <<TRUE>>)
      /\ \A x \in DOMAIN Zero \ {"filter"} : Unmarshal(doc)[x] = doc[x]
      /\ Unmarshal(doc) = [x \in DOMAIN Zero |-> Unmarshal(doc)[x]]
  BY <1>1, ZeroFields DEF Unmarshal
<1>3. IsConfig(Unmarshal(doc))
  BY <1>2, ZeroFields DEF IsConfig
<1>. QED
  BY <1>2, <1>3

LEMMA MarshalLemma ==
    ASSUME NEW cfg, IsConfig(cfg), cfg.filter \in BOOLEAN, cfg = [x \in DOMAIN Zero |-> cfg[x]]
    PROVE  IsConfig(Marshal(cfg)) /\ Unmarshal(Marshal(cfg)) = cfg
           /\ Marshal(cfg).allow = cfg.allow
<1>1. DOMAIN cfg = DOMAIN Zero
  BY DEF IsConfig
<1>2. /\ DOMAIN Marshal(cfg) = DOMAIN Zero /\ Marshal(cfg).filter = <<cfg.filter>>
      /\ \A x \in DOMAIN Zero \ {"filter"} : Marshal(cfg)[x] = cfg[x]
  BY <1>1, ZeroFields DEF Marshal
<1>3. IsConfig(Marshal(cfg))
  BY <1>2, ZeroFields DEF IsConfig
<1>4. /\ Unmarshal(Marshal(cfg)).filter = (<<cfg.filter>> = <<TRUE>>)
      /\ \A x \in DOMAIN Zero \ {"filter"} : Unmarshal(Marshal(cfg))[x] = cfg[x]
      /\ Unmarshal(Marshal(cfg)) = [x \in DOMAIN Zero |-> Unmarshal(Marshal(cfg))[x]]
  BY <1>2, <1>3, UnmarshalLemma
<1>5. (<<cfg.filter>> = <<TRUE>>) = cfg.filter
  OBVIOUS
<1>6. \A x \in DOMAIN Zero : Unmarshal(Marshal(cfg))[x] = cfg[x]
  BY <1>4, <1>5
<1>7. Unmarshal(Marshal(cfg)) = cfg
  BY <1>4, <1>6
<1>. QED
  BY <1>2, <1>3, <1>7, ZeroFields

LEMMA LoadAndMergeSettled ==
    ASSUME NEW b, Settled(b), NEW f, IsFile(f)
    PROVE  /\ Settled(LoadAndMerge(b, f))
           /\ ToSet(LoadAndMerge(b, f).allow) = ToSet(b.allow) \cup FileAllow(f)
<1>1. CASE f.kind = "yaml"
  <2>1. IsConfig(f.doc)
    BY <1>1 DEF IsFile, Absent, Malformed
  <2>2. IsConfig(Unmarshal(f.doc)) /\ Unmarshal(f.doc).filter \in BOOLEAN
        /\ Unmarshal(f.doc).allow = f.doc.allow
    BY <2>1, UnmarshalLemma, ZeroFields
  <2>. QED
    BY <1>1, <2>2, MergeSettled DEF LoadAndMerge, FileAllow
<1>2. CASE f.kind # "yaml"
  BY <1>2 DEF LoadAndMerge, FileAllow
<1>. QED
  BY <1>1, <1>2

\* What xb loads is a configuration that has all the entries of both files.
LEMMA LoadLemma ==
    ASSUME NEW u, IsFile(u), NEW p, IsFile(p)
    PROVE  /\ Settled(Load(Default, u, p))
           /\ ToSet(Load(Default, u, p).allow) = ToSet(Default.allow) \cup FileAllow(u) \cup FileAllow(p)
<1>1. Settled(Default)
  BY ConfigAssumption DEF Settled
<1>2. /\ Settled(LoadAndMerge(Default, u))
      /\ ToSet(LoadAndMerge(Default, u).allow) = ToSet(Default.allow) \cup FileAllow(u)
  BY <1>1, LoadAndMergeSettled
<1>. QED
  BY <1>2, LoadAndMergeSettled DEF Load

\* The defaults merged with themselves are the defaults.
LEMMA DefaultTwice ==
    Merge(Default, Default) = Default
<1> DEFINE c == Merge(Default, Default)
<1>0. DOMAIN Default = DOMAIN Zero
  BY ConfigAssumption DEF IsConfig
<1>1. /\ c = [x \in DOMAIN Zero |-> c[x]]
      /\ c.filter = (Default.filter /\ Default.filter)
      /\ c.logFile = Scalar(Default.logFile, Default.logFile)
      /\ c.cwd = Scalar(Default.cwd, Default.cwd)
      /\ c.caBundle = Scalar(Default.caBundle, Default.caBundle)
  BY <1>0, MergeScalars
<1>2. /\ c.allow = AppendUnique(Default.allow, Default.allow)
      /\ c.deny = AppendUnique(Default.deny, Default.deny)
      /\ c.envAllow = AppendUnique(Default.envAllow, Default.envAllow)
      /\ c.caVars = AppendUnique(Default.caVars, Default.caVars)
      /\ c.shares = Default.shares \o Default.shares
      /\ c.persist = Override(Default.persist, Default.persist)
  BY <1>0, MergeLists
<1> HIDE DEF c
<1>3. c.allow = Default.allow /\ c.deny = Default.deny
  <2>1. Default.allow \in Seq(Value) /\ Default.deny \in Seq(Value)
    BY ConfigAssumption DEF IsConfig
  <2>. QED
    BY <1>2, <2>1, AppendUniqueSame
<1>4. c.envAllow = Default.envAllow
  <2> DEFINE S == STRING
             list == Default.envAllow
  <2>1. list \in Seq(S)
    BY ConfigAssumption DEF IsConfig
  <2> HIDE DEF S, list
  <2>2. AppendUnique(list, list) = list
    BY <2>1, AppendUniqueSame
  <2>. QED
    BY <1>2, <2>2 DEF list
<1>ca. c.caVars = Default.caVars
  <2> DEFINE S == STRING
             list == Default.caVars
  <2>1. list \in Seq(S)
    BY ConfigAssumption DEF IsConfig
  <2> HIDE DEF S, list
  <2>2. AppendUnique(list, list) = list
    BY <2>1, AppendUniqueSame
  <2>. QED
    BY <1>2, <2>2 DEF list
<1>5. c.shares = Default.shares
  <2>1. Default.shares = <<>>
    BY ConfigAssumption
  <2>2. <<>> \o <<>> = <<>>
    BY EmptySeq, ConcatEmptySeq
  <2>. QED
    BY <1>2, <2>1, <2>2
<1>6. c.persist = Default.persist
  <2> DEFINE p == Default.persist
  <2>1. p = [a \in DOMAIN p |-> p[a]]
    BY ConfigAssumption
  <2> HIDE DEF p
  <2>2. Override(p, p) = [a \in DOMAIN p |-> p[a]]
    BY DEF Override
  <2>. QED
    BY <1>2, <2>1, <2>2 DEF p
<1>7. /\ c.filter = Default.filter /\ c.logFile = Default.logFile
      /\ c.cwd = Default.cwd /\ c.caBundle = Default.caBundle
  <2>1. c.filter = Default.filter
    <3>1. Default.filter \in BOOLEAN
      BY ConfigAssumption
    <3>. QED
      BY <1>1, <3>1, Zenon
  <2>2. c.logFile = Default.logFile /\ c.cwd = Default.cwd /\ c.caBundle = Default.caBundle
    BY <1>1 DEF Scalar
  <2>. QED
    BY <2>1, <2>2
<1>8. Default = [x \in DOMAIN Zero |-> Default[x]]
  BY ConfigAssumption
<1>9. \A x \in DOMAIN Zero : c[x] = Default[x]
  BY <1>3, <1>4, <1>ca, <1>5, <1>6, <1>7, ZeroFields
<1>. QED
  BY <1>1, <1>8, <1>9 DEF c

\* b and c differ in the allow list, and in env.filter, which c may have off.
SameRest(b, c) ==
    /\ \A x \in DOMAIN Zero \ {"allow", "filter"} : c[x] = b[x]
    /\ c.filter => b.filter

LEMMA SameLater ==
    ASSUME NEW b, Settled(b), NEW c, Settled(c), SameRest(b, c), NEW f, IsFile(f)
    PROVE  SameRest(LoadAndMerge(b, f), LoadAndMerge(c, f))
<1>1. CASE f.kind # "yaml"
  BY <1>1 DEF LoadAndMerge
<1>2. CASE f.kind = "yaml"
  <2> DEFINE o == Unmarshal(f.doc)
             y == Merge(b, o)
             z == Merge(c, o)
  <2>1. LoadAndMerge(b, f) = y /\ LoadAndMerge(c, f) = z
    BY <1>2 DEF LoadAndMerge
  <2>2. DOMAIN b = DOMAIN Zero /\ DOMAIN c = DOMAIN Zero
        /\ b.filter \in BOOLEAN /\ c.filter \in BOOLEAN
    BY DEF Settled, IsConfig
  <2>3. /\ c.deny = b.deny /\ c.envAllow = b.envAllow /\ c.logFile = b.logFile
        /\ c.cwd = b.cwd /\ c.shares = b.shares /\ c.persist = b.persist
        /\ c.caBundle = b.caBundle /\ c.caVars = b.caVars
    BY ZeroFields DEF SameRest
  <2>4. /\ y.deny = z.deny /\ y.envAllow = z.envAllow /\ y.caVars = z.caVars
        /\ y.shares = z.shares /\ y.persist = z.persist
    <3> HIDE DEF o
    <3>1. /\ y.deny = AppendUnique(b.deny, o.deny)
          /\ y.envAllow = AppendUnique(b.envAllow, o.envAllow)
          /\ y.caVars = AppendUnique(b.caVars, o.caVars)
          /\ y.shares = b.shares \o o.shares /\ y.persist = Override(b.persist, o.persist)
      BY <2>2, MergeLists
    <3>2. /\ z.deny = AppendUnique(c.deny, o.deny)
          /\ z.envAllow = AppendUnique(c.envAllow, o.envAllow)
          /\ z.caVars = AppendUnique(c.caVars, o.caVars)
          /\ z.shares = c.shares \o o.shares /\ z.persist = Override(c.persist, o.persist)
      BY <2>2, MergeLists
    <3> HIDE DEF y, z
    <3>. QED
      BY <2>3, <3>1, <3>2
  <2>5. y.logFile = z.logFile /\ y.cwd = z.cwd /\ y.caBundle = z.caBundle
        /\ y.filter = (b.filter /\ o.filter) /\ z.filter = (c.filter /\ o.filter)
    <3> HIDE DEF o
    <3>1. /\ y.logFile = Scalar(b.logFile, o.logFile) /\ y.cwd = Scalar(b.cwd, o.cwd)
          /\ y.caBundle = Scalar(b.caBundle, o.caBundle)
          /\ y.filter = (b.filter /\ o.filter)
      BY <2>2, MergeScalars
    <3>2. /\ z.logFile = Scalar(c.logFile, o.logFile) /\ z.cwd = Scalar(c.cwd, o.cwd)
          /\ z.caBundle = Scalar(c.caBundle, o.caBundle)
          /\ z.filter = (c.filter /\ o.filter)
      BY <2>2, MergeScalars
    <3> HIDE DEF y, z
    <3>. QED
      BY <2>3, <3>1, <3>2, Zenon
  <2>6. z.filter => y.filter
    BY <2>2, <2>5 DEF SameRest
  <2> HIDE DEF y, z
  <2>7. SameRest(y, z)
    BY <2>4, <2>5, <2>6, ZeroFields DEF SameRest
  <2>. QED
    BY <2>1, <2>7
<1>. QED
  BY <1>1, <1>2

-------------------------------------------------------------------------------
(* The audit log                                                              *)

\* The last of some entries of a log.
LEMMA LastOf ==
    ASSUME NEW log \in Seq(Entry), NEW T \in SUBSET DOMAIN log, T # {}
    PROVE  Max(T) \in T /\ \A i \in T : i <= Max(T)
<1>1. Len(log) \in Nat /\ T \in SUBSET (1..Len(log))
  BY ToSetLemma
<1>2. PICK x \in T : \A y \in T : y <= x
  BY <1>1, Latest
<1>3. \A y \in T : y \in Int
  BY <1>1
<1>4. \A y \in T : x >= y
  BY <1>2, <1>3
<1> DEFINE m == CHOOSE z \in T : \A y \in T : z >= y
<1>5. m \in T /\ \A y \in T : m >= y
  BY <1>2, <1>4, Zenon
<1>6. Max(T) = m
  BY DEF Max
<1> HIDE DEF m
<1>. QED
  BY <1>3, <1>5, <1>6

\* Of this sandbox, a denial that names a destination.
IsOwn(e) == e.action = "deny" /\ e.sandbox = "this" /\ e.dest # NoDest

\* What a new entry does to the last own denial of a log.
LEMMA NewEntry ==
    ASSUME NEW log \in Seq(Entry), NEW e \in Entry
    PROVE  /\ Append(log, e) \in Seq(Entry)
           /\ IsOwn(e) => /\ Own(Append(log, e)) # {}
                          /\ Append(log, e)[Max(Own(Append(log, e)))] = e
           /\ ~IsOwn(e) /\ Own(log) # {} =>
                /\ Own(Append(log, e)) # {}
                /\ Append(log, e)[Max(Own(Append(log, e)))] = log[Max(Own(log))]
<1> DEFINE n == Len(log)
           new == Append(log, e)
<1>1. n \in Nat /\ DOMAIN log = 1..n
  BY ToSetLemma
<1>2. /\ new \in Seq(Entry) /\ DOMAIN new = 1..(n + 1)
      /\ \A i \in 1..n : new[i] = log[i]
      /\ new[n + 1] = e
  <2>1. new \in Seq(Entry) /\ Len(new) = n + 1
        /\ (\A i \in 1..n : new[i] = log[i]) /\ new[n + 1] = e
    BY AppendProperties
  <2>2. DOMAIN new = 1..Len(new)
    BY <2>1, LenProperties
  <2>. QED
    BY <2>1, <2>2
<1> HIDE DEF n, new
<1>3. Own(new) = Own(log) \cup (IF IsOwn(e) THEN {n + 1} ELSE {})
  <2>1. Own(new) = {i \in 1..(n + 1) : IsOwn(new[i])}
    BY <1>2 DEF Own, Denied, IsOwn
  <2>2. Own(log) = {i \in 1..n : IsOwn(log[i])}
    BY <1>1 DEF Own, Denied, IsOwn
  <2>3. 1..(n + 1) = 1..n \cup {n + 1}
    BY <1>1
  <2> HIDE DEF IsOwn
  <2>. QED
    BY <1>2, <2>1, <2>2, <2>3
<1>4. Own(log) \in SUBSET (1..n) /\ Own(log) \in SUBSET DOMAIN log
      /\ Own(new) \in SUBSET DOMAIN new
  BY <1>1 DEF Own, Denied
<1> HIDE DEF IsOwn
<1>5. ASSUME IsOwn(e) PROVE Own(new) # {} /\ new[Max(Own(new))] = e
  <2>1. n + 1 \in Own(new)
    BY <1>3, <1>5
  <2>2. Max(Own(new)) \in Own(new) /\ n + 1 <= Max(Own(new))
    BY <1>2, <1>4, <2>1, LastOf
  <2>3. Max(Own(new)) = n + 1
    BY <1>1, <1>3, <1>4, <2>2
  <2>. QED
    BY <1>2, <2>1, <2>3
<1>6. ASSUME ~IsOwn(e), Own(log) # {}
      PROVE  Own(new) # {} /\ new[Max(Own(new))] = log[Max(Own(log))]
  <2>1. Own(new) = Own(log)
    BY <1>3, <1>6
  <2>2. Max(Own(log)) \in 1..n
    BY <1>4, <1>6, LastOf
  <2>. QED
    BY <1>2, <1>6, <2>1, <2>2
<1>. QED
  BY <1>2, <1>5, <1>6 DEF new

-------------------------------------------------------------------------------
(* Files and sandboxes                                                        *)

\* What xb --init and xb --allow write is a file.
LEMMA SavedFile ==
    ASSUME NEW c, IsConfig(c), c.filter \in BOOLEAN, c = [x \in DOMAIN Zero |-> c[x]]
    PROVE  /\ IsFile(SaveDefault(c)) /\ SaveDefault(c).kind = "yaml"
           /\ Unmarshal(SaveDefault(c).doc) = c /\ SaveDefault(c).doc.allow = c.allow
<1>1. SaveDefault(c).kind = "yaml" /\ SaveDefault(c).doc = Marshal(c)
      /\ SaveDefault(c) = Yaml(SaveDefault(c).doc)
  BY DEF SaveDefault, Yaml
<1>2. IsConfig(Marshal(c)) /\ Unmarshal(Marshal(c)) = c /\ Marshal(c).allow = c.allow
  BY MarshalLemma
<1>. QED
  BY <1>1, <1>2 DEF IsFile

\* What xb --allow reads of a file is what can be decoded of it.
LEMMA DecodedLemma ==
    ASSUME NEW f, IsFile(f)
    PROVE  /\ IsFile(Decoded(f)) /\ LoadUserOnly(Decoded(f)) = LoadUserOnly(f)
           /\ Decoded(f).kind = "yaml" <=> f.kind \in {"yaml", "mistyped"}
           /\ Decoded(f).kind = "yaml" => Decoded(f).doc = f.doc
<1>1. CASE f.kind = "mistyped"
  <2>1. IsConfig(f.doc)
    BY <1>1 DEF IsFile, Absent, Malformed
  <2>2. Decoded(f) = Yaml(f.doc)
    BY <1>1 DEF Decoded
  <2>. QED
    BY <1>1, <2>1, <2>2 DEF IsFile, Yaml, LoadUserOnly
<1>2. CASE f.kind = "malformed"
  <2>1. Decoded(f) = Absent
    BY <1>2 DEF Decoded
  <2>. QED
    BY <1>2, <2>1 DEF IsFile, Absent, LoadUserOnly
<1>3. CASE f.kind \notin {"mistyped", "malformed"}
  <2>1. Decoded(f) = f
    BY <1>3 DEF Decoded
  <2>. QED
    BY <1>3, <2>1
<1>. QED
  BY <1>1, <1>2, <1>3

\* The user file that xb --allow has read.
LEMMA UserOnly ==
    ASSUME NEW f, IsFile(f)
    PROVE  LET c == LoadUserOnly(f)
           IN  /\ IsConfig(c) /\ c.filter \in BOOLEAN /\ c = [x \in DOMAIN Zero |-> c[x]]
               /\ ToSet(c.allow) = FileAllow(Decoded(f))
<1>1. CASE f.kind \in {"yaml", "mistyped"}
  <2>1. IsConfig(f.doc)
    BY <1>1 DEF IsFile, Absent, Malformed
  <2>2. Unmarshal(f.doc).allow = f.doc.allow
    BY <2>1, UnmarshalLemma, ZeroFields
  <2>3. /\ IsConfig(Unmarshal(f.doc)) /\ Unmarshal(f.doc).filter \in BOOLEAN
        /\ Unmarshal(f.doc) = [x \in DOMAIN Zero |-> Unmarshal(f.doc)[x]]
    BY <2>1, UnmarshalLemma
  <2>. QED
    BY <1>1, <2>2, <2>3, DecodedLemma DEF LoadUserOnly, FileAllow
<1>2. CASE f.kind \notin {"yaml", "mistyped"}
  <2>1. /\ Zero.allow = <<>> /\ Zero.deny = <<>> /\ Zero.envAllow = <<>> /\ Zero.shares = <<>>
        /\ Zero.filter = FALSE /\ Zero.logFile = "" /\ Zero.caVars = <<>>
        /\ Zero = [x \in DOMAIN Zero |-> Zero[x]]
    BY DEF Zero
  <2>2. \A S : <<>> \in Seq(S)
    BY EmptySeq
  <2>3. IsConfig(Zero) /\ Zero.filter \in BOOLEAN
    BY <2>1, <2>2 DEF IsConfig
  <2>4. ToSet(<<>>) = {}
    BY <2>2, ToSetLemma
  <2>5. LoadUserOnly(f) = Zero
    BY <1>2 DEF LoadUserOnly
  <2>6. Zero.allow = <<>> /\ Zero = [x \in DOMAIN Zero |-> Zero[x]]
    BY <2>1
  <2>7. Decoded(f).kind # "yaml"
    BY <1>2, DecodedLemma
  <2>8. FileAllow(Decoded(f)) = {}
    BY <2>7 DEF FileAllow
  <2>. QED
    BY <2>3, <2>4, <2>5, <2>6, <2>8
<1>. QED
  BY <1>1, <1>2

\* What xb --allow writes for v.
Entered(f, v) == [LoadUserOnly(f) EXCEPT !.allow = Append(@, v)]

LEMMA EnteredLemma ==
    ASSUME NEW f, IsFile(f), NEW v \in Value
    PROVE  LET c == Entered(f, v)
           IN  /\ IsConfig(c) /\ c.filter \in BOOLEAN /\ c = [x \in DOMAIN Zero |-> c[x]]
               /\ ToSet(c.allow) = FileAllow(Decoded(f)) \cup {v}
               /\ \A x \in DOMAIN Zero \ {"allow"} : c[x] = LoadUserOnly(f)[x]
<1> DEFINE b == LoadUserOnly(f)
           c == Entered(f, v)
<1>1. /\ IsConfig(b) /\ b.filter \in BOOLEAN /\ b = [x \in DOMAIN Zero |-> b[x]]
      /\ ToSet(b.allow) = FileAllow(Decoded(f))
  BY UserOnly
<1>2. b.allow \in Seq(Value)
  BY <1>1 DEF IsConfig
<1>3. Append(b.allow, v) \in Seq(Value) /\ ToSet(Append(b.allow, v)) = ToSet(b.allow) \cup {v}
  <2>1. /\ Append(b.allow, v) \in Seq(Value) /\ Len(Append(b.allow, v)) = Len(b.allow) + 1
        /\ \A i \in 1..Len(b.allow) : Append(b.allow, v)[i] = b.allow[i]
        /\ Append(b.allow, v)[Len(b.allow) + 1] = v
    BY <1>2, AppendProperties
  <2>2. Len(b.allow) \in Nat /\ ToSet(b.allow) = {b.allow[i] : i \in 1..Len(b.allow)}
    BY <1>2, ToSetLemma
  <2>3. ToSet(Append(b.allow, v)) = {Append(b.allow, v)[i] : i \in 1..(Len(b.allow) + 1)}
    <3>1. ToSet(Append(b.allow, v)) = {Append(b.allow, v)[i] : i \in 1..Len(Append(b.allow, v))}
      BY <2>1, ToSetLemma
    <3>. QED
      BY <2>1, <3>1
  <2>4. 1..(Len(b.allow) + 1) = 1..Len(b.allow) \cup {Len(b.allow) + 1}
    BY <2>2
  <2>. QED
    BY <2>1, <2>2, <2>3, <2>4
<1> HIDE DEF b
<1>4. DOMAIN b = DOMAIN Zero
  BY <1>1 DEF IsConfig
<1>5. /\ c.allow = Append(b.allow, v) /\ DOMAIN c = DOMAIN Zero
      /\ c = [x \in DOMAIN Zero |-> c[x]]
      /\ \A x \in DOMAIN Zero \ {"allow"} : c[x] = b[x]
  BY <1>4, ZeroFields DEF Entered, b
<1> HIDE DEF c
<1>6. IsConfig(c) /\ c.filter \in BOOLEAN
  BY <1>1, <1>3, <1>5, ZeroFields DEF IsConfig
<1>. QED
  BY <1>1, <1>3, <1>5, <1>6 DEF b, c

\* A sandbox that has been told of v.
Told(s, v) == [s EXCEPT !.allow = @ \cup RulesFor(v), !.strings.allow = @ \cup {v}]

LEMMA ToldOK ==
    ASSUME NEW s, SandboxOK(s), NEW v \in Value
    PROVE  /\ SandboxOK(Told(s, v)) /\ v \in Told(s, v).strings.allow
           /\ Told(s, v).on = s.on /\ Told(s, v).log = s.log
<1> DEFINE t == Told(s, v)
           Names == {"on", "allow", "deny", "strings", "cfg", "files", "file", "view", "env", "log"}
<1>1. /\ DOMAIN s = Names /\ s.strings = [allow |-> s.strings.allow, deny |-> s.strings.deny]
      /\ s.strings.allow \cup s.strings.deny \subseteq Value
      /\ s.allow = UNION {RulesFor(w) : w \in s.strings.allow}
  BY DEF SandboxOK
<1>2. /\ t.strings.allow = s.strings.allow \cup {v} /\ t.strings.deny = s.strings.deny
      /\ t.strings = [allow |-> t.strings.allow, deny |-> t.strings.deny]
  BY <1>1 DEF Told
<1>3. /\ DOMAIN t = Names /\ t.allow = s.allow \cup RulesFor(v)
      /\ t.on = s.on /\ t.deny = s.deny /\ t.cfg = s.cfg /\ t.files = s.files /\ t.file = s.file
      /\ t.view = s.view /\ t.env = s.env /\ t.log = s.log
  BY <1>1 DEF Told
<1>4. t.allow = UNION {RulesFor(w) : w \in t.strings.allow}
  BY <1>1, <1>2, <1>3
<1>5. t.strings.allow \cup t.strings.deny \subseteq Value
  BY <1>1, <1>2
<1> HIDE DEF t
<1>6. SandboxOK(t)
  BY <1>2, <1>3, <1>4, <1>5 DEF SandboxOK
<1>. QED
  BY <1>2, <1>3, <1>6 DEF t

\* What a configuration has in its lists, and the rules made of it.
LEMMA StringsOK ==
    ASSUME NEW c, IsConfig(c)
    PROVE  /\ Strings(c).allow = ToSet(c.allow) /\ Strings(c).deny = ToSet(c.deny)
           /\ Strings(c) = [allow |-> Strings(c).allow, deny |-> Strings(c).deny]
           /\ Strings(c).allow \cup Strings(c).deny \subseteq Value
           /\ RulesOf(c.allow) = UNION {RulesFor(v) : v \in Strings(c).allow}
           /\ RulesOf(c.deny) = UNION {RulesFor(v) : v \in Strings(c).deny}
<1>1. /\ Strings(c).allow = ToSet(c.allow) /\ Strings(c).deny = ToSet(c.deny)
      /\ Strings(c) = [allow |-> Strings(c).allow, deny |-> Strings(c).deny]
  BY DEF Strings
<1>2. c.allow \in Seq(Value) /\ c.deny \in Seq(Value)
  BY DEF IsConfig
<1>3. ToSet(c.allow) \subseteq Value /\ ToSet(c.deny) \subseteq Value
  BY <1>2, ToSetLemma
<1>. QED
  BY <1>1, <1>3 DEF RulesOf

\* A sandbox that has read the files u and p again.
ReadAgain(s, u, p) ==
    LET c == Load(Default, u, p)
    IN  [s EXCEPT !.allow = RulesOf(c.allow), !.deny = RulesOf(c.deny),
                  !.strings = Strings(c), !.files = <<u, p>>]

LEMMA ReadOK ==
    ASSUME NEW s, SandboxOK(s), NEW u, IsFile(u), NEW p, IsFile(p)
    PROVE  /\ SandboxOK(ReadAgain(s, u, p))
           /\ ReadAgain(s, u, p).on = s.on /\ ReadAgain(s, u, p).log = s.log
<1> DEFINE Names == {"on", "allow", "deny", "strings", "cfg", "files", "file", "view", "env", "log"}
           c == Load(Default, u, p)
           t == ReadAgain(s, u, p)
<1>1. IsConfig(c)
  BY LoadLemma DEF Settled
<1>2. DOMAIN s = Names
  BY DEF SandboxOK
<1>3. /\ DOMAIN t = Names /\ t.allow = RulesOf(c.allow) /\ t.deny = RulesOf(c.deny)
      /\ t.strings = Strings(c) /\ t.files[1] = u /\ t.files[2] = p
      /\ t.on = s.on /\ t.cfg = s.cfg /\ t.file = s.file
      /\ t.view = s.view /\ t.env = s.env /\ t.log = s.log
  BY <1>2 DEF ReadAgain
<1> HIDE DEF t
<1>4. ToSet(Load(Default, t.files[1], t.files[2]).allow) = Strings(c).allow
  BY <1>1, <1>3, StringsOK
<1> HIDE DEF c
<1>5. SandboxOK(t)
  BY <1>1, <1>3, <1>4, StringsOK DEF SandboxOK
<1>. QED
  BY <1>3, <1>5 DEF t

\* A sandbox that is started with the files u and p.
Started(u, p, file, order) ==
    LET c == Load(Default, u, p)
    IN  [on |-> TRUE, allow |-> RulesOf(c.allow), deny |-> RulesOf(c.deny),
         strings |-> Strings(c), cfg |-> c, files |-> <<u, p>>, file |-> file,
         view |-> View(PrepareMounts(c, file, order)),
         env |-> [linux |-> LinuxEnv(c), darwin |-> DarwinEnv(c)], log |-> c.logFile]

LEMMA StartOK ==
    ASSUME NEW u, IsFile(u), NEW p, IsFile(p), NEW file,
           NEW order \in AgentOrders(Load(Default, u, p))
    PROVE  SandboxOK(Started(u, p, file, order)) /\ Started(u, p, file, order).on = TRUE
<1> DEFINE Names == {"on", "allow", "deny", "strings", "cfg", "files", "file", "view", "env", "log"}
           c == Load(Default, u, p)
           t == Started(u, p, file, order)
<1>1. IsConfig(c) /\ c.logFile \in LogNames /\ c.envAllow # <<>>
  BY LoadLemma DEF Settled, IsConfig
<1>2. /\ DOMAIN t = Names /\ t.allow = RulesOf(c.allow) /\ t.deny = RulesOf(c.deny)
      /\ t.strings = Strings(c) /\ t.files[1] = u /\ t.files[2] = p
      /\ t.on = TRUE /\ t.cfg = c /\ t.file = file /\ t.log = c.logFile
      /\ t.view = View(PrepareMounts(c, file, order))
      /\ t.env = [linux |-> LinuxEnv(c), darwin |-> DarwinEnv(c)]
  BY DEF Started
<1> HIDE DEF t
<1>3. ToSet(Load(Default, t.files[1], t.files[2]).allow) = Strings(c).allow
  BY <1>1, <1>2, StringsOK
<1>4. \E o \in AgentOrders(t.cfg) : t.view = View(PrepareMounts(t.cfg, t.file, o))
  BY <1>2
<1> HIDE DEF c
<1>5. SandboxOK(t)
  BY <1>1, <1>2, <1>3, <1>4, StringsOK DEF SandboxOK
<1>. QED
  BY <1>2, <1>5 DEF t

-------------------------------------------------------------------------------
(* The inductive invariant                                                    *)

\* A destination has a port that can be one.
LEMMA NoDestOutside ==
    \A d \in Dest : d # NoDest
BY ConfigAssumption

LEMMA Bounds ==
    MaxEdits \in Nat /\ MaxAllow \in Nat
BY ConfigAssumption, Zenon

LEMMA InitInv ==
    Init => IInv
<1> SUFFICES ASSUME Init PROVE IInv
  OBVIOUS
<1>1. IsFile(user) /\ project \in ProjectFiles
  BY ConfigAssumption DEF Init
<1>2. logs \in [LogPaths -> Seq(Entry)]
  <2>1. <<>> \in Seq(Entry)
    BY EmptySeq
  <2>. QED
    BY <2>1 DEF Init
<1>3. sb.on = FALSE
  BY DEF Init, NoSandbox
<1>4. edits \in 0..MaxEdits /\ adds \in 0..MaxAllow
  BY Bounds DEF Init
<1>. QED
  BY <1>1, <1>2, <1>3, <1>4 DEF IInv, Init

\* An addition of v: the parts of the invariant that it can disturb.
LEMMA AddInv ==
    ASSUME IInv, NEW v \in Value, Add(v)
    PROVE  /\ IsFile(user)' /\ (adds \in 0..MaxAllow)'
           /\ sb'.on = sb.on /\ (sb.on => SandboxOK(sb') /\ sb'.log = sb.log)
<1>1. IsFile(user) /\ adds \in 0..MaxAllow /\ (sb.on => SandboxOK(sb))
  BY DEF IInv
<1>2. CASE UNCHANGED <<user, sb, adds>>
  BY <1>1, <1>2
<1>3. CASE /\ adds < MaxAllow /\ adds' = adds + 1
           /\ user' = SaveDefault(Entered(user, v))
           /\ sb' = IF sb.on THEN Told(sb, v) ELSE sb
  <2>1. IsFile(user')
    BY <1>1, <1>3, EnteredLemma, SavedFile
  <2>2. adds' \in 0..MaxAllow
    BY <1>1, <1>3, Bounds
  <2>3. sb'.on = sb.on /\ (sb.on => SandboxOK(sb') /\ sb'.log = sb.log)
    BY <1>1, <1>3, ToldOK
  <2>. QED
    BY <2>1, <2>2, <2>3
<1>. QED
  BY <1>2, <1>3 DEF Add, Entered, Told

\* A step that leaves the log of the sandbox and what it was denied alone.
LEMMA DenialKept ==
    ASSUME IInv, sb'.on = sb.on, sb.on => sb'.log = sb.log, UNCHANGED <<logs, blocked>>, sb'.on
    PROVE  DenialOK'
BY DEF IInv, DenialOK

\* A new entry in a log: the last own denial of the sandbox is the new one, or stays.
LEMMA RecordInv ==
    ASSUME IInv, NEW path \in LogPaths, NEW e \in Entry, Record(path, e)
    PROVE  /\ logs' \in [LogPaths -> Seq(Entry)]
           /\ IsOwn(e) => /\ Own(logs'[path]) # {}
                          /\ logs'[path][Max(Own(logs'[path]))] = e
           /\ \A p \in LogPaths : ~IsOwn(e) /\ Own(logs[p]) # {} =>
                /\ Own(logs'[p]) # {}
                /\ logs'[p][Max(Own(logs'[p]))] = logs[p][Max(Own(logs[p]))]
<1>1. logs \in [LogPaths -> Seq(Entry)]
  BY DEF IInv
<1>2. logs' = [logs EXCEPT ![path] = Append(@, e)]
  BY DEF Record
<1>3. logs[path] \in Seq(Entry) /\ Append(logs[path], e) \in Seq(Entry)
  BY <1>1, AppendProperties
<1>4. /\ logs' \in [LogPaths -> Seq(Entry)] /\ logs'[path] = Append(logs[path], e)
      /\ \A p \in LogPaths : p # path => logs'[p] = logs[p]
  BY <1>1, <1>2, <1>3
<1> DEFINE old == logs[path]
           new == Append(old, e)
<1>5. /\ IsOwn(e) => Own(new) # {} /\ new[Max(Own(new))] = e
      /\ ~IsOwn(e) /\ Own(old) # {} => Own(new) # {} /\ new[Max(Own(new))] = old[Max(Own(old))]
  <2>1. old \in Seq(Entry)
    BY <1>3
  <2> HIDE DEF old
  <2>. QED
    BY <2>1, NewEntry
<1>6. logs'[path] = new
  BY <1>4
<1> HIDE DEF new
<1>. QED
  BY <1>4, <1>5, <1>6

\* What xb --allow --from-log finds in a log is a destination, or nothing.
LEMMA ShownDest ==
    ASSUME IInv, LastBlocked(Shown) # NoDest
    PROVE  LastBlocked(Shown) \in Dest
<1>1. Shown \in Seq(Entry)
  <2>1. IsFile(user) /\ IsFile(Absent)
    BY DEF IInv, IsFile
  <2>2. Global.logFile \in LogNames
    BY <2>1, LoadLemma DEF Global, Settled, IsConfig
  <2>3. ReadPath \in LogPaths
    BY <2>2 DEF ReadPath, LogPaths
  <2>. QED
    BY <2>3 DEF IInv, Shown
<1>2. Denied(Shown) # {} /\ LastBlocked(Shown) = Shown[Max(Denied(Shown))].dest
  BY DEF LastBlocked
<1>3. Max(Denied(Shown)) \in DOMAIN Shown
  <2>1. Denied(Shown) \in SUBSET DOMAIN Shown
    BY DEF Denied
  <2>. QED
    BY <1>1, <1>2, <2>1, LastOf
<1>4. Shown[Max(Denied(Shown))] \in Entry
  BY <1>1, <1>3, ToSetLemma
<1>5. Shown[Max(Denied(Shown))].dest \in Dest \cup {NoDest}
  BY <1>4 DEF Entry
<1>. QED
  BY <1>2, <1>5

LEMMA StepInv ==
    IInv /\ [Next]_vars => IInv'
<1> SUFFICES ASSUME IInv, [Next]_vars PROVE IInv'
  OBVIOUS
<1>0. /\ IsFile(user) /\ project \in ProjectFiles /\ logs \in [LogPaths -> Seq(Entry)]
      /\ sb.on \in BOOLEAN /\ (sb.on => SandboxOK(sb)) /\ (sb.on => DenialOK)
      /\ blocked \in Dest \cup {NoDest}
      /\ edits \in 0..MaxEdits /\ adds \in 0..MaxAllow
  BY DEF IInv
<1>file. IsFile(project)
  BY <1>0, ConfigAssumption
<1>1. CASE EditUser
  <2>1. IsFile(user')
    BY <1>1, ConfigAssumption DEF EditUser
  <2>2. edits' \in 0..MaxEdits
    BY <1>0, <1>1, Bounds DEF EditUser
  <2>3. UNCHANGED <<project, logs, sb, blocked, adds>>
    BY <1>1 DEF EditUser
  <2>4. sb.on => DenialOK'
    BY <2>3, DenialKept
  <2>. QED
    BY <1>0, <2>1, <2>2, <2>3, <2>4 DEF IInv
<1>2. CASE EditProject
  <2>1. project' \in ProjectFiles
    BY <1>2 DEF EditProject
  <2>2. edits' \in 0..MaxEdits
    BY <1>0, <1>2, Bounds DEF EditProject
  <2>3. UNCHANGED <<user, logs, sb, blocked, adds>>
    BY <1>2 DEF EditProject
  <2>4. sb.on => DenialOK'
    BY <2>3, DenialKept
  <2>. QED
    BY <1>0, <2>1, <2>2, <2>3, <2>4 DEF IInv
<1>3. CASE InitCommand
  <2>1. IsFile(user')
    BY <1>3, SavedFile, ConfigAssumption DEF InitCommand
  <2>2. UNCHANGED <<project, logs, sb, blocked, edits, adds>>
    BY <1>3 DEF InitCommand
  <2>3. sb.on => DenialOK'
    BY <2>2, DenialKept
  <2>. QED
    BY <1>0, <2>1, <2>2, <2>3 DEF IInv
<1>4. ASSUME NEW v \in Value, Add(v), UNCHANGED <<project, logs, blocked, edits>>
      PROVE  IInv'
  <2>1. /\ IsFile(user') /\ adds' \in 0..MaxAllow
        /\ sb'.on = sb.on /\ (sb.on => SandboxOK(sb') /\ sb'.log = sb.log)
    BY <1>4, AddInv
  <2>2. sb'.on => DenialOK'
    BY <1>4, <2>1, DenialKept
  <2>. QED
    BY <1>0, <1>4, <2>1, <2>2 DEF IInv
<1>5. CASE AllowFromLog
  <2> DEFINE d == LastBlocked(Shown)
  <2>1. d # NoDest /\ Add(Offered(d)) /\ UNCHANGED <<project, logs, blocked, edits>>
    BY <1>5 DEF AllowFromLog
  <2>2. d \in Dest
    BY <1>0, <2>1, ShownDest
  <2>3. Offered(d) \in Value
    BY <2>2, ConfigAssumption
  <2>. QED
    BY <1>4, <2>1, <2>3
<1>6. ASSUME NEW v \in AddValue, Allow(v) PROVE IInv'
  <2>1. v \in Value
    BY ConfigAssumption
  <2>. QED
    BY <1>4, <1>6, <2>1 DEF Allow
<1>7. CASE Start
  <2>1. PICK order \in AgentOrders(Load(Default, user, project)) :
          sb' = Started(user, project, project.kind # "absent", order)
    BY <1>7 DEF Start, Effective, Started
  <2>2. SandboxOK(sb') /\ sb'.on = TRUE
    <3>1. IsFile(user) /\ IsFile(project)
      BY <1>0, <1>file
    <3>. QED
      BY <2>1, <3>1, StartOK
  <2>3. blocked' = NoDest /\ UNCHANGED <<user, project, logs, edits, adds>>
    BY <1>7 DEF Start
  <2>4. DenialOK'
    BY <2>3 DEF DenialOK
  <2>. QED
    BY <1>0, <2>2, <2>3, <2>4 DEF IInv
<1>8. CASE Reload
  <2>1. sb.on /\ UNCHANGED <<user, project, logs, blocked, edits, adds>>
    BY <1>8 DEF Reload
  <2>2. sb' = ReadAgain(sb, user, project)
    BY <1>8 DEF Reload, Effective, ReadAgain
  <2>3. SandboxOK(sb') /\ sb'.on = sb.on /\ sb'.log = sb.log
    <3>1. SandboxOK(sb) /\ IsFile(user) /\ IsFile(project)
      BY <1>0, <1>file, <2>1
    <3>. QED
      BY <2>2, <3>1, ReadOK
  <2>4. DenialOK'
    BY <2>1, <2>3, DenialKept
  <2>. QED
    BY <1>0, <2>1, <2>3, <2>4 DEF IInv
<1>9. CASE Stop
  BY <1>0, <1>9 DEF Stop, IInv, NoSandbox
<1>10. ASSUME NEW path \in LogPaths, NEW e \in Entry, ~IsOwn(e), Record(path, e),
              UNCHANGED <<user, project, sb, blocked, edits, adds>>
       PROVE  IInv'
  <2>1. logs' \in [LogPaths -> Seq(Entry)]
    BY <1>10, RecordInv
  <2>2. ASSUME sb.on PROVE DenialOK'
    <3>1. sb.log \in LogPaths /\ DenialOK
      BY <1>0, <2>2 DEF SandboxOK, LogPaths
    <3>2. Own(logs[sb.log]) # {} =>
            /\ Own(logs'[sb.log]) # {}
            /\ logs'[sb.log][Max(Own(logs'[sb.log]))] = logs[sb.log][Max(Own(logs[sb.log]))]
      BY <1>10, <3>1, RecordInv
    <3>. QED
      BY <1>10, <3>1, <3>2 DEF DenialOK
  <2>. QED
    BY <1>0, <1>10, <2>1, <2>2 DEF IInv
<1>11. CASE Nameless
  <2> DEFINE e == [sandbox |-> "this", dest |-> NoDest, action |-> "deny"]
  <2>1. sb.on /\ Record(sb.log, e) /\ UNCHANGED <<user, project, sb, blocked, edits, adds>>
    BY <1>11 DEF Nameless
  <2>2. e \in Entry /\ ~IsOwn(e)
    BY DEF Entry, IsOwn
  <2>3. sb.log \in LogPaths
    BY <1>0, <2>1 DEF SandboxOK, LogPaths
  <2> HIDE DEF e
  <2>. QED
    BY <1>10, <2>1, <2>2, <2>3
<1>other. ASSUME NEW path \in LogNames, NEW d \in OtherDest, OtherDenies(path, d) PROVE IInv'
  <2> DEFINE e == [sandbox |-> "other", dest |-> d, action |-> "deny"]
  <2>1. Record(path, e) /\ UNCHANGED <<user, project, sb, blocked, edits, adds>>
    BY <1>other DEF OtherDenies
  <2>2. e \in Entry /\ ~IsOwn(e) /\ path \in LogPaths
    BY ConfigAssumption DEF Entry, IsOwn, LogPaths
  <2> HIDE DEF e
  <2>. QED
    BY <1>10, <2>1, <2>2
<1>request. ASSUME NEW d \in Dest, Request(d) PROVE IInv'
  <2> DEFINE action == IF Verdict(d) = "whitelist" THEN "allow" ELSE "deny"
             e == [sandbox |-> "this", dest |-> d, action |-> action]
  <2>1. /\ sb.on /\ Record(sb.log, e) /\ blocked' = (IF action = "deny" THEN d ELSE blocked)
        /\ UNCHANGED <<user, project, sb, edits, adds>>
    BY <1>request DEF Request
  <2>2. e \in Entry /\ e.dest = d /\ d # NoDest /\ (IsOwn(e) <=> action = "deny")
    <3>1. d # NoDest
      BY NoDestOutside
    <3>. QED
      BY <3>1 DEF Entry, IsOwn
  <2>3. sb.log \in LogPaths /\ DenialOK
    BY <1>0, <2>1 DEF SandboxOK, LogPaths
  <2> HIDE DEF e, action
  <2>4. logs' \in [LogPaths -> Seq(Entry)]
    BY <2>1, <2>2, <2>3, RecordInv
  <2>5. DenialOK'
    <3>1. CASE action = "deny"
      <4>1. Own(logs'[sb.log]) # {} /\ logs'[sb.log][Max(Own(logs'[sb.log]))] = e
        BY <2>1, <2>2, <2>3, <3>1, RecordInv
      <4>. QED
        BY <2>1, <2>2, <3>1, <4>1 DEF DenialOK
    <3>2. CASE action # "deny"
      <4>1. blocked' = blocked /\ sb' = sb
        BY <2>1, <3>2
      <4>2. Own(logs[sb.log]) # {} =>
              /\ Own(logs'[sb.log]) # {}
              /\ logs'[sb.log][Max(Own(logs'[sb.log]))] = logs[sb.log][Max(Own(logs[sb.log]))]
        BY <2>1, <2>2, <2>3, <3>2, RecordInv
      <4>. QED
        BY <2>3, <4>1, <4>2 DEF DenialOK
    <3>. QED
      BY <3>1, <3>2
  <2>6. blocked' \in Dest \cup {NoDest}
    BY <1>0, <2>1
  <2>. QED
    BY <1>0, <2>1, <2>4, <2>5, <2>6 DEF IInv
<1>12. CASE UNCHANGED vars
  <2>1. UNCHANGED <<user, project, logs, sb, blocked, edits, adds>>
    BY <1>12 DEF vars
  <2>2. sb.on => DenialOK'
    BY <2>1, DenialKept
  <2>. QED
    BY <1>0, <2>1, <2>2 DEF IInv
<1>. QED
  BY <1>1, <1>2, <1>3, <1>5, <1>6, <1>7, <1>8, <1>9, <1>11, <1>other, <1>request,
     <1>12 DEF Next

\* Every reachable state satisfies IInv.
THEOREM AlwaysIInv == Spec => []IInv
<1>1. Init => IInv
  BY InitInv
<1>2. IInv /\ [Next]_vars => IInv'
  BY StepInv
<1>. QED
  BY <1>1, <1>2, PTL DEF Spec

-------------------------------------------------------------------------------
(* What follows from it                                                       *)

\* Every variable has its type, and the rules of the sandbox are those that addRule
\* makes of strings that occur.
THEOREM TypeCorrect == Spec => []TypeOK
<1>1. IInv => TypeOK
  <2> SUFFICES ASSUME IInv PROVE TypeOK
    OBVIOUS
  <2>1. user.kind \in {"absent", "yaml", "malformed", "mistyped"}
    BY DEF IInv, IsFile, Absent, Malformed
  <2>2. user.kind = "yaml" => ToSet(user.doc.allow) \subseteq Value
    <3>1. user.kind = "yaml" => IsConfig(user.doc)
      BY DEF IInv, IsFile, Absent, Malformed
    <3>2. user.kind = "yaml" => user.doc.allow \in Seq(Value)
      BY <3>1 DEF IsConfig
    <3>. QED
      BY <3>2, ToSetLemma
  <2>3. ASSUME NEW p \in LogPaths, NEW i \in DOMAIN logs[p] PROVE logs[p][i] \in Entry
    <3>1. logs[p] \in Seq(Entry)
      BY DEF IInv
    <3>. QED
      BY <3>1, ToSetLemma
  <2>4. ASSUME sb.on
        PROVE  /\ sb.allow \cup sb.deny \subseteq RuleSet
               /\ sb.log \in LogPaths /\ FromHost(sb.env.linux) \subseteq HostEnv
    <3>1. SandboxOK(sb)
      BY <2>4 DEF IInv
    <3>2. sb.allow \cup sb.deny \subseteq RuleSet
      BY <3>1, RulesForLemma DEF SandboxOK
    <3>3. sb.log \in LogPaths
      BY <3>1 DEF SandboxOK, LogPaths
    <3>4. sb.env.linux = LinuxEnv(sb.cfg)
      BY <3>1 DEF SandboxOK
    <3>5. FromHost(sb.env.linux) \subseteq HostEnv
      BY <3>4, EnvironmentLemma DEF LinuxEnv
    <3>. QED
      BY <3>2, <3>3, <3>5
  <2>. QED
    BY <2>1, <2>2, <2>3, <2>4 DEF TypeOK, IInv
<1>. QED
  BY <1>1, AlwaysIInv, PTL

\* Wherever the entries come from and in whatever order files are edited, entries
\* added and files read again: the running sandbox allows what one of its allow
\* entries denotes and none of its deny entries does.
THEOREM VerdictAsDocumented == Spec => []DocumentedVerdict
<1>1. IInv => DocumentedVerdict
  <2> SUFFICES ASSUME IInv, sb.on, NEW d \in Dest, ~Misread(d.host)
               PROVE  Verdict(d) = "whitelist" <=>
                        /\ d.host # Blank
                        /\ \E v \in sb.strings.allow \ {Blank} : d \in Meaning[v]
                        /\ ~\E v \in sb.strings.deny \ {Blank} : d \in Meaning[v]
    BY DEF DocumentedVerdict
  <2>1. /\ sb.strings.allow \in SUBSET Value /\ sb.strings.deny \in SUBSET Value
        /\ sb.allow = UNION {RulesFor(v) : v \in sb.strings.allow}
        /\ sb.deny = UNION {RulesFor(v) : v \in sb.strings.deny}
    BY DEF IInv, SandboxOK
  <2> DEFINE S == sb.strings.allow
             T == sb.strings.deny
  <2>2. Verdict(d) = Judged(S, T, d)
    BY <2>1 DEF Verdict, Judged
  <2>3. S \in SUBSET Value /\ T \in SUBSET Value
    BY <2>1
  <2> HIDE DEF S, T
  <2>4. Verdict(d) = "whitelist" <=> /\ d.host # Blank
                                     /\ \E v \in S \ {Blank} : d \in Meaning[v]
                                     /\ ~\E v \in T \ {Blank} : d \in Meaning[v]
    BY <2>2, <2>3, VerdictLemma
  <2>. QED
    BY <2>4 DEF S, T
<1>. QED
  BY <1>1, AlwaysIInv, PTL

\* xb --allow --from-log finds the last denial of the running sandbox when it reads the
\* log of that sandbox and nothing was denied since to another, or without a name.
THEOREM LogOffersLast == Spec => []FromLogOffers
<1>1. IInv => FromLogOffers
  <2> SUFFICES ASSUME IInv, sb.on, blocked # NoDest, ~LogElsewhere
               PROVE  \/ LastBlocked(Shown) = blocked
                      \/ \E i \in Denied(Shown) \ Own(Shown) : \A j \in Own(Shown) : i > j
    BY DEF FromLogOffers
  <2>1. Shown = logs[sb.log]
    BY DEF LogElsewhere, Shown, ReadPath
  <2>2. DenialOK /\ SandboxOK(sb)
    BY DEF IInv
  <2>3. Own(Shown) # {} /\ Shown[Max(Own(Shown))].dest = blocked
    BY <2>1, <2>2 DEF DenialOK
  <2>4. Shown \in Seq(Entry)
    BY <2>1, <2>2 DEF IInv, SandboxOK, LogPaths
  <2>5. Own(Shown) \subseteq Denied(Shown) /\ Denied(Shown) \in SUBSET DOMAIN Shown
        /\ Own(Shown) \in SUBSET DOMAIN Shown
    BY DEF Own, Denied
  <2> DEFINE k == Max(Own(Shown))
             m == Max(Denied(Shown))
  <2>6. k \in Own(Shown) /\ \A j \in Own(Shown) : j <= k
    BY <2>3, <2>4, <2>5, LastOf
  <2>7. m \in Denied(Shown) /\ \A j \in Denied(Shown) : j <= m
    BY <2>3, <2>4, <2>5, LastOf
  <2>8. \A j \in DOMAIN Shown : j \in Nat
    BY <2>4, ToSetLemma
  <2>9. LastBlocked(Shown) = Shown[m].dest
    BY <2>3, <2>5 DEF LastBlocked
  <2> HIDE DEF k, m
  <2>10. CASE m \in Own(Shown)
    <3>1. m = k
      BY <2>5, <2>6, <2>7, <2>8, <2>10
    <3>. QED
      BY <2>3, <2>9, <3>1 DEF k
  <2>11. CASE m \notin Own(Shown)
    <3>1. \A j \in Own(Shown) : m > j
      BY <2>5, <2>7, <2>8, <2>11
    <3>. QED
      BY <2>7, <2>11, <3>1
  <2>. QED
    BY <2>10, <2>11
<1>. QED
  BY <1>1, AlwaysIInv, PTL

\* Whatever the files hold and in whatever order the agents are mounted, the command
\* sees the project, its file, the shares and the agents' directories, those that are
\* found under the path as it is written; and its environment is filtered, on Linux as
\* on macOS, but for what each of them sets.
THEOREM ViewAsConfigured == Spec => []SandboxAsConfigured
<1>1. IInv => SandboxAsConfigured
  BY AsConfiguredLemma DEF IInv, SandboxAsConfigured
<1>. QED
  BY <1>1, AlwaysIInv, PTL

\* xb --init changes no setting that is in force, in any scope.
THEOREM InitIsNeutral == Spec => InitNeutral
<1>1. InitCommand => Effective' = Effective
  <2> SUFFICES ASSUME InitCommand PROVE Effective' = Effective
    OBVIOUS
  <2>1. user = Absent /\ user' = SaveDefault(Default) /\ project' = project
    BY DEF InitCommand
  <2>2. SaveDefault(Default).kind = "yaml" /\ Unmarshal(SaveDefault(Default).doc) = Default
    BY SavedFile, ConfigAssumption
  <2>3. LoadAndMerge(Default, user') = Default
    BY <2>1, <2>2, DefaultTwice DEF LoadAndMerge
  <2>4. LoadAndMerge(Default, user) = Default
    BY <2>1 DEF LoadAndMerge, Absent
  <2>. QED
    BY <2>1, <2>3, <2>4 DEF Effective, Load
<1>. QED
  BY <1>1, PTL DEF InitNeutral

\* What xb --allow has written differs, once it is merged with the defaults, from what
\* was there before in the allow list and in env.filter at most.
LEMMA EnteredSame ==
    ASSUME NEW f, IsFile(f), f.kind # "mistyped", NEW v \in Value
    PROVE  SameRest(LoadAndMerge(Default, f), Merge(Default, Entered(f, v)))
<1> DEFINE o == LoadUserOnly(f)
           e == Entered(f, v)
           c == Merge(Default, e)
<1>1. DOMAIN Default = DOMAIN Zero /\ Default.filter \in BOOLEAN
  BY ConfigAssumption DEF IsConfig
<1>2. /\ e.deny = o.deny /\ e.envAllow = o.envAllow /\ e.shares = o.shares
      /\ e.caBundle = o.caBundle /\ e.caVars = o.caVars
      /\ e.persist = o.persist /\ e.logFile = o.logFile /\ e.cwd = o.cwd /\ e.filter = o.filter
  <2>1. \A x \in DOMAIN Zero \ {"allow"} : e[x] = o[x]
    BY EnteredLemma
  <2> HIDE DEF e, o
  <2>. QED
    BY <2>1, ZeroFields
<1> HIDE DEF e, o
<1>3. /\ c.deny = AppendUnique(Default.deny, o.deny)
      /\ c.envAllow = AppendUnique(Default.envAllow, o.envAllow)
      /\ c.caVars = AppendUnique(Default.caVars, o.caVars)
      /\ c.shares = Default.shares \o o.shares
      /\ c.persist = Override(Default.persist, o.persist)
  <2>1. /\ c.deny = AppendUnique(Default.deny, e.deny)
        /\ c.envAllow = AppendUnique(Default.envAllow, e.envAllow)
        /\ c.caVars = AppendUnique(Default.caVars, e.caVars)
        /\ c.shares = Default.shares \o e.shares
        /\ c.persist = Override(Default.persist, e.persist)
    BY <1>1, MergeLists
  <2>. QED
    BY <1>2, <2>1
<1>4. /\ c.logFile = Scalar(Default.logFile, o.logFile) /\ c.cwd = Scalar(Default.cwd, o.cwd)
      /\ c.caBundle = Scalar(Default.caBundle, o.caBundle)
      /\ c.filter = (Default.filter /\ o.filter)
  <2>1. /\ c.logFile = Scalar(Default.logFile, e.logFile) /\ c.cwd = Scalar(Default.cwd, e.cwd)
        /\ c.caBundle = Scalar(Default.caBundle, e.caBundle)
        /\ c.filter = (Default.filter /\ e.filter)
    BY <1>1, MergeScalars
  <2> HIDE DEF c
  <2>. QED
    BY <1>2, <2>1, Zenon
<1> HIDE DEF c
<1>5. CASE f.kind = "yaml"
  <2> DEFINE b == Merge(Default, o)
  <2>1. LoadAndMerge(Default, f) = b
    BY <1>5 DEF LoadAndMerge, LoadUserOnly, o
  <2>2. /\ b.deny = AppendUnique(Default.deny, o.deny)
        /\ b.envAllow = AppendUnique(Default.envAllow, o.envAllow)
        /\ b.caVars = AppendUnique(Default.caVars, o.caVars)
        /\ b.shares = Default.shares \o o.shares
        /\ b.persist = Override(Default.persist, o.persist)
    BY <1>1, MergeLists
  <2>3. /\ b.logFile = Scalar(Default.logFile, o.logFile) /\ b.cwd = Scalar(Default.cwd, o.cwd)
        /\ b.caBundle = Scalar(Default.caBundle, o.caBundle)
        /\ b.filter = (Default.filter /\ o.filter)
    BY <1>1, MergeScalars
  <2> HIDE DEF b
  <2>4. c.filter = b.filter
    BY <1>4, <2>3, Zenon
  <2>5. c.logFile = b.logFile /\ c.cwd = b.cwd /\ c.caBundle = b.caBundle
    BY <1>4, <2>3, Zenon
  <2>6. /\ c.deny = b.deny /\ c.envAllow = b.envAllow /\ c.caVars = b.caVars
        /\ c.shares = b.shares /\ c.persist = b.persist
    BY <1>3, <2>2
  <2>7. SameRest(b, c)
    BY <2>4, <2>5, <2>6, ZeroFields DEF SameRest
  <2>. QED
    BY <2>1, <2>7 DEF c, e
<1>6. CASE f.kind # "yaml"
  <2>1. LoadAndMerge(Default, f) = Default /\ o = Zero
    BY <1>6 DEF LoadAndMerge, LoadUserOnly, o
  <2>2. /\ o.deny = <<>> /\ o.envAllow = <<>> /\ o.shares = <<>> /\ o.persist = <<>>
        /\ o.logFile = "" /\ o.cwd = "" /\ o.filter = FALSE
        /\ o.caBundle = "" /\ o.caVars = <<>>
    BY <2>1 DEF Zero
  <2>3. \A S : \A list \in Seq(S) : AppendUnique(list, <<>>) = list
    <3>1. ASSUME NEW S, NEW list \in Seq(S) PROVE AppendUnique(list, <<>>) = list
      <4>1. <<>> \in Seq(S)
        BY EmptySeq
      <4>2. ToSet(<<>>) = {}
        BY <4>1, ToSetLemma
      <4>. QED
        BY <4>1, <4>2, AppendUniqueSame
    <3>. QED
      BY <3>1
  <2>4. c.deny = Default.deny
    <3>1. Default.deny \in Seq(Value)
      BY ConfigAssumption DEF IsConfig
    <3>. QED
      BY <1>3, <2>2, <2>3, <3>1
  <2>5. c.envAllow = Default.envAllow
    <3> DEFINE S == STRING
    <3>1. Default.envAllow \in Seq(S)
      BY ConfigAssumption DEF IsConfig
    <3> HIDE DEF S
    <3>. QED
      BY <1>3, <2>2, <2>3, <3>1
  <2>ca. c.caVars = Default.caVars
    <3> DEFINE S == STRING
    <3>1. Default.caVars \in Seq(S)
      BY ConfigAssumption DEF IsConfig
    <3> HIDE DEF S
    <3>. QED
      BY <1>3, <2>2, <2>3, <3>1
  <2>6. c.shares = Default.shares
    <3>1. Default.shares = <<>> /\ <<>> \in Seq({})
      BY ConfigAssumption, EmptySeq
    <3>2. <<>> \o <<>> = <<>>
      BY <3>1, ConcatEmptySeq
    <3>. QED
      BY <1>3, <2>2, <3>1, <3>2
  <2>7. c.persist = Default.persist
    <3> DEFINE p == Default.persist
    <3>1. p = [a \in DOMAIN p |-> p[a]]
      BY ConfigAssumption
    <3> HIDE DEF p
    <3>2. Override(p, <<>>) = [a \in DOMAIN p |-> p[a]]
      <4>1. DOMAIN <<>> = {}
        OBVIOUS
      <4>. QED
        BY <4>1 DEF Override
    <3>. QED
      BY <1>3, <2>2, <3>1, <3>2 DEF p
  <2>8. c.logFile = Default.logFile /\ c.cwd = Default.cwd /\ c.caBundle = Default.caBundle
    BY <1>4, <2>2 DEF Scalar
  <2>9. c.filter = FALSE
    <3>1. c.filter = (Default.filter /\ o.filter) /\ o.filter = FALSE
      BY <1>4, <2>2
    <3>. QED
      BY <3>1, Zenon
  <2>10. SameRest(Default, c)
    BY <2>4, <2>5, <2>ca, <2>6, <2>7, <2>8, <2>9, ZeroFields DEF SameRest
  <2>. QED
    BY <2>1, <2>10 DEF c, e
<1>. QED
  BY <1>5, <1>6

\* What is in force after xb --allow has written v, compared with what would be in force
\* before, had the user file what can be decoded of it.
LEMMA AddEffective ==
    ASSUME IInv, NEW v \in Value, user' = SaveDefault(Entered(user, v)), project' = project
    PROVE  /\ Settled(Readable) /\ Settled(Effective') /\ SameRest(Readable, Effective')
           /\ ToSet(Effective'.allow) = ToSet(Readable.allow) \cup {v}
           /\ FileAllow(user') = FileAllow(Decoded(user)) \cup {v}
<1> DEFINE old == Decoded(user)
           e == Entered(old, v)
           b == LoadAndMerge(Default, old)
           c == LoadAndMerge(Default, user')
<1>1. IsFile(user) /\ IsFile(project) /\ Settled(Default)
  BY ConfigAssumption DEF IInv, Settled
<1>old. /\ IsFile(old) /\ old.kind # "mistyped" /\ Entered(user, v) = e
        /\ FileAllow(Decoded(old)) = FileAllow(old)
  <2>1. IsFile(old) /\ LoadUserOnly(old) = LoadUserOnly(user)
    BY <1>1, DecodedLemma
  <2>2. old.kind \notin {"mistyped", "malformed"}
    BY <1>1 DEF Decoded, Yaml, Absent, IsFile, Malformed, Mistyped
  <2>3. Decoded(old) = old
    BY <2>2 DEF Decoded
  <2>. QED
    BY <2>1, <2>2, <2>3 DEF Entered
<1> HIDE DEF old
<1>2. /\ IsConfig(e) /\ e.filter \in BOOLEAN /\ e = [x \in DOMAIN Zero |-> e[x]]
      /\ ToSet(e.allow) = FileAllow(old) \cup {v}
  BY <1>old, EnteredLemma
<1> HIDE DEF e
<1>3. /\ IsFile(SaveDefault(e)) /\ SaveDefault(e).kind = "yaml"
      /\ Unmarshal(SaveDefault(e).doc) = e /\ SaveDefault(e).doc.allow = e.allow
  BY <1>2, SavedFile
<1>4. user' = SaveDefault(e)
  BY <1>old
<1>5. FileAllow(user') = FileAllow(old) \cup {v}
  BY <1>2, <1>3, <1>4 DEF FileAllow
<1>6. c = Merge(Default, e)
  BY <1>3, <1>4 DEF LoadAndMerge
<1>7. SameRest(b, c)
  BY <1>old, <1>6, EnteredSame DEF e
<1>8. /\ Settled(b) /\ ToSet(b.allow) = ToSet(Default.allow) \cup FileAllow(old)
      /\ Settled(c) /\ ToSet(c.allow) = ToSet(Default.allow) \cup FileAllow(user')
  BY <1>1, <1>old, <1>3, <1>4, LoadAndMergeSettled
<1>9. Readable = LoadAndMerge(b, project) /\ Effective' = LoadAndMerge(c, project)
  BY DEF Readable, Effective, Load, old
<1> HIDE DEF b, c
<1>10. /\ Settled(Readable) /\ ToSet(Readable.allow) = ToSet(b.allow) \cup FileAllow(project)
       /\ Settled(Effective') /\ ToSet(Effective'.allow) = ToSet(c.allow) \cup FileAllow(project)
  BY <1>1, <1>8, <1>9, LoadAndMergeSettled
<1>11. SameRest(Readable, Effective')
  BY <1>1, <1>7, <1>8, <1>9, SameLater
<1>. QED
  BY <1>5, <1>8, <1>10, <1>11 DEF old

\* xb --allow adds its entry to what can be decoded of the user file, which is in force
\* from then on, and changes nothing else, whatever the files held.
THEOREM AllowOnlyTouches == Spec => AllowKeepsRest
<1>1. ASSUME IInv, NEW v \in AddValue, user' # user, Allow(v)
      PROVE  /\ ToSet(Effective'.allow) = ToSet(Readable.allow) \cup {v}
             /\ [Effective' EXCEPT !.allow = <<>>, !.filter = FALSE] =
                  [Readable EXCEPT !.allow = <<>>, !.filter = FALSE]
             /\ Effective'.filter => Readable.filter
             /\ Decoded(user).kind = "yaml" =>
                  ToSet(user.doc.allow) \subseteq ToSet(user'.doc.allow)
  <2>1. v \in Value
    BY ConfigAssumption
  <2>2. user' = SaveDefault(Entered(user, v)) /\ project' = project
    BY <1>1 DEF Allow, Add, Entered
  <2>3. /\ Settled(Readable) /\ Settled(Effective') /\ SameRest(Readable, Effective')
        /\ ToSet(Effective'.allow) = ToSet(Readable.allow) \cup {v}
        /\ FileAllow(user') = FileAllow(Decoded(user)) \cup {v}
    BY <1>1, <2>1, <2>2, AddEffective
  <2>4. user'.kind = "yaml"
    BY <2>2 DEF SaveDefault, Yaml
  <2>5. Decoded(user).kind = "yaml" => ToSet(user.doc.allow) \subseteq ToSet(user'.doc.allow)
    <3>1. Decoded(user).kind = "yaml" => Decoded(user).doc = user.doc
      BY <1>1, DecodedLemma DEF IInv
    <3>. QED
      BY <2>3, <2>4, <3>1 DEF FileAllow
  <2> DEFINE b == Readable
             c == Effective'
  <2>6. /\ DOMAIN b = DOMAIN Zero /\ DOMAIN c = DOMAIN Zero
        /\ \A x \in DOMAIN Zero \ {"allow", "filter"} : c[x] = b[x]
        /\ c.filter => b.filter
    BY <2>3 DEF Settled, IsConfig, SameRest
  <2> HIDE DEF b, c
  <2>7. [c EXCEPT !.allow = <<>>, !.filter = FALSE] = [b EXCEPT !.allow = <<>>, !.filter = FALSE]
    BY <2>6, ZeroFields
  <2>. QED
    BY <2>3, <2>5, <2>6, <2>7 DEF b, c
<1>2. IInv /\ [Next]_vars =>
        [\A v \in AddValue : user' # user /\ Allow(v) =>
           /\ ToSet(Effective'.allow) = ToSet(Readable.allow) \cup {v}
           /\ [Effective' EXCEPT !.allow = <<>>, !.filter = FALSE] =
                [Readable EXCEPT !.allow = <<>>, !.filter = FALSE]
           /\ Effective'.filter => Readable.filter
           /\ Decoded(user).kind = "yaml" =>
                ToSet(user.doc.allow) \subseteq ToSet(user'.doc.allow)]_vars
  BY <1>1
<1>. QED
  BY <1>2, AlwaysIInv, PTL DEF AllowKeepsRest, Spec

\* When xb --allow --from-log has added what the running sandbox was denied last, the
\* sandbox no longer denies it for want of an entry.
THEOREM FromLogAllows == Spec => FromLogUnblocks
<1>1. ASSUME IInv, IInv', sb.on, sb.files = <<user, project>>, AllowFromLog,
             LastBlocked(Shown) = blocked
      PROVE  \/ Verdict(blocked)' \in {"whitelist", "blocklist", "empty-host"}
             \/ Misread(blocked.host)
  <2> SUFFICES ASSUME ~Misread(blocked.host)
               PROVE  Verdict(blocked)' \in {"whitelist", "blocklist", "empty-host"}
    OBVIOUS
  <2> DEFINE d == blocked
             v == Offered(d)
  <2>1. d # NoDest /\ Add(v) /\ blocked' = d
    BY <1>1 DEF AllowFromLog
  <2>2. d \in Dest /\ v \in Value /\ IsDest(d)
    BY <1>1, <2>1, ConfigAssumption DEF IInv
  <2>3. SandboxOK(sb) /\ sb'.on = sb.on /\ SandboxOK(sb')
    BY <1>1, <2>1, <2>2, AddInv DEF IInv
  <2>4. v \in sb'.strings.allow
    <3>1. CASE Contains(Global.allow, v)
      <4>1. sb' = sb
        BY <2>1, <3>1 DEF Add
      <4>2. IsFile(user) /\ IsFile(project) /\ IsFile(Absent)
        BY <1>1, ConfigAssumption DEF IInv, IsFile
      <4>3. /\ IsConfig(Global) /\ ToSet(Global.allow) = ToSet(Default.allow) \cup FileAllow(user)
        <5>1. FileAllow(Absent) = {}
          BY DEF FileAllow, Absent
        <5>2. /\ Settled(Global)
              /\ ToSet(Global.allow) = ToSet(Default.allow) \cup FileAllow(user) \cup FileAllow(Absent)
          BY <4>2, LoadLemma DEF Global
        <5>. QED
          BY <5>1, <5>2 DEF Settled
      <4>4. v \in ToSet(Global.allow)
        <5>1. Global.allow \in Seq(Value)
          BY <4>3 DEF IsConfig
        <5>. QED
          BY <3>1, <5>1, ToSetLemma
      <4>5. ToSet(Load(Default, user, project).allow) =
              ToSet(Default.allow) \cup FileAllow(user) \cup FileAllow(project)
        BY <4>2, LoadLemma
      <4>6. ToSet(Load(Default, user, project).allow) \subseteq sb.strings.allow
        <5>1. sb.files[1] = user /\ sb.files[2] = project
          BY <1>1
        <5>. QED
          BY <2>3, <5>1 DEF SandboxOK
      <4>. QED
        BY <4>1, <4>3, <4>4, <4>5, <4>6
    <3>2. CASE ~Contains(Global.allow, v)
      <4>1. sb' = Told(sb, v)
        BY <1>1, <2>1, <3>2 DEF Add, Told
      <4>. QED
        BY <2>2, <2>3, <4>1, ToldOK
    <3>. QED
      BY <3>1, <3>2
  <2> DEFINE S == sb'.strings.allow
             T == sb'.strings.deny
  <2>5. Verdict(blocked)' = Judged(S, T, d)
    BY <2>1, <2>3 DEF Verdict, Judged, SandboxOK
  <2>6. S \in SUBSET Value /\ T \in SUBSET Value
    BY <2>3 DEF SandboxOK
  <2>7. CASE d.host = Blank
    <3>1. Judged(S, T, d) = "empty-host"
      BY <2>2, <2>7 DEF Judged, Decision!Decide
    <3>. QED
      BY <2>5, <3>1
  <2>8. CASE d.host # Blank
    <3>1. v = d.host
      BY <2>8 DEF Offered
    <3>2. Denotes(v, d)
      BY <2>2, <2>8, <3>1, HostDenoted
    <3>3. v \in S \ {Blank} /\ d \in Meaning[v]
      BY <2>2, <2>4, <2>8, <3>1, <3>2 DEF Meaning
    <3>4. Judged(S, T, d) \in {"whitelist", "blocklist", "empty-host"}
      <4> HIDE DEF S, T, v
      <4>. QED
        BY <2>2, <2>6, <3>3, VerdictLemma
    <3>. QED
      BY <2>5, <3>4
  <2>. QED
    BY <2>7, <2>8
<1>2. IInv /\ IInv' /\ [Next]_vars =>
        [sb.on /\ sb.files = <<user, project>> /\ AllowFromLog /\ LastBlocked(Shown) = blocked =>
           \/ Verdict(blocked)' \in {"whitelist", "blocklist", "empty-host"}
           \/ Misread(blocked.host)]_vars
  BY <1>1
<1>. QED
  BY <1>2, AlwaysIInv, PTL DEF FromLogUnblocks, Spec

===============================================================================
