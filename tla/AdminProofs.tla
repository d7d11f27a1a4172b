---------------------------- MODULE AdminProofs ----------------------------
(***************************************************************************)
(* Theorems about Admin, for any number of handlers, targets, policies and *)
(* request bodies, names of any length, and any bounds: names belong to    *)
(* one target, an edit is made to the row that was read, retirement is     *)
(* final, a target fails its policy's check only after a race, the check   *)
(* decides as the DNS tree does, and no job leaves its policies.           *)
(***************************************************************************)
EXTENDS Admin, SequenceTheorems, FiniteSetTheorems, TLAPS

-----------------------------------------------------------------------------
(* Names: cutting, counting and normalising. *)

\* Where a name is cut into labels: before it, after it and at every dot.
Cuts(s) == {0, Len(s) + 1} \cup {k \in DOMAIN s : s[k] = Dot}
Adjacent(s, i, j) == i \in Cuts(s) /\ j \in Cuts(s) /\ i < j /\ \A k \in Cuts(s) : k <= i \/ k >= j

\* The labels that start before position i.
Before(B, i) == {c \in B : c[1] < i}

LEMMA CutsAreNaturals ==
  ASSUME NEW s \in Seq(Characters)
  PROVE  /\ Len(s) \in Nat /\ DOMAIN s = 1..Len(s)
         /\ Cuts(s) \subseteq 0..(Len(s) + 1)
         /\ 0 \in Cuts(s) /\ Len(s) + 1 \in Cuts(s)
         /\ \A k \in 1..Len(s) : k \in Cuts(s) <=> s[k] = Dot
<1>1. Len(s) \in Nat /\ DOMAIN s = 1..Len(s)
  BY LenProperties
<1> QED
  BY <1>1 DEF Cuts

LEMMA BoundsAre ==
  ASSUME NEW s \in Seq(Characters)
  PROVE  LabelBounds(s) = {b \in (1..Len(s) + 1) \X (0..Len(s)) : Adjacent(s, b[1] - 1, b[2] + 1)}
<1> DEFINE cuts == {0, Len(s) + 1} \cup {k \in DOMAIN s : s[k] = Dot}
           pairs == {d \in cuts \X cuts : d[1] < d[2] /\ \A k \in cuts : k <= d[1] \/ k >= d[2]}
           found == {b \in (1..Len(s) + 1) \X (0..Len(s)) : Adjacent(s, b[1] - 1, b[2] + 1)}
<1>1. LabelBounds(s) = {<<c[1] + 1, c[2] - 1>> : c \in pairs} /\ cuts = Cuts(s)
  BY DEF LabelBounds, Cuts
<1>2. Len(s) \in Nat /\ cuts \subseteq 0..(Len(s) + 1)
  BY <1>1, CutsAreNaturals
<1> HIDE DEF cuts
<1>3. ASSUME NEW c \in pairs PROVE <<c[1] + 1, c[2] - 1>> \in found
  <2>1. c[1] \in cuts /\ c[2] \in cuts /\ c[1] < c[2] /\ \A k \in cuts : k <= c[1] \/ k >= c[2]
    OBVIOUS
  <2>2. c[1] \in 0..(Len(s) + 1) /\ c[2] \in 0..(Len(s) + 1)
    BY <1>2, <2>1
  <2>3. <<c[1] + 1, c[2] - 1>> \in (1..Len(s) + 1) \X (0..Len(s))
    BY <1>2, <2>1, <2>2
  <2>4. (c[1] + 1) - 1 = c[1] /\ (c[2] - 1) + 1 = c[2]
    BY <2>2
  <2> QED
    BY <1>1, <2>1, <2>3, <2>4 DEF Adjacent
<1>4. ASSUME NEW b \in found PROVE b \in {<<c[1] + 1, c[2] - 1>> : c \in pairs}
  <2>1. b[1] \in Int /\ b[2] \in Int /\ b = <<b[1], b[2]>>
    BY <1>2
  <2>2. <<b[1] - 1, b[2] + 1>> \in pairs
    BY <1>1 DEF Adjacent
  <2>3. b = <<(b[1] - 1) + 1, (b[2] + 1) - 1>>
    BY <2>1
  <2> QED
    BY <2>2, <2>3
<1> QED
  BY <1>1, <1>3, <1>4

LEMMA BoundsFinite ==
  ASSUME NEW s \in Seq(Characters)
  PROVE  /\ IsFiniteSet(LabelBounds(s)) /\ Cardinality(LabelBounds(s)) \in Nat
         /\ \A b \in LabelBounds(s) : b[1] \in 1..Len(s) + 1 /\ b[2] \in 0..Len(s) /\ b = <<b[1], b[2]>>
         /\ \A b, c \in LabelBounds(s) : b[1] = c[1] => b = c
<1>1. Len(s) \in Nat
  BY LenProperties
<1>2. IsFiniteSet(1..Len(s) + 1) /\ IsFiniteSet(0..Len(s))
  BY <1>1, FS_Interval
<1>3. IsFiniteSet((1..Len(s) + 1) \X (0..Len(s)))
  BY <1>2, FS_Product
<1>4. IsFiniteSet(LabelBounds(s))
  <2>1. LabelBounds(s) \in SUBSET ((1..Len(s) + 1) \X (0..Len(s)))
    BY BoundsAre
  <2> QED
    BY <1>3, <2>1, FS_Subset
<1>5. \A b \in LabelBounds(s) :
        b[1] \in 1..Len(s) + 1 /\ b[2] \in 0..Len(s) /\ b = <<b[1], b[2]>> /\ Adjacent(s, b[1] - 1, b[2] + 1)
  BY BoundsAre
<1>6. ASSUME NEW b \in LabelBounds(s), NEW c \in LabelBounds(s), b[1] = c[1] PROVE b = c
  <2>1. b[2] + 1 = c[2] + 1
    <3>1. /\ b[2] \in 0..Len(s) /\ c[2] \in 0..Len(s) /\ b[1] \in Int
          /\ Adjacent(s, b[1] - 1, b[2] + 1) /\ Adjacent(s, b[1] - 1, c[2] + 1)
      BY <1>1, <1>5, <1>6
    <3>2. (c[2] + 1 >= b[2] + 1) /\ (b[2] + 1 >= c[2] + 1)
      BY <1>1, <3>1, SMT DEF Adjacent
    <3> QED
      BY <1>1, <3>1, <3>2
  <2> QED
    BY <1>1, <1>5, <1>6, <2>1
<1> QED
  BY <1>4, <1>5, <1>6, FS_CardinalityType

\* Every place from 0 up is taken by exactly one element.
LEMMA Ranks ==
  ASSUME NEW B, IsFiniteSet(B), \A b \in B : b[1] \in Int, \A b, c \in B : b[1] = c[1] => b = c
  PROVE  /\ \A b \in B : IsFiniteSet(Before(B, b[1])) /\ Cardinality(Before(B, b[1])) \in Nat
         /\ \A b, c \in B : Cardinality(Before(B, b[1])) = Cardinality(Before(B, c[1])) => b = c
         /\ \A k \in 1..Cardinality(B) : \E b \in B : Cardinality(Before(B, b[1])) = k - 1
<1> DEFINE n == Cardinality(B)
           rank == [b \in B |-> Cardinality(Before(B, b[1]))]
<1>1. n \in Nat
  BY FS_CardinalityType
<1>2. ASSUME NEW i PROVE IsFiniteSet(Before(B, i)) /\ Cardinality(Before(B, i)) \in Nat
  <2>1. Before(B, i) \in SUBSET B
    BY DEF Before
  <2>2. IsFiniteSet(Before(B, i))
    BY <2>1, FS_Subset
  <2> QED
    BY <2>2, FS_CardinalityType
<1>3. ASSUME NEW b \in B PROVE Cardinality(Before(B, b[1])) \in 0..n - 1
  <2>1. Before(B, b[1]) \in SUBSET B
    BY DEF Before
  <2>2. b \notin Before(B, b[1])
    BY DEF Before
  <2>3. Cardinality(Before(B, b[1])) <= n /\ Cardinality(Before(B, b[1])) # n
    BY <2>1, <2>2, FS_Subset
  <2> QED
    BY <1>1, <1>2, <2>3
<1>4. ASSUME NEW b \in B, NEW c \in B, b[1] < c[1]
      PROVE  Cardinality(Before(B, b[1])) < Cardinality(Before(B, c[1]))
  <2>1. Before(B, b[1]) \in SUBSET Before(B, c[1])
    BY <1>4 DEF Before
  <2>2. b \in Before(B, c[1]) /\ b \notin Before(B, b[1])
    BY <1>4 DEF Before
  <2>3. /\ Cardinality(Before(B, b[1])) <= Cardinality(Before(B, c[1]))
        /\ Cardinality(Before(B, b[1])) # Cardinality(Before(B, c[1]))
    BY <1>2, <2>1, <2>2, FS_Subset
  <2> QED
    BY <1>2, <2>3
<1>5. ASSUME NEW b \in B, NEW c \in B, Cardinality(Before(B, b[1])) = Cardinality(Before(B, c[1]))
      PROVE  b = c
  <2>1. ~(b[1] < c[1]) /\ ~(c[1] < b[1])
    BY <1>2, <1>4, <1>5
  <2> QED
    BY <2>1
<1>6. rank \in Injection(B, 0..n - 1)
  <2>1. rank \in [B -> 0..n - 1]
    BY <1>3
  <2>2. \A b, c \in B : rank[b] = rank[c] => b = c
    BY <1>5
  <2> HIDE DEF rank
  <2> QED
    BY <2>1, <2>2 DEF Injection, IsInjective
<1>7. IsFiniteSet(0..n - 1) /\ Cardinality(0..n - 1) = n
  BY <1>1, FS_Interval
<1>8. rank \in Surjection(B, 0..n - 1)
  <2> HIDE DEF rank
  <2> QED
    BY <1>6, <1>7, FS_Injection
<1>9. ASSUME NEW k \in 1..n PROVE \E b \in B : Cardinality(Before(B, b[1])) = k - 1
  <2>1. k - 1 \in 0..n - 1
    BY <1>1
  <2>2. PICK b \in B : rank[b] = k - 1
    <3> HIDE DEF rank
    <3> QED
      BY <1>8, <2>1 DEF Surjection
  <2> QED
    BY <2>2
<1> QED
  BY <1>2, <1>5, <1>9

\* The labels are a sequence, and a label's place is how many start before it.
LEMMA LabelsAre ==
  ASSUME NEW s \in Seq(Characters)
  PROVE  /\ LabelsOf(s) \in Seq(Seq(Characters))
         /\ Len(LabelsOf(s)) = Cardinality(LabelBounds(s))
         /\ \A k \in 1..Cardinality(LabelBounds(s)), b \in LabelBounds(s) :
              Cardinality(Before(LabelBounds(s), b[1])) = k - 1 => LabelsOf(s)[k] = SubSeq(s, b[1], b[2])
<1> DEFINE B == LabelBounds(s)
           n == Cardinality(B)
           Nth(k) == CHOOSE b \in B : Cardinality(Before(B, b[1])) = k - 1
<1>1. /\ IsFiniteSet(B) /\ n \in Nat
      /\ \A b \in B : b[1] \in 1..Len(s) + 1 /\ b[2] \in 0..Len(s)
      /\ \A b, c \in B : b[1] = c[1] => b = c
  BY BoundsFinite
<1>2. Len(s) \in Nat /\ \A i \in 1..Len(s) : s[i] \in Characters
  BY LenProperties, ElementOfSeq
<1>3. LabelsOf(s) = [k \in 1..n |-> SubSeq(s, Nth(k)[1], Nth(k)[2])]
  BY DEF LabelsOf, Before
<1> HIDE DEF B, n
<1>4. \A b \in B : b[1] \in Int
  BY <1>1, <1>2
<1>5. /\ \A k \in 1..n : \E b \in B : Cardinality(Before(B, b[1])) = k - 1
      /\ \A b, c \in B : Cardinality(Before(B, b[1])) = Cardinality(Before(B, c[1])) => b = c
  BY <1>1, <1>4, Ranks DEF n
<1>6. ASSUME NEW k \in 1..n
      PROVE  /\ Nth(k) \in B
             /\ \A b \in B : Cardinality(Before(B, b[1])) = k - 1 => b = Nth(k)
  <2>1. Nth(k) \in B /\ Cardinality(Before(B, Nth(k)[1])) = k - 1
    BY <1>5
  <2> HIDE DEF Nth
  <2> QED
    BY <1>5, <2>1
<1> HIDE DEF Nth
<1>7. ASSUME NEW k \in 1..n PROVE SubSeq(s, Nth(k)[1], Nth(k)[2]) \in Seq(Characters)
  <2>1. Nth(k)[1] \in 1..Len(s) + 1 /\ Nth(k)[2] \in 0..Len(s)
    BY <1>1, <1>6
  <2>2. \A i \in Nth(k)[1]..Nth(k)[2] : s[i] \in Characters
    BY <1>2, <2>1
  <2> QED
    BY <1>2, <2>1, <2>2, SubSeqProperties
<1>8. LabelsOf(s) \in [1..n -> Seq(Characters)]
  BY <1>3, <1>7
<1>9. LabelsOf(s) \in Seq(Seq(Characters))
  BY <1>1, <1>8, SeqDef
<1>10. Len(LabelsOf(s)) = n
  <2>1. DOMAIN LabelsOf(s) = 1..Len(LabelsOf(s)) /\ Len(LabelsOf(s)) \in Nat
    BY <1>9, LenProperties
  <2>2. DOMAIN LabelsOf(s) = 1..n
    BY <1>3
  <2>3. \A j \in Nat : Cardinality(1..j) = j
    <3> SUFFICES ASSUME NEW j \in Nat PROVE Cardinality(1..j) = j
      OBVIOUS
    <3>1. Cardinality(1..j) = IF 1 > j THEN 0 ELSE j - 1 + 1
      BY FS_Interval
    <3> QED
      BY <3>1
  <2> QED
    BY <1>1, <2>1, <2>2, <2>3
<1>11. ASSUME NEW k \in 1..n, NEW b \in B, Cardinality(Before(B, b[1])) = k - 1
       PROVE  LabelsOf(s)[k] = SubSeq(s, b[1], b[2])
  BY <1>3, <1>6, <1>11
<1> QED
  BY <1>9, <1>10, <1>11 DEF B, n

LEMMA Smallest ==
  ASSUME NEW T, T \subseteq Nat, T # {}
  PROVE  \E x \in T : \A y \in T : x <= y
<1>1. PICK x \in T : \A y \in T : ~(<<y, x>> \in OpToRel(<, Nat))
  BY NatLessThanWellFounded, WFMin
<1>2. \A y \in T : ~(y < x)
  BY <1>1 DEF OpToRel
<1> QED
  BY <1>2

LEMMA Largest ==
  ASSUME NEW T, NEW n \in Nat, T \subseteq 0..n, T # {}
  PROVE  \E x \in T : \A y \in T : y <= x
<1> DEFINE U == {n - y : y \in T}
<1>1. U \subseteq Nat /\ U # {}
  <2>1. \A y \in T : n - y \in Nat
    OBVIOUS
  <2> QED
    BY <2>1
<1>2. PICK u \in U : \A v \in U : u <= v
  <2> HIDE DEF U
  <2> QED
    BY <1>1, Smallest
<1>3. PICK x \in T : u = n - x
  OBVIOUS
<1>4. \A y \in T : n - x <= n - y
  BY <1>2, <1>3
<1> QED
  BY <1>4

LEMMA FirstLabel ==
  ASSUME NEW s \in Seq(Characters)
  PROVE  \E m \in 1..Len(s) + 1 :
           /\ m \in Cuts(s) /\ \A k \in Cuts(s) : k = 0 \/ k >= m
           /\ <<1, m - 1>> \in LabelBounds(s)
           /\ Cardinality(LabelBounds(s)) >= 1
           /\ LabelsOf(s)[1] = SubSeq(s, 1, m - 1)
<1>1. /\ Len(s) \in Nat /\ Cuts(s) \subseteq 0..(Len(s) + 1)
      /\ 0 \in Cuts(s) /\ Len(s) + 1 \in Cuts(s)
  BY CutsAreNaturals
<1>2. PICK m \in Cuts(s) \ {0} : \A k \in Cuts(s) \ {0} : m <= k
  <2>1. Cuts(s) \ {0} \subseteq Nat /\ Cuts(s) \ {0} # {}
    BY <1>1
  <2> QED
    BY <2>1, Smallest
<1>3. m \in 1..Len(s) + 1 /\ \A k \in Cuts(s) : k = 0 \/ k >= m
  BY <1>1, <1>2
<1>4. Adjacent(s, 0, m)
  BY <1>1, <1>2, <1>3 DEF Adjacent
<1> DEFINE b == <<1, m - 1>>
<1>5. b \in LabelBounds(s)
  <2>1. b \in (1..Len(s) + 1) \X (0..Len(s))
    BY <1>1, <1>3
  <2>2. b[1] - 1 = 0 /\ b[2] + 1 = m
    BY <1>3
  <2> QED
    BY <1>4, <2>1, <2>2, BoundsAre
<1>6. Cardinality(Before(LabelBounds(s), 1)) = 0
  <2>1. \A c \in LabelBounds(s) : c[1] \in 1..Len(s) + 1
    BY BoundsFinite
  <2>2. Before(LabelBounds(s), 1) = {}
    BY <1>1, <2>1 DEF Before
  <2> QED
    BY <2>2, FS_EmptySet
<1>7. Cardinality(LabelBounds(s)) \in Nat /\ Cardinality(LabelBounds(s)) # 0
  BY <1>5, BoundsFinite, FS_EmptySet
<1>8. LabelsOf(s)[1] = SubSeq(s, b[1], b[2])
  <2>1. 1 \in 1..Cardinality(LabelBounds(s)) /\ b[1] = 1
    BY <1>7
  <2>2. Cardinality(Before(LabelBounds(s), b[1])) = 1 - 1
    BY <1>6, <2>1
  <2> HIDE DEF b
  <2> QED
    BY <1>5, <2>1, <2>2, LabelsAre
<1>9. LabelsOf(s)[1] = SubSeq(s, 1, m - 1)
  BY <1>8
<1>10. <<1, m - 1>> \in LabelBounds(s) /\ Cardinality(LabelBounds(s)) >= 1
  BY <1>5, <1>7
<1> QED
  BY <1>2, <1>3, <1>9, <1>10

LEMMA LastLabel ==
  ASSUME NEW s \in Seq(Characters)
  PROVE  \E m \in 0..Len(s) :
           m \in Cuts(s) /\ <<m + 1, Len(s)>> \in LabelBounds(s) /\ \A k \in m + 1..Len(s) : k \notin Cuts(s)
<1>1. /\ Len(s) \in Nat /\ Cuts(s) \subseteq 0..(Len(s) + 1)
      /\ 0 \in Cuts(s) /\ Len(s) + 1 \in Cuts(s)
  BY CutsAreNaturals
<1>2. PICK m \in Cuts(s) \ {Len(s) + 1} : \A k \in Cuts(s) \ {Len(s) + 1} : k <= m
  <2>1. Cuts(s) \ {Len(s) + 1} \subseteq 0..Len(s) /\ Cuts(s) \ {Len(s) + 1} # {}
    BY <1>1
  <2> QED
    BY <1>1, <2>1, Largest
<1>3. m \in 0..Len(s) /\ \A k \in Cuts(s) : k = Len(s) + 1 \/ k <= m
  BY <1>1, <1>2
<1>4. Adjacent(s, m, Len(s) + 1)
  BY <1>1, <1>2, <1>3 DEF Adjacent
<1> DEFINE b == <<m + 1, Len(s)>>
<1>5. b \in LabelBounds(s)
  <2>1. b \in (1..Len(s) + 1) \X (0..Len(s))
    BY <1>1, <1>3
  <2>2. b[1] - 1 = m /\ b[2] + 1 = Len(s) + 1
    BY <1>1, <1>3
  <2> QED
    BY <1>4, <2>1, <2>2, BoundsAre
<1>6. \A k \in m + 1..Len(s) : k \notin Cuts(s)
  BY <1>1, <1>3
<1> QED
  BY <1>2, <1>3, <1>5, <1>6

LEMMA OneOrTwo ==
  ASSUME NEW l
  PROVE  /\ \A c : l = <<c>> => Len(l) = 1 /\ l[1] = c
         /\ \A c, d : l = <<c, d>> => l[1] = c /\ l[2] = d
OBVIOUS

LEMMA ShortSequences ==
  ASSUME NEW S, NEW l \in Seq(S)
  PROVE  /\ Len(l) = 1 => l = <<l[1]>>
         /\ Len(l) = 2 => l = <<l[1], l[2]>>
<1>1. l \in [1..Len(l) -> S]
  BY LenProperties
<1>2. ASSUME Len(l) = 1 PROVE l = <<l[1]>>
  <2>1. <<l[1]>> \in Seq(S) /\ Len(<<l[1]>>) = 1
    BY <1>1, <1>2
  <2> QED
    BY <1>2, <2>1, SeqEqual
<1>3. ASSUME Len(l) = 2 PROVE l = <<l[1], l[2]>>
  <2>1. <<l[1], l[2]>> \in Seq(S) /\ Len(<<l[1], l[2]>>) = 2
    BY <1>1, <1>3
  <2> QED
    BY <1>3, <2>1, SeqEqual
<1> QED
  BY <1>2, <1>3

\* The characters of a part of a name.
LEMMA Part ==
  ASSUME NEW s \in Seq(Characters), NEW i \in 1..Len(s) + 1, NEW j \in 0..Len(s)
  PROVE  /\ SubSeq(s, i, j) \in Seq(Characters)
         /\ Len(SubSeq(s, i, j)) = IF i <= j THEN j - i + 1 ELSE 0
         /\ \A k \in 1..j - i + 1 : SubSeq(s, i, j)[k] = s[i + k - 1]
<1>1. Len(s) \in Nat /\ \A k \in 1..Len(s) : s[k] \in Characters
  BY LenProperties, ElementOfSeq
<1>2. i \in Int /\ j \in Int /\ \A k \in i..j : s[k] \in Characters
  BY <1>1
<1> QED
  BY <1>2, SubSeqProperties

\* The first label of a well-formed name is the wildcard exactly if the name starts with "*.".
LEMMA WildcardLabel ==
  ASSUME NEW s \in Seq(Characters), WellFormed(s)
  PROVE  LabelsOf(s)[1] = <<Wildcard>> <=> IsWildcard(s)
<1>1. /\ Len(s) \in Nat /\ \A k \in 1..Len(s) : k \in Cuts(s) <=> s[k] = Dot
      /\ Cuts(s) \subseteq 0..(Len(s) + 1)
  BY CutsAreNaturals
<1>2. PICK m \in 1..Len(s) + 1 :
        /\ m \in Cuts(s) /\ \A k \in Cuts(s) : k = 0 \/ k >= m
        /\ <<1, m - 1>> \in LabelBounds(s)
        /\ LabelsOf(s)[1] = SubSeq(s, 1, m - 1)
  BY FirstLabel
<1>3. /\ SubSeq(s, 1, m - 1) \in Seq(Characters)
      /\ Len(SubSeq(s, 1, m - 1)) = m - 1
      /\ \A k \in 1..m - 1 : SubSeq(s, 1, m - 1)[k] = s[k]
  <2>1. 1 \in 1..Len(s) + 1 /\ m - 1 \in 0..Len(s)
    BY <1>1
  <2>2. /\ SubSeq(s, 1, m - 1) \in Seq(Characters)
        /\ Len(SubSeq(s, 1, m - 1)) = IF 1 <= m - 1 THEN m - 1 - 1 + 1 ELSE 0
        /\ \A k \in 1..m - 1 - 1 + 1 : SubSeq(s, 1, m - 1)[k] = s[1 + k - 1]
    BY <2>1, Part
  <2>3. m - 1 - 1 + 1 = m - 1 /\ \A k \in 1..m - 1 : 1 + k - 1 = k
    BY <1>1
  <2> QED
    BY <1>1, <2>2, <2>3
<1>4. Wildcard # Dot
  BY DEF Wildcard, Dot
<1>5. ASSUME IsWildcard(s) PROVE LabelsOf(s)[1] = <<Wildcard>>
  <2>1. Len(s) >= 2 /\ s[1] = Wildcard /\ s[2] = Dot
    <3>1. Len(s) >= 2 /\ SubSeq(s, 1, 2) = <<Wildcard, Dot>>
      BY <1>5 DEF IsWildcard
    <3>2. \A k \in 1..2 - 1 + 1 : SubSeq(s, 1, 2)[k] = s[1 + k - 1]
      BY <1>1, <3>1, Part
    <3>3. SubSeq(s, 1, 2)[1] = s[1] /\ SubSeq(s, 1, 2)[2] = s[2]
      BY <3>2
    <3>4. SubSeq(s, 1, 2)[1] = Wildcard /\ SubSeq(s, 1, 2)[2] = Dot
      BY <3>1, OneOrTwo
    <3> QED
      BY <3>1, <3>3, <3>4
  <2>2. 2 \in Cuts(s) /\ 1 \notin Cuts(s)
    BY <1>1, <1>4, <2>1
  <2>3. m = 2
    BY <1>1, <1>2, <2>2
  <2>4. Len(SubSeq(s, 1, m - 1)) = 1 /\ SubSeq(s, 1, m - 1)[1] = Wildcard
    BY <1>3, <2>1, <2>3
  <2>5. SubSeq(s, 1, m - 1) = <<SubSeq(s, 1, m - 1)[1]>>
    BY <1>3, <2>4, ShortSequences
  <2> QED
    BY <1>2, <2>4, <2>5
<1>6. ASSUME LabelsOf(s)[1] = <<Wildcard>> PROVE IsWildcard(s)
  <2>1. m = 2 /\ s[1] = Wildcard
    <3>1. SubSeq(s, 1, m - 1) = <<Wildcard>>
      BY <1>2, <1>6
    <3>2. Len(SubSeq(s, 1, m - 1)) = 1 /\ SubSeq(s, 1, m - 1)[1] = Wildcard
      BY <3>1, OneOrTwo
    <3>3. m = 2
      BY <1>3, <3>2
    <3> QED
      BY <1>3, <3>2, <3>3
  <2>2. Len(s) # 1
    <3> SUFFICES ASSUME Len(s) = 1 PROVE FALSE
      OBVIOUS
    <3>1. Cuts(s) \subseteq {0, 2}
      BY <1>1, <1>4, <2>1
    <3>2. LabelBounds(s) \subseteq {<<1, 1>>}
      <4> SUFFICES ASSUME NEW b \in LabelBounds(s) PROVE b = <<1, 1>>
        OBVIOUS
      <4>1. /\ b[1] \in 1..2 /\ b[2] \in 0..1 /\ b = <<b[1], b[2]>>
        BY BoundsFinite
      <4>2. b[1] - 1 \in Cuts(s) /\ b[2] + 1 \in Cuts(s) /\ b[1] - 1 < b[2] + 1
        BY BoundsAre DEF Adjacent
      <4>3. b[1] = 1 /\ b[2] = 1
        BY <3>1, <4>1, <4>2
      <4> QED
        BY <4>1, <4>3
    <3>3. Cardinality(LabelBounds(s)) <= 1
      <4>1. IsFiniteSet({<<1, 1>>}) /\ Cardinality({<<1, 1>>}) = 1
        BY FS_Singleton
      <4>2. LabelBounds(s) \in SUBSET {<<1, 1>>}
        BY <3>2
      <4> QED
        BY <4>1, <4>2, FS_Subset
    <3>4. Cardinality(LabelBounds(s)) >= 2 /\ Cardinality(LabelBounds(s)) \in Nat
      BY BoundsFinite DEF WellFormed
    <3> QED
      BY <3>3, <3>4
  <2>3. Len(s) >= 2 /\ s[2] = Dot
    <3>1. 2 \in Cuts(s) /\ 2 \in 1..Len(s) + 1
      BY <1>2, <2>1
    <3>2. Len(s) >= 2
      <4> DEFINE n == Len(s)
      <4>1. n \in Nat /\ n # 1 /\ 2 <= n + 1
        BY <1>1, <2>2, <3>1
      <4> HIDE DEF n
      <4>2. n >= 2
        BY <4>1
      <4> QED
        BY <4>2 DEF n
    <3> QED
      BY <1>1, <3>1, <3>2
  <2>4. SubSeq(s, 1, 2) = <<Wildcard, Dot>>
    <3>1. /\ SubSeq(s, 1, 2) \in Seq(Characters)
          /\ Len(SubSeq(s, 1, 2)) = IF 1 <= 2 THEN 2 - 1 + 1 ELSE 0
          /\ \A k \in 1..2 - 1 + 1 : SubSeq(s, 1, 2)[k] = s[1 + k - 1]
      BY <1>1, <2>3, Part
    <3>2. Len(SubSeq(s, 1, 2)) = 2 /\ SubSeq(s, 1, 2)[1] = s[1] /\ SubSeq(s, 1, 2)[2] = s[2]
      BY <3>1
    <3>3. SubSeq(s, 1, 2) = <<SubSeq(s, 1, 2)[1], SubSeq(s, 1, 2)[2]>>
      BY <3>1, <3>2, ShortSequences
    <3> QED
      BY <2>1, <2>3, <3>2, <3>3
  <2> QED
    BY <2>3, <2>4 DEF IsWildcard
<1> QED
  BY <1>5, <1>6

LEMMA Trim ==
  ASSUME NEW x \in Seq(Characters)
  PROVE  /\ TrimSpace(x) \in Seq(Characters)
         /\ TrimSpace(x) # <<>> => TrimSpace(x)[1] # Space
         /\ x # <<>> /\ x[1] # Space /\ x[Len(x)] # Space => TrimSpace(x) = x
         /\ x = <<>> => TrimSpace(x) = <<>>
<1> DEFINE solid == {i \in DOMAIN x : x[i] # Space}
           first == CHOOSE i \in solid : \A j \in solid : i <= j
           last == CHOOSE i \in solid : \A j \in solid : i >= j
<1>1. /\ Len(x) \in Nat /\ DOMAIN x = 1..Len(x) /\ (x = <<>> <=> Len(x) = 0)
      /\ solid \subseteq 1..Len(x)
  BY LenProperties, EmptySeq
<1>2. TrimSpace(x) = IF solid = {} THEN <<>> ELSE SubSeq(x, first, last)
  BY DEF TrimSpace
<1>3. CASE solid = {}
  <2>1. TrimSpace(x) = <<>>
    BY <1>2, <1>3
  <2>2. x # <<>> => x[1] = Space
    BY <1>1, <1>3
  <2> QED
    BY <2>1, <2>2, EmptySeq
<1>4. CASE solid # {}
  <2> HIDE DEF solid
  <2>1. \E i \in solid : \A j \in solid : i <= j
    <3>1. solid \subseteq Nat
      BY <1>1
    <3> QED
      BY <1>4, <3>1, Smallest
  <2>2. \E i \in solid : \A j \in solid : i >= j
    <3>1. solid \subseteq 0..Len(x)
      BY <1>1
    <3>2. PICK i \in solid : \A j \in solid : j <= i
      BY <1>1, <1>4, <3>1, Largest
    <3>3. \A j \in solid : i >= j
      BY <1>1, <3>2
    <3> QED
      BY <3>3
  <2>3. first \in solid /\ \A j \in solid : first <= j
    BY <2>1
  <2>4. last \in solid /\ \A j \in solid : last >= j
    BY <2>2
  <2> HIDE DEF first, last
  <2>5. first \in 1..Len(x) + 1 /\ last \in 0..Len(x) /\ first \in Int /\ last \in Int /\ first <= last
    BY <1>1, <2>3, <2>4
  <2>6. /\ SubSeq(x, first, last) \in Seq(Characters)
        /\ \A k \in 1..last - first + 1 : SubSeq(x, first, last)[k] = x[first + k - 1]
    BY <2>5, Part
  <2>7. SubSeq(x, first, last)[1] = x[first]
    <3>1. 1 \in 1..last - first + 1 /\ first + 1 - 1 = first
      BY <2>5
    <3> QED
      BY <2>6, <3>1
  <2>8. x[first] # Space
    BY <2>3 DEF solid
  <2>9. ASSUME x # <<>>, x[1] # Space, x[Len(x)] # Space PROVE SubSeq(x, first, last) = x
    <3>1. 1 \in solid /\ Len(x) \in solid
      BY <1>1, <2>9 DEF solid
    <3>2. first = 1 /\ last = Len(x)
      <4> DEFINE n == Len(x)
      <4>1. n \in Nat /\ first \in 1..n + 1 /\ last \in 0..n /\ first <= 1 /\ last >= n
        BY <1>1, <2>3, <2>4, <2>5, <3>1
      <4> HIDE DEF n
      <4>2. first = 1 /\ last = n
        BY <4>1
      <4> QED
        BY <4>2 DEF n
    <3> QED
      BY <3>2, SubSeqFull
  <2>10. x # <<>>
    BY <1>1, <2>3
  <2> QED
    BY <1>2, <1>4, <2>6, <2>7, <2>8, <2>9, <2>10
<1> QED
  BY <1>3, <1>4

LEMMA Lower ==
  ASSUME NEW c
  PROVE  /\ ToLower(ToLower(c)) = ToLower(c)
         /\ c \in Characters => ToLower(c) \in Characters
         /\ c # Space => ToLower(c) # Space
         /\ c \notin NonASCII => ToLower(c) \notin NonASCII
<1>1. CASE c = "A"
  BY <1>1 DEF ToLower, Characters, Letters, Space, NonASCII
<1>2. CASE c = "B"
  BY <1>2 DEF ToLower, Characters, Letters, Space, NonASCII
<1>3. CASE c # "A" /\ c # "B"
  BY <1>3 DEF ToLower
<1> QED
  BY <1>1, <1>2, <1>3

\* A well-formed name ends in a character of a label.
LEMMA WellFormedEnd ==
  ASSUME NEW s \in Seq(Characters), WellFormed(s)
  PROVE  s # <<>> /\ Len(s) \in Nat \ {0} /\ s[Len(s)] # Dot /\ s[Len(s)] # Space
<1> DEFINE n == Len(s)
<1>1. s # <<>> /\ n \in Nat \ {0} /\ (\A k \in 1..n : k \in Cuts(s) <=> s[k] = Dot)
  BY CutsAreNaturals, EmptySeq DEF WellFormed
<1>2. PICK m \in 0..n : m \in Cuts(s) /\ <<m + 1, n>> \in LabelBounds(s) /\ \A k \in m + 1..n : k \notin Cuts(s)
  BY LastLabel
<1> DEFINE l == SubSeq(s, m + 1, n)
<1>3. /\ l \in Seq(Characters) /\ Len(l) = n - m
      /\ \A k \in 1..n - m : l[k] = s[m + k]
  <2>1. m + 1 \in 1..n + 1 /\ n \in 0..n
    BY <1>1
  <2>2. /\ l \in Seq(Characters) /\ Len(l) = IF m + 1 <= n THEN n - (m + 1) + 1 ELSE 0
        /\ \A k \in 1..n - (m + 1) + 1 : l[k] = s[(m + 1) + k - 1]
    BY <2>1, Part
  <2> HIDE DEF n
  <2>3. /\ n - (m + 1) + 1 = n - m /\ \A k \in 1..n - m : (m + 1) + k - 1 = m + k
        /\ (IF m + 1 <= n THEN n - (m + 1) + 1 ELSE 0) = n - m
    BY <1>1
  <2> HIDE DEF l
  <2> QED
    BY <2>2, <2>3
<1>4. l = <<Wildcard>> \/ ValidLabel(l)
  <2> DEFINE b == <<m + 1, n>>
  <2>1. b \in LabelBounds(s) /\ b[1] = m + 1 /\ b[2] = n
    BY <1>2
  <2> HIDE DEF b
  <2>2. \/ SubSeq(s, b[1], b[2]) = <<Wildcard>>
        \/ ValidLabel(SubSeq(s, b[1], b[2]))
    BY <2>1, Zenon DEF WellFormed
  <2> QED
    BY <2>1, <2>2
<1> HIDE DEF l
<1>5. l # <<>> /\ l[Len(l)] # Space
  <2>1. CASE l = <<Wildcard>>
    <3>1. Len(l) = 1 /\ l[1] = Wildcard
      BY <2>1, OneOrTwo
    <3>2. l[Len(l)] = Wildcard /\ l # <<>>
      BY <2>1, <3>1
    <3> QED
      BY <3>2 DEF Wildcard, Space
  <2>2. CASE ValidLabel(l)
    <3>1. l # <<>> /\ \A k \in DOMAIN l : l[k] \in Letters \cup Digits \cup {Hyphen}
      BY <2>2 DEF ValidLabel
    <3>2. Len(l) \in DOMAIN l
      BY <1>3, <3>1, LenProperties, EmptySeq
    <3> QED
      BY <3>1, <3>2 DEF Letters, Digits, Hyphen, Space
  <2> QED
    BY <1>4, <2>1, <2>2
<1>6. n - m # 0
  BY <1>3, <1>5, EmptySeq
<1> HIDE DEF n
<1>7. n \in m + 1..n /\ n - m \in 1..n - m /\ m + (n - m) = n
  BY <1>1, <1>3, <1>6
<1>8. s[n] = l[Len(l)] /\ n \notin Cuts(s)
  BY <1>2, <1>3, <1>7
<1> QED
  BY <1>1, <1>5, <1>8 DEF n

\* The steps of NormalizeFQDN.
Lowered(x) == [i \in DOMAIN TrimSpace(x) |-> ToLower(TrimSpace(x)[i])]
Undotted(l) == IF Len(l) > 0 /\ l[Len(l)] = Dot THEN SubSeq(l, 1, Len(l) - 1) ELSE l
ASCII(x) == \A i \in DOMAIN TrimSpace(x) : TrimSpace(x)[i] \notin NonASCII

LEMMA NormalizeSteps ==
  ASSUME NEW x
  PROVE  NormalizeFQDN(x) = IF ASCII(x) /\ WellFormed(Undotted(Lowered(x))) THEN Undotted(Lowered(x)) ELSE Refused
BY DEF NormalizeFQDN, ASCII, Undotted, Lowered

LEMMA LoweredIs ==
  ASSUME NEW x \in Seq(Characters)
  PROVE  /\ Lowered(x) \in Seq(Characters) /\ Len(Lowered(x)) = Len(TrimSpace(x))
         /\ \A i \in 1..Len(TrimSpace(x)) : Lowered(x)[i] = ToLower(TrimSpace(x)[i])
<1> DEFINE t == TrimSpace(x)
           n == Len(t)
<1>1. t \in Seq(Characters)
  BY Trim
<1> HIDE DEF t
<1>2. n \in Nat /\ DOMAIN t = 1..n /\ \A i \in 1..n : t[i] \in Characters
  BY <1>1, LenProperties, ElementOfSeq
<1> HIDE DEF n
<1>3. Lowered(x) = [i \in 1..n |-> ToLower(t[i])]
  BY <1>2 DEF Lowered, t
<1>4. \A i \in 1..n : ToLower(t[i]) \in Characters
  BY <1>2, Lower
<1>5. Lowered(x) \in [1..n -> Characters]
  BY <1>3, <1>4
<1>6. Lowered(x) \in Seq(Characters)
  BY <1>2, <1>5, SeqDef
<1>7. Len(Lowered(x)) = n
  <2>1. Len(Lowered(x)) \in Nat /\ DOMAIN Lowered(x) = 1..Len(Lowered(x))
    BY <1>6, LenProperties
  <2>2. DOMAIN Lowered(x) = 1..n
    BY <1>5
  <2> DEFINE k == Len(Lowered(x))
  <2> HIDE DEF k
  <2>3. k \in Nat /\ 1..k = 1..n
    BY <2>1, <2>2 DEF k
  <2>4. k = n
    BY <1>2, <2>3
  <2> QED
    BY <2>4 DEF k
<1> QED
  BY <1>3, <1>6, <1>7 DEF n, t

LEMMA UndottedIs ==
  ASSUME NEW l \in Seq(Characters)
  PROVE  /\ Undotted(l) \in Seq(Characters)
         /\ Len(Undotted(l)) <= Len(l)
         /\ \A i \in 1..Len(Undotted(l)) : Undotted(l)[i] = l[i]
<1> DEFINE n == Len(l)
<1>1. n \in Nat
  BY LenProperties
<1>2. CASE n > 0 /\ l[n] = Dot
  <2>1. Undotted(l) = SubSeq(l, 1, n - 1)
    BY <1>2 DEF Undotted
  <2>2. 1 \in 1..n + 1 /\ n - 1 \in 0..n
    BY <1>1, <1>2
  <2>3. /\ SubSeq(l, 1, n - 1) \in Seq(Characters)
        /\ Len(SubSeq(l, 1, n - 1)) = IF 1 <= n - 1 THEN n - 1 - 1 + 1 ELSE 0
        /\ \A k \in 1..n - 1 - 1 + 1 : SubSeq(l, 1, n - 1)[k] = l[1 + k - 1]
    BY <2>2, Part
  <2> HIDE DEF n
  <2>4. /\ (IF 1 <= n - 1 THEN n - 1 - 1 + 1 ELSE 0) = n - 1
        /\ n - 1 - 1 + 1 = n - 1 /\ \A k \in 1..n - 1 : 1 + k - 1 = k
        /\ n - 1 <= n
    BY <1>1, <1>2
  <2>5. /\ Undotted(l) \in Seq(Characters) /\ Len(Undotted(l)) = n - 1
        /\ \A k \in 1..n - 1 : Undotted(l)[k] = l[k]
    BY <2>1, <2>3, <2>4
  <2> QED
    BY <2>4, <2>5 DEF n
<1>3. CASE ~(n > 0 /\ l[n] = Dot)
  BY <1>1, <1>3 DEF Undotted
<1> QED
  BY <1>2, <1>3

\* Normalising twice is normalising once, for whatever a request carries.
LEMMA NormalForm ==
  ASSUME NEW x \in Seq(Characters)
  PROVE  /\ NormalizeFQDN(x) \in Seq(Characters)
         /\ NormalizeFQDN(x) # Refused => WellFormed(NormalizeFQDN(x))
         /\ NormalizeFQDN(NormalizeFQDN(x)) = NormalizeFQDN(x)
<1> DEFINE t == TrimSpace(x)
           l == Lowered(x)
           s == Undotted(l)
<1>1. t \in Seq(Characters) /\ (t # <<>> => t[1] # Space)
  BY Trim
<1>2. l \in Seq(Characters) /\ Len(l) = Len(t) /\ \A i \in 1..Len(t) : l[i] = ToLower(t[i])
  BY LoweredIs
<1>3. s \in Seq(Characters) /\ Len(s) <= Len(l) /\ \A i \in 1..Len(s) : s[i] = l[i]
  <2> HIDE DEF l
  <2> QED
    BY <1>2, UndottedIs
<1>4. NormalizeFQDN(x) = IF ASCII(x) /\ WellFormed(s) THEN s ELSE Refused
  BY NormalizeSteps
<1>5. Len(s) \in Nat /\ Len(t) \in Nat /\ DOMAIN t = 1..Len(t)
  BY <1>1, <1>3, LenProperties
<1>6. NormalizeFQDN(Refused) = Refused
  <2>1. Refused \in Seq(Characters) /\ TrimSpace(Refused) = Refused /\ Len(Refused) = 0
    BY Trim, EmptySeq DEF Refused
  <2>2. Lowered(Refused) \in Seq(Characters) /\ Len(Lowered(Refused)) = 0
    BY <2>1, LoweredIs
  <2>3. Undotted(Lowered(Refused)) = Lowered(Refused)
    BY <2>2 DEF Undotted
  <2>4. Lowered(Refused) = Refused
    BY <2>2, EmptySeq DEF Refused
  <2> QED
    BY <2>3, <2>4, NormalizeSteps
<1>7. ASSUME ASCII(x), WellFormed(s) PROVE NormalizeFQDN(s) = s
  <2> HIDE DEF t, l, s
  <2>1. s # <<>> /\ Len(s) \in Nat \ {0} /\ s[Len(s)] # Dot /\ s[Len(s)] # Space
    BY <1>3, <1>7, WellFormedEnd
  <2>2. \A i \in 1..Len(s) : s[i] = ToLower(t[i]) /\ i \in 1..Len(t)
    BY <1>2, <1>3, <1>5
  <2>3. s[1] # Space
    <3>1. 1 \in 1..Len(s) /\ 1 \in 1..Len(t)
      BY <1>5, <2>1, <2>2
    <3>2. t # <<>>
      BY <3>1, EmptySeq
    <3> QED
      BY <1>1, <2>2, <3>1, <3>2, Lower
  <2>4. TrimSpace(s) = s
    BY <1>3, <2>1, <2>3, Trim
  <2>5. DOMAIN s = 1..Len(s)
    BY <1>3, LenProperties
  <2>6. ASCII(s)
    <3>1. \A i \in 1..Len(s) : t[i] \notin NonASCII
      BY <1>5, <1>7, <2>2 DEF ASCII, t
    <3> QED
      BY <2>2, <2>4, <2>5, <3>1, Lower DEF ASCII
  <2>7. Lowered(s) = s
    <3>1. Lowered(s) \in Seq(Characters) /\ Len(Lowered(s)) = Len(s) /\ \A i \in 1..Len(s) : Lowered(s)[i] = ToLower(s[i])
      BY <1>3, <2>4, LoweredIs
    <3>2. \A i \in 1..Len(s) : ToLower(s[i]) = s[i]
      BY <2>2, Lower
    <3> QED
      BY <1>3, <3>1, <3>2, SeqEqual
  <2>8. Undotted(s) = s
    BY <2>1 DEF Undotted
  <2> QED
    BY <1>7, <2>6, <2>7, <2>8, NormalizeSteps
<1> HIDE DEF s
<1>8. Refused \in Seq(Characters)
  BY EmptySeq DEF Refused
<1> QED
  BY <1>3, <1>4, <1>6, <1>7, <1>8

LEMMA NormalSuffix ==
  ASSUME NEW x \in Seq(Characters)
  PROVE  /\ NormalizeSuffix(x) \in Seq(Characters)
         /\ NormalizeSuffix(NormalizeSuffix(x)) = NormalizeSuffix(x)
<1>1. ~IsWildcard(Refused) /\ NormalizeFQDN(Refused) = Refused /\ Refused \in Seq(Characters)
  <2>1. Refused \in Seq(Characters) /\ Len(Refused) = 0
    BY EmptySeq DEF Refused
  <2>2. ~WellFormed(Refused)
    BY DEF WellFormed, Refused
  <2>3. NormalizeFQDN(NormalizeFQDN(Refused)) = NormalizeFQDN(Refused)
    BY <2>1, NormalForm
  <2>4. TrimSpace(Refused) = <<>>
    BY <2>1, Trim DEF Refused
  <2>5. Lowered(Refused) \in Seq(Characters) /\ Len(Lowered(Refused)) = 0
    BY <2>1, <2>4, LoweredIs, EmptySeq
  <2> QED
    BY <2>1, <2>2, <2>5, NormalizeSteps, EmptySeq DEF IsWildcard, Undotted, Refused
<1>2. NormalizeFQDN(x) \in Seq(Characters) /\ NormalizeFQDN(NormalizeFQDN(x)) = NormalizeFQDN(x)
  BY NormalForm
<1> QED
  BY <1>1, <1>2 DEF NormalizeSuffix

\* a is a name, a dot and t.
Extends(a, t, f) ==
  /\ f \in Nat \ {0} /\ Len(a) = f + Len(t) /\ a[f] = Dot
  /\ \A j \in 1..Len(t) : a[f + j] = t[j]

LEMMA EndingExtends ==
  ASSUME NEW a \in Seq(Characters), NEW t \in Seq(Characters), NEW f, f = Len(a) - Len(t), f > 0,
         SubSeq(a, f, Len(a)) = <<Dot>> \o t
  PROVE  Extends(a, t, f)
<1> DEFINE m == Len(a)
           n == Len(t)
           e == <<Dot>> \o t
<1>1. m \in Nat /\ n \in Nat /\ f \in Nat \ {0} /\ m = f + n
  <2>1. m \in Nat /\ n \in Nat
    BY LenProperties
  <2>2. f = m - n /\ f > 0
    OBVIOUS
  <2> HIDE DEF m, n
  <2>3. f \in Int /\ m = f + n
    BY <2>1, <2>2
  <2> QED
    BY <2>1, <2>2, <2>3
<1>2. Dot \in Characters
  BY DEF Characters
<1>3. e[1] = Dot /\ \A j \in 1..n : e[j + 1] = t[j]
  <2>1. <<Dot>> \in Seq(Characters) /\ Len(<<Dot>>) = 1 /\ <<Dot>>[1] = Dot
    BY <1>2
  <2>2. \A i \in 1..Len(<<Dot>>) + n : e[i] = IF i <= Len(<<Dot>>) THEN <<Dot>>[i] ELSE t[i - Len(<<Dot>>)]
    BY <2>1, ConcatProperties
  <2> HIDE DEF e, n
  <2>3. \A i \in 1..1 + n : e[i] = IF i <= 1 THEN <<Dot>>[i] ELSE t[i - 1]
    BY <2>1, <2>2
  <2>4. e[1] = Dot
    BY <1>1, <2>1, <2>3
  <2>5. ASSUME NEW j \in 1..n PROVE e[j + 1] = t[j]
    <3>1. j + 1 \in 1..1 + n /\ ~(j + 1 <= 1) /\ (j + 1) - 1 = j
      BY <1>1
    <3> QED
      BY <2>3, <3>1
  <2> QED
    BY <2>4, <2>5
<1>4. \A k \in 1..m - f + 1 : SubSeq(a, f, m)[k] = a[f + k - 1]
  <2>1. f \in 1..m + 1 /\ m \in 0..m
    <3> HIDE DEF m, n
    <3> QED
      BY <1>1
  <2> QED
    BY <2>1, Part
<1> DEFINE q == SubSeq(a, f, m)
<1>5. q = e
  OBVIOUS
<1> HIDE DEF e, q, m, n
<1>6. \A k \in 1..n + 1 : q[k] = a[f + k - 1]
  BY <1>1, <1>4 DEF q
<1>7. a[f] = Dot
  <2>1. 1 \in 1..n + 1 /\ f + 1 - 1 = f
    BY <1>1
  <2> QED
    BY <1>3, <1>5, <1>6, <2>1
<1>8. ASSUME NEW j \in 1..n PROVE a[f + j] = t[j]
  <2>1. j + 1 \in 1..n + 1 /\ f + (j + 1) - 1 = f + j
    BY <1>1
  <2> QED
    BY <1>3, <1>5, <1>6, <2>1
<1> QED
  BY <1>1, <1>7, <1>8 DEF Extends, m, n

\* The labels of t are labels of a, f positions further on.
LEMMA ShiftedBounds ==
  ASSUME NEW a \in Seq(Characters), NEW t \in Seq(Characters), NEW f, Extends(a, t, f),
         NEW x \in Int, NEW y \in Int
  PROVE  <<x, y>> \in LabelBounds(t) <=> <<x + f, y + f>> \in LabelBounds(a) /\ x >= 1
<1> DEFINE m == Len(a)
           n == Len(t)
<1>1. m \in Nat /\ n \in Nat /\ f \in Nat \ {0} /\ m = f + n
  BY LenProperties DEF Extends
<1>2. /\ Cuts(a) \subseteq 0..m + 1 /\ Cuts(t) \subseteq 0..n + 1
      /\ 0 \in Cuts(t) /\ n + 1 \in Cuts(t) /\ m + 1 \in Cuts(a)
      /\ \A k \in 1..m : k \in Cuts(a) <=> a[k] = Dot
      /\ \A k \in 1..n : k \in Cuts(t) <=> t[k] = Dot
      /\ a[f] = Dot /\ \A j \in 1..n : a[f + j] = t[j]
  BY CutsAreNaturals DEF Extends
<1>b. /\ <<x, y>> \in LabelBounds(t) <=>
           x \in 1..n + 1 /\ y \in 0..n /\ Adjacent(t, x - 1, y + 1)
      /\ <<x + f, y + f>> \in LabelBounds(a) <=>
           x + f \in 1..m + 1 /\ y + f \in 0..m /\ Adjacent(a, x + f - 1, y + f + 1)
  <2> DEFINE b == <<x, y>>
             c == <<x + f, y + f>>
  <2>1. /\ LabelBounds(t) = {d \in (1..n + 1) \X (0..n) : Adjacent(t, d[1] - 1, d[2] + 1)}
        /\ LabelBounds(a) = {d \in (1..m + 1) \X (0..m) : Adjacent(a, d[1] - 1, d[2] + 1)}
    BY BoundsAre
  <2>2. /\ b[1] = x /\ b[2] = y /\ c[1] = x + f /\ c[2] = y + f
        /\ b \in (1..n + 1) \X (0..n) <=> x \in 1..n + 1 /\ y \in 0..n
        /\ c \in (1..m + 1) \X (0..m) <=> x + f \in 1..m + 1 /\ y + f \in 0..m
    OBVIOUS
  <2> HIDE DEF b, c
  <2>3. /\ b \in LabelBounds(t) <=> b \in (1..n + 1) \X (0..n) /\ Adjacent(t, b[1] - 1, b[2] + 1)
        /\ c \in LabelBounds(a) <=> c \in (1..m + 1) \X (0..m) /\ Adjacent(a, c[1] - 1, c[2] + 1)
    BY <2>1, Zenon
  <2>4. /\ b \in LabelBounds(t) <=> x \in 1..n + 1 /\ y \in 0..n /\ Adjacent(t, x - 1, y + 1)
        /\ c \in LabelBounds(a) <=>
             x + f \in 1..m + 1 /\ y + f \in 0..m /\ Adjacent(a, x + f - 1, y + f + 1)
    <3>1. b[1] - 1 = x - 1 /\ b[2] + 1 = y + 1 /\ c[1] - 1 = x + f - 1 /\ c[2] + 1 = y + f + 1
      BY <1>1, <2>2
    <3> QED
      BY <2>2, <2>3, <3>1, Zenon
  <2> QED
    BY <2>4, Zenon DEF b, c
<1> HIDE DEF m, n
<1>3. ASSUME NEW k \in 0..n + 1 PROVE k \in Cuts(t) <=> k + f \in Cuts(a)
  <2>1. CASE k = 0
    BY <1>1, <1>2, <2>1
  <2>2. CASE k = n + 1
    <3>1. k + f = m + 1
      BY <1>1, <2>2
    <3> QED
      BY <1>2, <2>2, <3>1
  <2>3. CASE k \in 1..n
    <3>1. k + f \in 1..m /\ k + f = f + k
      BY <1>1, <2>3
    <3> QED
      BY <1>2, <2>3, <3>1
  <2> QED
    BY <1>1, <2>1, <2>2, <2>3
<1>4. ASSUME <<x, y>> \in LabelBounds(t) PROVE <<x + f, y + f>> \in LabelBounds(a) /\ x >= 1
  <2>1. x \in 1..n + 1 /\ y \in 0..n /\ Adjacent(t, x - 1, y + 1)
    BY <1>4, <1>b
  <2>2. x + f \in 1..m + 1 /\ y + f \in 0..m /\ x >= 1
    BY <1>1, <2>1
  <2>3. x - 1 \in 0..n + 1 /\ y + 1 \in 0..n + 1 /\ x - 1 + f = x + f - 1 /\ y + 1 + f = y + f + 1
    BY <1>1, <2>1
  <2>4. x + f - 1 \in Cuts(a) /\ y + f + 1 \in Cuts(a)
    BY <1>3, <2>1, <2>3 DEF Adjacent
  <2>5. x + f - 1 < y + f + 1
    BY <1>1, <2>1 DEF Adjacent
  <2>6. ASSUME NEW k \in Cuts(a) PROVE k <= x + f - 1 \/ k >= y + f + 1
    <3>1. k \in 0..m + 1
      BY <1>2
    <3>2. CASE k < f
      BY <1>1, <2>1, <3>1, <3>2
    <3>3. CASE k >= f
      <4>1. k - f \in 0..n + 1 /\ k - f + f = k
        BY <1>1, <3>1, <3>3
      <4>2. k - f \in Cuts(t)
        BY <1>3, <4>1
      <4>3. k - f <= x - 1 \/ k - f >= y + 1
        BY <2>1, <4>2 DEF Adjacent
      <4> QED
        BY <1>1, <3>1, <4>3
    <3> QED
      BY <1>1, <3>1, <3>2, <3>3
  <2> QED
    BY <1>b, <2>2, <2>4, <2>5, <2>6 DEF Adjacent
<1>5. ASSUME <<x + f, y + f>> \in LabelBounds(a), x >= 1 PROVE <<x, y>> \in LabelBounds(t)
  <2>1. x + f \in 1..m + 1 /\ y + f \in 0..m /\ Adjacent(a, x + f - 1, y + f + 1)
    BY <1>5, <1>b
  <2>2. x + f - 1 < y + f + 1
    BY <2>1 DEF Adjacent
  <2>3. /\ x \in 1..n + 1 /\ x - 1 \in 0..n + 1 /\ y + 1 \in 0..n + 1 /\ y >= x - 1 /\ y \in 0..n
        /\ x - 1 + f = x + f - 1 /\ y + 1 + f = y + f + 1
    BY <1>1, <1>5, <2>1, <2>2
  <2>4. x - 1 \in Cuts(t) /\ y + 1 \in Cuts(t)
    BY <1>3, <2>1, <2>3 DEF Adjacent
  <2>5. ASSUME NEW k \in Cuts(t) PROVE k <= x - 1 \/ k >= y + 1
    <3>1. k \in 0..n + 1
      BY <1>2
    <3>2. k + f <= x + f - 1 \/ k + f >= y + f + 1
      BY <1>3, <2>1, <3>1 DEF Adjacent
    <3> QED
      BY <1>1, <3>1, <3>2
  <2>6. x - 1 < y + 1
    BY <2>3
  <2> QED
    BY <1>b, <2>3, <2>4, <2>5, <2>6 DEF Adjacent
<1> QED
  BY <1>4, <1>5

\* The labels of a before a label of t: those before t begins, and those of t before it.
LEMMA ShiftedRank ==
  ASSUME NEW a \in Seq(Characters), NEW t \in Seq(Characters), NEW f, Extends(a, t, f), NEW i \in Nat \ {0}
  PROVE  /\ Cardinality(Before(LabelBounds(a), i + f)) =
              Cardinality(Before(LabelBounds(a), 1 + f)) + Cardinality(Before(LabelBounds(t), i))
         /\ Cardinality(Before(LabelBounds(a), 1 + f)) \in Nat
         /\ Cardinality(Before(LabelBounds(t), i)) \in Nat
<1> DEFINE A == LabelBounds(a)
           T == LabelBounds(t)
           head == Before(A, 1 + f)
           part == {c \in Before(A, i + f) : c[1] >= 1 + f}
           shift == [b \in Before(T, i) |-> <<b[1] + f, b[2] + f>>]
<1>0. f \in Nat
  BY DEF Extends
<1>1. /\ IsFiniteSet(A) /\ IsFiniteSet(T) /\ Len(a) \in Nat /\ Len(t) \in Nat
      /\ \A c \in A : c[1] \in 1..Len(a) + 1 /\ c[2] \in 0..Len(a) /\ c = <<c[1], c[2]>>
      /\ \A b \in T : b[1] \in 1..Len(t) + 1 /\ b[2] \in 0..Len(t) /\ b = <<b[1], b[2]>>
  BY BoundsFinite, LenProperties
<1>2. /\ \A c \in A : c[1] \in Int /\ c[2] \in Int /\ c = <<c[1], c[2]>>
      /\ \A b \in T : b[1] \in Int /\ b[2] \in Int /\ b = <<b[1], b[2]>>
  BY <1>1
<1>3. \A x, y \in Int : <<x, y>> \in T <=> <<x + f, y + f>> \in A /\ x >= 1
  BY ShiftedBounds
<1> HIDE DEF A, T
<1>4. /\ head \in SUBSET A /\ part \in SUBSET A /\ Before(T, i) \in SUBSET T
      /\ Before(A, i + f) = head \cup part /\ head \cap part = {}
  BY <1>0, <1>2 DEF Before
<1>5. IsFiniteSet(head) /\ IsFiniteSet(part) /\ IsFiniteSet(Before(T, i))
  BY <1>1, <1>4, FS_Subset
<1>6. Cardinality(head) \in Nat /\ Cardinality(part) \in Nat /\ Cardinality(Before(T, i)) \in Nat
  BY <1>5, FS_CardinalityType
<1>7. Cardinality(Before(A, i + f)) = Cardinality(head) + Cardinality(part)
  <2>1. Cardinality(head \cup part) = Cardinality(head) + Cardinality(part) - Cardinality(head \cap part)
    <3> HIDE DEF head, part
    <3> QED
      BY <1>5, FS_Union
  <2>2. Cardinality(head \cap part) = 0
    <3> HIDE DEF head, part
    <3> QED
      BY <1>4, FS_EmptySet
  <2> HIDE DEF head, part
  <2>3. Cardinality(Before(A, i + f)) = Cardinality(head \cup part)
    BY <1>4, Zenon
  <2>4. Cardinality(head) + Cardinality(part) - 0 = Cardinality(head) + Cardinality(part)
    BY <1>6
  <2> QED
    BY <2>1, <2>2, <2>3, <2>4, Zenon
<1>8. shift \in Bijection(Before(T, i), part)
  <2>1. ASSUME NEW b \in Before(T, i) PROVE shift[b] \in part
    <3>1. b \in T /\ b[1] \in Int /\ b[2] \in Int /\ b = <<b[1], b[2]>> /\ b[1] < i
      BY <1>2 DEF Before
    <3>2. <<b[1] + f, b[2] + f>> \in A /\ b[1] >= 1
      BY <1>3, <3>1
    <3>3. b[1] + f < i + f /\ b[1] + f >= 1 + f
      BY <1>0, <3>1, <3>2
    <3> QED
      BY <3>2, <3>3 DEF Before
  <2>2. ASSUME NEW b \in Before(T, i), NEW c \in Before(T, i), shift[b] = shift[c] PROVE b = c
    <3>1. /\ b[1] \in Int /\ b[2] \in Int /\ b = <<b[1], b[2]>>
          /\ c[1] \in Int /\ c[2] \in Int /\ c = <<c[1], c[2]>>
      BY <1>2 DEF Before
    <3>2. <<b[1] + f, b[2] + f>> = <<c[1] + f, c[2] + f>>
      BY <2>2
    <3>3. b[1] + f = c[1] + f /\ b[2] + f = c[2] + f
      BY <3>2
    <3>4. b[1] = c[1] /\ b[2] = c[2]
      BY <1>0, <3>1, <3>3
    <3> QED
      BY <3>1, <3>4
  <2>3. ASSUME NEW c \in part PROVE \E b \in Before(T, i) : shift[b] = c
    <3>1. c \in A /\ c[1] \in Int /\ c[2] \in Int /\ c = <<c[1], c[2]>> /\ c[1] < i + f /\ c[1] >= 1 + f
      BY <1>2 DEF Before
    <3> DEFINE b == <<c[1] - f, c[2] - f>>
    <3>2. /\ c[1] - f \in Int /\ c[2] - f \in Int /\ c[1] - f >= 1 /\ c[1] - f < i
          /\ (c[1] - f) + f = c[1] /\ (c[2] - f) + f = c[2]
      BY <1>0, <3>1
    <3>3. <<(c[1] - f) + f, (c[2] - f) + f>> \in A
      BY <3>1, <3>2
    <3>4. b \in T
      BY <1>3, <3>2, <3>3
    <3>5. b \in Before(T, i)
      BY <3>2, <3>4 DEF Before
    <3>6. shift[b] = c
      BY <3>1, <3>2, <3>5
    <3> QED
      BY <3>5, <3>6
  <2>4. shift \in [Before(T, i) -> part]
    <3>1. shift = [b \in Before(T, i) |-> shift[b]]
      OBVIOUS
    <3> HIDE DEF shift, part
    <3> QED
      BY <2>1, <3>1
  <2> HIDE DEF shift, part
  <2> QED
    BY <2>2, <2>3, <2>4 DEF Bijection, Injection, IsInjective, Surjection
<1>9. Cardinality(part) = Cardinality(Before(T, i))
  <2> HIDE DEF shift, part
  <2>1. ExistsBijection(Before(T, i), part)
    BY <1>8 DEF ExistsBijection
  <2> QED
    BY <1>5, <2>1, FS_Bijection
<1> QED
  BY <1>6, <1>7, <1>9 DEF A, T

\* A label of t and the label of a it is.
LEMMA ShiftedLabel ==
  ASSUME NEW a \in Seq(Characters), NEW t \in Seq(Characters), NEW f, Extends(a, t, f),
         NEW i \in 1..Len(t) + 1, NEW j \in 0..Len(t)
  PROVE  SubSeq(a, i + f, j + f) = SubSeq(t, i, j)
<1> DEFINE m == Len(a)
           n == Len(t)
           u == SubSeq(a, i + f, j + f)
           v == SubSeq(t, i, j)
<1>1. m \in Nat /\ n \in Nat /\ f \in Nat /\ m = f + n /\ \A k \in 1..n : a[f + k] = t[k]
  BY LenProperties DEF Extends
<1>2. i + f \in 1..m + 1 /\ j + f \in 0..m /\ i \in Nat /\ j \in Nat /\ i <= n + 1 /\ j <= n /\ 1 <= i
  <2>1. i \in 1..n + 1 /\ j \in 0..n
    OBVIOUS
  <2> HIDE DEF m, n
  <2> QED
    BY <1>1, <2>1
<1>3. /\ u \in Seq(Characters) /\ Len(u) = IF i + f <= j + f THEN (j + f) - (i + f) + 1 ELSE 0
      /\ \A k \in 1..(j + f) - (i + f) + 1 : u[k] = a[(i + f) + k - 1]
  BY <1>2, Part
<1>4. /\ v \in Seq(Characters) /\ Len(v) = IF i <= j THEN j - i + 1 ELSE 0
      /\ \A k \in 1..j - i + 1 : v[k] = t[i + k - 1]
  BY Part
<1> HIDE DEF m, n, u, v
<1>5. (j + f) - (i + f) + 1 = j - i + 1 /\ (i + f <= j + f <=> i <= j)
  BY <1>1, <1>2
<1>6. ASSUME NEW k \in 1..j - i + 1 PROVE u[k] = v[k]
  <2>1. i + k - 1 \in 1..n /\ (i + f) + k - 1 = f + (i + k - 1)
    BY <1>1, <1>2
  <2>2. u[k] = a[(i + f) + k - 1] /\ v[k] = t[i + k - 1]
    BY <1>3, <1>4, <1>5
  <2> QED
    BY <1>1, <2>1, <2>2
<1>7. Len(u) = Len(v) /\ \A k \in 1..Len(u) : k \in 1..j - i + 1
  <2>1. Len(u) = (IF i <= j THEN j - i + 1 ELSE 0) /\ Len(v) = (IF i <= j THEN j - i + 1 ELSE 0)
    BY <1>3, <1>4, <1>5
  <2> QED
    BY <1>2, <2>1
<1>8. u = v
  BY <1>3, <1>4, <1>6, <1>7, SeqEqual
<1> QED
  BY <1>8 DEF u, v

\* What the code compares character by character, from a dot on, is what the reference
\* compares label by label.
LEMMA EndingIsUnder ==
  ASSUME NEW a \in Seq(Characters), NEW t \in Seq(Characters), NEW f, Extends(a, t, f)
  PROVE  UnderSuffix(a, t)
<1> DEFINE A == LabelBounds(a)
           T == LabelBounds(t)
           name == LabelsOf(a)
           tail == LabelsOf(t)
           skip == Cardinality(Before(A, 1 + f))
           n == Cardinality(T)
           rest == SubSeq(name, skip + 1, skip + n)
<1>1. Len(t) \in Nat /\ Len(a) \in Nat /\ f \in Nat /\ Len(a) = f + Len(t)
  BY LenProperties DEF Extends
<1>2. /\ IsFiniteSet(T) /\ n \in Nat
      /\ \A b \in A : b[1] \in 1..Len(a) + 1
      /\ \A b \in T : b[1] \in 1..Len(t) + 1 /\ b[2] \in 0..Len(t) /\ b = <<b[1], b[2]>>
      /\ \A b, c \in T : b[1] = c[1] => b = c
  BY BoundsFinite
<1>3. \A i \in Nat \ {0} : /\ Cardinality(Before(A, i + f)) = skip + Cardinality(Before(T, i))
                           /\ skip \in Nat
  BY ShiftedRank
<1>4. Cardinality(A) = skip + n /\ skip \in Nat
  <2>1. Len(t) + 2 \in Nat \ {0}
    BY <1>1
  <2>2. Before(T, Len(t) + 2) = T
    BY <1>1, <1>2 DEF Before
  <2>3. Before(A, (Len(t) + 2) + f) = A
    BY <1>1, <1>2 DEF Before
  <2> QED
    BY <1>3, <2>1, <2>2, <2>3
<1>5. name \in Seq(Seq(Characters)) /\ Len(name) = skip + n
  BY <1>4, LabelsAre
<1>6. tail \in Seq(Seq(Characters)) /\ Len(tail) = n
  BY LabelsAre
<1>7. /\ \A k \in 1..skip + n, b \in A : Cardinality(Before(A, b[1])) = k - 1 => name[k] = SubSeq(a, b[1], b[2])
      /\ \A k \in 1..n, b \in T : Cardinality(Before(T, b[1])) = k - 1 => tail[k] = SubSeq(t, b[1], b[2])
  BY <1>4, LabelsAre
<1>8. \A x, y \in Int : <<x, y>> \in T => <<x + f, y + f>> \in A
  BY ShiftedBounds
<1>9. \A k \in 1..n : \E b \in T : Cardinality(Before(T, b[1])) = k - 1
  <2> HIDE DEF T
  <2>1. \A b \in T : b[1] \in Int
    BY <1>1, <1>2
  <2> QED
    BY <1>2, <2>1, Ranks
<1>10. \A i \in 1..Len(t) + 1, j \in 0..Len(t) : SubSeq(a, i + f, j + f) = SubSeq(t, i, j)
  BY ShiftedLabel
<1> HIDE DEF A, T, name, tail, skip, n
<1>11. ASSUME NEW k \in 1..n PROVE name[skip + k] = tail[k]
  <2>1. PICK b \in T : Cardinality(Before(T, b[1])) = k - 1
    BY <1>9
  <2>2. b[1] \in 1..Len(t) + 1 /\ b[2] \in 0..Len(t) /\ b = <<b[1], b[2]>>
    BY <1>2
  <2>3. b[1] \in Int /\ b[2] \in Int /\ b[1] \in Nat \ {0}
    BY <1>1, <2>2
  <2> DEFINE c == <<b[1] + f, b[2] + f>>
  <2>4. c \in A
    BY <1>8, <2>2, <2>3
  <2>5. c[1] = b[1] + f /\ c[2] = b[2] + f
    OBVIOUS
  <2> HIDE DEF c
  <2>6. Cardinality(Before(A, c[1])) = skip + (k - 1)
    BY <1>3, <2>1, <2>3, <2>5
  <2>7. skip + k \in 1..skip + n /\ skip + (k - 1) = (skip + k) - 1
    BY <1>2, <1>4
  <2>8. name[skip + k] = SubSeq(a, c[1], c[2])
    BY <1>7, <2>4, <2>6, <2>7
  <2>9. tail[k] = SubSeq(t, b[1], b[2])
    BY <1>7, <2>1
  <2> QED
    BY <1>10, <2>2, <2>5, <2>8, <2>9
<1>12. /\ rest \in Seq(Seq(Characters)) /\ Len(rest) = n
       /\ \A k \in 1..n : rest[k] = name[skip + k]
  <2>1. skip + 1 \in Int /\ skip + n \in Int /\ \A k \in skip + 1..skip + n : k \in 1..Len(name)
    BY <1>2, <1>4, <1>5
  <2>2. \A k \in skip + 1..skip + n : name[k] \in Seq(Characters)
    BY <1>5, <2>1, ElementOfSeq
  <2>3. /\ rest \in Seq(Seq(Characters))
        /\ Len(rest) = IF skip + 1 <= skip + n THEN (skip + n) - (skip + 1) + 1 ELSE 0
        /\ \A k \in 1..(skip + n) - (skip + 1) + 1 : rest[k] = name[(skip + 1) + k - 1]
    BY <2>1, <2>2, SubSeqProperties
  <2>4. /\ (skip + n) - (skip + 1) + 1 = n /\ (IF skip + 1 <= skip + n THEN n ELSE 0) = n
        /\ \A k \in 1..n : (skip + 1) + k - 1 = skip + k
    BY <1>2, <1>4
  <2> HIDE DEF rest
  <2> QED
    BY <2>3, <2>4
<1>13. rest = tail
  <2> HIDE DEF rest
  <2> QED
    BY <1>6, <1>11, <1>12, SeqEqual
<1>14. Len(name) - Len(tail) = skip /\ skip >= 0
  BY <1>2, <1>4, <1>5, <1>6
<1> QED
  BY <1>5, <1>13, <1>14 DEF UnderSuffix, name, tail

LEMMA MatchIsUnder ==
  ASSUME NEW name \in Seq(Characters), NEW suffix \in Seq(Characters), MatchesSuffix(name, suffix),
         Base(name) \in Seq(Characters)
  PROVE  UnderSuffix(Base(name), suffix)
<1> DEFINE base == Base(name)
           f == Len(base) - Len(suffix)
<1>1. CASE base = suffix
  <2> DEFINE labels == LabelsOf(suffix)
  <2>1. labels \in Seq(Seq(Characters)) /\ Len(labels) \in Nat
    BY LabelsAre, LenProperties
  <2> HIDE DEF labels
  <2>2. Len(labels) - Len(labels) = 0 /\ SubSeq(labels, 1, Len(labels)) = labels
    BY <2>1, SubSeqFull
  <2>3. SubSeq(labels, 0 + 1, Len(labels)) = labels
    BY <2>2
  <2> QED
    BY <1>1, <2>2, <2>3 DEF UnderSuffix, labels
<1>2. CASE base # suffix
  <2>1. f > 0 /\ SubSeq(base, f, Len(base)) = <<Dot>> \o suffix
    BY <1>2 DEF MatchesSuffix
  <2> HIDE DEF base
  <2>2. base \in Seq(Characters)
    BY DEF base
  <2>3. Extends(base, suffix, f)
    BY <2>1, <2>2, EndingExtends
  <2>4. UnderSuffix(base, suffix)
    BY <2>2, <2>3, EndingIsUnder
  <2> QED
    BY <2>4 DEF base
<1> QED
  BY <1>1, <1>2
\* A cut is followed by a label, and a position that is no cut lies in one.
LEMMA LabelAt ==
  ASSUME NEW s \in Seq(Characters), NEW j \in 0..Len(s)
  PROVE  \E b \in LabelBounds(s) : b[1] - 1 <= j /\ j <= b[2] /\ (j \in Cuts(s) => b[1] = j + 1)
<1> DEFINE n == Len(s)
           C == Cuts(s)
           low == {k \in C : k <= j}
           high == {k \in C : k > j}
<1>1. n \in Nat /\ C \subseteq 0..(n + 1) /\ 0 \in C /\ n + 1 \in C /\ j \in 0..n
  BY CutsAreNaturals
<1> HIDE DEF n, C
<1>2. PICK x \in low : \A k \in low : k <= x
  <2>1. 0 \in low /\ n + 1 \in Nat
    BY <1>1
  <2>2. low \subseteq 0..n + 1
    BY <1>1
  <2> HIDE DEF low
  <2> QED
    BY <2>1, <2>2, Largest
<1>3. PICK y \in high : \A k \in high : y <= k
  <2>1. n + 1 \in high
    BY <1>1
  <2>2. high \subseteq Nat
    <3> SUFFICES ASSUME NEW k \in high PROVE k \in Nat
      OBVIOUS
    <3>1. k \in 0..n + 1
      BY <1>1
    <3> QED
      BY <1>1, <3>1
  <2> HIDE DEF high
  <2> QED
    BY <2>1, <2>2, Smallest
<1>4. x \in C /\ y \in C /\ x <= j /\ j < y /\ x \in 0..n /\ y \in 1..n + 1
  BY <1>1, <1>2, <1>3
<1>5. \A k \in C : k <= x \/ k >= y
  BY <1>1, <1>2, <1>3
<1> DEFINE b == <<x + 1, y - 1>>
<1>6. b \in (1..n + 1) \X (0..n) /\ b[1] = x + 1 /\ b[2] = y - 1 /\ b[1] - 1 = x /\ b[2] + 1 = y
  BY <1>1, <1>4
<1> HIDE DEF b
<1>7. Adjacent(s, x, y)
  BY <1>1, <1>4, <1>5 DEF Adjacent, C
<1>8. b \in LabelBounds(s)
  BY <1>6, <1>7, BoundsAre DEF n
<1>9. b[1] - 1 <= j /\ j <= b[2]
  BY <1>1, <1>4, <1>6
<1>10. j \in C => b[1] = j + 1
  BY <1>1, <1>2, <1>4, <1>6
<1> QED
  BY <1>8, <1>9, <1>10 DEF C

\* Labels follow one another with a dot between, and the last one ends the name.
LEMMA NextLabel ==
  ASSUME NEW s \in Seq(Characters), NEW b \in LabelBounds(s),
         NEW k \in 1..Cardinality(LabelBounds(s)), Cardinality(Before(LabelBounds(s), b[1])) = k - 1
  PROVE  /\ k = Cardinality(LabelBounds(s)) => b[2] = Len(s)
         /\ \A c \in LabelBounds(s) : Cardinality(Before(LabelBounds(s), c[1])) = k => c[1] = b[2] + 2
<1> DEFINE n == Len(s)
           B == LabelBounds(s)
           m == Cardinality(B)
<1>1. /\ IsFiniteSet(B) /\ m \in Nat /\ n \in Nat
      /\ \A c \in B : c[1] \in 1..n + 1 /\ c[2] \in 0..n
      /\ \A c, d \in B : c[1] = d[1] => c = d
  BY BoundsFinite, LenProperties
<1>2. \A c \in B : Adjacent(s, c[1] - 1, c[2] + 1)
  BY BoundsAre
<1>3. \A c \in B : c[1] \in Int /\ c[2] \in Int
  BY <1>1
<1>4. \A c, d \in B : Cardinality(Before(B, c[1])) = Cardinality(Before(B, d[1])) => c = d
  <2> HIDE DEF B
  <2> QED
    BY <1>1, <1>3, Ranks
<1>5. \A j \in 0..n : \E c \in B : c[1] - 1 <= j /\ j <= c[2] /\ (j \in Cuts(s) => c[1] = j + 1)
  BY LabelAt
<1> HIDE DEF B, n, m
\* Nothing starts inside a label.
<1>6. ASSUME NEW c \in B, c[1] > b[1] PROVE c[1] >= b[2] + 2
  <2>1. c[1] - 1 \in Cuts(s)
    BY <1>2 DEF Adjacent
  <2>2. c[1] - 1 <= b[1] - 1 \/ c[1] - 1 >= b[2] + 1
    BY <1>2, <2>1 DEF Adjacent, B
  <2> QED
    BY <1>3, <1>6, <2>2 DEF B
<1>7. ASSUME b[2] # n
      PROVE  \E c \in B : c[1] = b[2] + 2 /\ Cardinality(Before(B, c[1])) = k
  <2>1. b \in B /\ b[2] + 1 \in 0..n /\ b[2] + 1 \in Cuts(s) /\ b[1] - 1 < b[2] + 1
    BY <1>1, <1>2, <1>7 DEF Adjacent, B
  <2>2. PICK c \in B : c[1] = (b[2] + 1) + 1
    BY <1>5, <2>1
  <2>3. c[1] = b[2] + 2
    BY <1>3, <2>1, <2>2
  <2>4. Before(B, c[1]) = Before(B, b[1]) \cup {b}
    <3>1. ASSUME NEW d \in B PROVE d[1] < c[1] <=> d[1] < b[1] \/ d = b
      <4>1. d[1] > b[1] => d[1] >= c[1]
        <5>1. d[1] > b[1] => d[1] >= b[2] + 2
          BY <1>6
        <5> QED
          BY <2>3, <5>1
      <4>2. b[1] < c[1]
        BY <1>3, <2>1, <2>3
      <4>3. d[1] = b[1] => d = b
        BY <1>1, <2>1
      <4> QED
        BY <1>3, <2>1, <2>2, <4>1, <4>2, <4>3
    <3> QED
      BY <2>1, <3>1 DEF Before
  <2>5. b \notin Before(B, b[1])
    BY <1>3, <2>1 DEF Before
  <2>6. IsFiniteSet(Before(B, b[1]))
    <3>1. Before(B, b[1]) \in SUBSET B
      BY DEF Before
    <3> QED
      BY <1>1, <3>1, FS_Subset
  <2>7. Cardinality(Before(B, b[1]) \cup {b}) = Cardinality(Before(B, b[1])) + 1
    BY <2>5, <2>6, FS_AddElement
  <2>8. Cardinality(Before(B, c[1])) = (k - 1) + 1
    BY <2>4, <2>7 DEF B
  <2>9. (k - 1) + 1 = k
    BY <1>1 DEF B, m
  <2> QED
    BY <2>3, <2>8, <2>9
<1>8. ASSUME b[2] = n PROVE \A c \in B : Cardinality(Before(B, c[1])) < k
  <2> SUFFICES ASSUME NEW c \in B PROVE Cardinality(Before(B, c[1])) < k
    OBVIOUS
  <2>1. c[1] <= b[1]
    BY <1>1, <1>3, <1>6, <1>8 DEF B
  <2>2. Before(B, c[1]) \in SUBSET Before(B, b[1])
    BY <1>3, <2>1 DEF Before, B
  <2>3. IsFiniteSet(Before(B, b[1]))
    <3>1. Before(B, b[1]) \in SUBSET B
      BY DEF Before
    <3> QED
      BY <1>1, <3>1, FS_Subset
  <2>4. Cardinality(Before(B, c[1])) <= k - 1 /\ IsFiniteSet(Before(B, c[1]))
    BY <2>2, <2>3, FS_Subset DEF B
  <2>5. Cardinality(Before(B, c[1])) \in Nat
    BY <2>4, FS_CardinalityType
  <2> QED
    BY <1>1, <2>4, <2>5 DEF B, m
<1>9. ASSUME k = m PROVE b[2] = n
  <2> SUFFICES ASSUME b[2] # n PROVE FALSE
    OBVIOUS
  <2>1. PICK c \in B : Cardinality(Before(B, c[1])) = m
    BY <1>7, <1>9
  <2>2. Before(B, c[1]) \in SUBSET B /\ c \notin Before(B, c[1])
    BY <1>3 DEF Before
  <2>3. Before(B, c[1]) = B
    BY <1>1, <2>1, <2>2, FS_Subset DEF m
  <2> QED
    BY <2>2, <2>3
<1>10. ASSUME NEW c \in B, Cardinality(Before(B, c[1])) = k PROVE c[1] = b[2] + 2
  <2>1. b[2] # n
    <3> SUFFICES ASSUME b[2] = n PROVE FALSE
      OBVIOUS
    <3>1. k < k
      BY <1>8, <1>10
    <3> QED
      BY <1>1, <3>1 DEF B, m
  <2>2. PICK d \in B : d[1] = b[2] + 2 /\ Cardinality(Before(B, d[1])) = k
    BY <1>7, <2>1
  <2> QED
    BY <1>4, <1>10, <2>2
<1> QED
  BY <1>9, <1>10 DEF B, m, n

\* The labels of t at the end of a's labels: t's characters at the end of a.
LEMMA UnderIsEnding ==
  ASSUME NEW a \in Seq(Characters), NEW t \in Seq(Characters), UnderSuffix(a, t)
  PROVE  a = t \/ Extends(a, t, Len(a) - Len(t))
<1> DEFINE A == LabelBounds(a)
           T == LabelBounds(t)
           f == Len(a) - Len(t)
           m == Cardinality(A)
           n == Cardinality(T)
           skip == m - n
           First(k) == CHOOSE b \in A : Cardinality(Before(A, b[1])) = skip + k - 1
           Nth(k) == CHOOSE b \in T : Cardinality(Before(T, b[1])) = k - 1
<1>1. /\ IsFiniteSet(A) /\ m \in Nat /\ IsFiniteSet(T) /\ n \in Nat
      /\ Len(a) \in Nat /\ Len(t) \in Nat /\ f \in Int /\ f = Len(a) - Len(t)
      /\ \A b \in A : b[1] \in 1..Len(a) + 1 /\ b[2] \in 0..Len(a) /\ b = <<b[1], b[2]>>
      /\ \A b \in T : b[1] \in 1..Len(t) + 1 /\ b[2] \in 0..Len(t) /\ b = <<b[1], b[2]>>
      /\ \A b, c \in A : b[1] = c[1] => b = c
      /\ \A b, c \in T : b[1] = c[1] => b = c
  BY BoundsFinite, LenProperties
<1>2. /\ \A b \in A : Adjacent(a, b[1] - 1, b[2] + 1)
      /\ \A b \in T : Adjacent(t, b[1] - 1, b[2] + 1)
  BY BoundsAre
<1>3. skip \in Nat /\ skip + n = m /\ \A k \in 1..n : LabelsOf(a)[skip + k] = LabelsOf(t)[k]
  <2> DEFINE name == LabelsOf(a)
             tail == LabelsOf(t)
  <2>1. /\ name \in Seq(Seq(Characters)) /\ Len(name) = m
        /\ tail \in Seq(Seq(Characters)) /\ Len(tail) = n
    BY LabelsAre
  <2>2. Len(name) - Len(tail) >= 0 /\ SubSeq(name, (Len(name) - Len(tail)) + 1, Len(name)) = tail
    BY DEF UnderSuffix
  <2> HIDE DEF m, n, name, tail
  <2>3. skip >= 0 /\ SubSeq(name, skip + 1, m) = tail
    BY <2>1, <2>2
  <2>4. skip \in Nat /\ skip + n = m /\ m - (skip + 1) + 1 = n
    BY <1>1, <2>3
  <2>5. \A i \in skip + 1..m : name[i] \in Seq(Characters)
    <3>1. \A i \in skip + 1..m : i \in 1..Len(name)
      BY <1>1, <2>1, <2>4
    <3> QED
      BY <2>1, <3>1, ElementOfSeq
  <2>6. \A i \in 1..m - (skip + 1) + 1 : SubSeq(name, skip + 1, m)[i] = name[(skip + 1) + i - 1]
    <3>1. skip + 1 \in Int /\ m \in Int
      BY <1>1, <2>4
    <3> HIDE DEF skip
    <3> QED
      BY <2>5, <3>1, SubSeqProperties
  <2>7. ASSUME NEW k \in 1..n PROVE name[skip + k] = tail[k]
    <3> HIDE DEF skip
    <3>1. k \in 1..m - (skip + 1) + 1 /\ (skip + 1) + k - 1 = skip + k
      BY <1>1, <2>4
    <3> QED
      BY <2>3, <2>6, <3>1
  <2> QED
    BY <2>4, <2>7 DEF name, tail
<1>4. /\ \A k \in 1..m, b \in A : Cardinality(Before(A, b[1])) = k - 1 => LabelsOf(a)[k] = SubSeq(a, b[1], b[2])
      /\ \A k \in 1..n, b \in T : Cardinality(Before(T, b[1])) = k - 1 => LabelsOf(t)[k] = SubSeq(t, b[1], b[2])
  BY LabelsAre
<1>5. /\ \A k \in 1..m, b \in A : Cardinality(Before(A, b[1])) = k - 1 =>
           /\ k = m => b[2] = Len(a)
           /\ \A c \in A : Cardinality(Before(A, c[1])) = k => c[1] = b[2] + 2
      /\ \A k \in 1..n, b \in T : Cardinality(Before(T, b[1])) = k - 1 =>
           /\ k = n => b[2] = Len(t)
           /\ \A c \in T : Cardinality(Before(T, c[1])) = k => c[1] = b[2] + 2
  BY NextLabel
<1>6. /\ \A k \in 1..m : \E b \in A : Cardinality(Before(A, b[1])) = k - 1
      /\ \A k \in 1..n : \E b \in T : Cardinality(Before(T, b[1])) = k - 1
      /\ \A b, c \in T : Cardinality(Before(T, b[1])) = Cardinality(Before(T, c[1])) => b = c
      /\ \A b \in T : Cardinality(Before(T, b[1])) \in Nat
  <2> HIDE DEF A, T
  <2>1. (\A b \in A : b[1] \in Int) /\ (\A b \in T : b[1] \in Int)
    BY <1>1
  <2> QED
    BY <1>1, <2>1, Ranks
<1>7. /\ \A i \in 1..Len(a) + 1, j \in 0..Len(a) :
           /\ Len(SubSeq(a, i, j)) = IF i <= j THEN j - i + 1 ELSE 0
           /\ \A k \in 1..j - i + 1 : SubSeq(a, i, j)[k] = a[i + k - 1]
      /\ \A i \in 1..Len(t) + 1, j \in 0..Len(t) :
           /\ Len(SubSeq(t, i, j)) = IF i <= j THEN j - i + 1 ELSE 0
           /\ \A k \in 1..j - i + 1 : SubSeq(t, i, j)[k] = t[i + k - 1]
  BY Part
<1>8. \A j \in 0..Len(t) : \E b \in T : b[1] - 1 <= j /\ j <= b[2] /\ (j \in Cuts(t) => b[1] = j + 1)
  BY LabelAt
<1>n. m \in Nat /\ n \in Nat /\ Len(a) \in Nat /\ Len(t) \in Nat /\ f \in Int
  BY <1>1
<1> HIDE DEF A, T, m, n, skip, f
<1>9. ASSUME NEW k \in 1..n
      PROVE  /\ First(k) \in A /\ Cardinality(Before(A, First(k)[1])) = skip + k - 1
             /\ Nth(k) \in T /\ Cardinality(Before(T, Nth(k)[1])) = k - 1
  <2>1. skip + k \in 1..m
    BY <1>n, <1>3
  <2>2. \E b \in A : Cardinality(Before(A, b[1])) = skip + k - 1
    <3> DEFINE i == skip + k
    <3>1. i \in 1..m
      BY <2>1
    <3> HIDE DEF i
    <3>2. \E b \in A : Cardinality(Before(A, b[1])) = i - 1
      BY <1>6, <3>1
    <3>3. i - 1 = skip + k - 1
      BY <1>n, <1>3 DEF i
    <3> QED
      BY <3>2, <3>3, Zenon
  <2>0. \E b \in T : Cardinality(Before(T, b[1])) = k - 1
    BY <1>6
  <2>3. First(k) \in A /\ Cardinality(Before(A, First(k)[1])) = skip + k - 1
    BY <2>2
  <2>4. Nth(k) \in T /\ Cardinality(Before(T, Nth(k)[1])) = k - 1
    BY <2>0
  <2> QED
    BY <2>3, <2>4
<1> HIDE DEF First, Nth
\* The two labels are the same string.
<1>10. ASSUME NEW k \in 1..n
       PROVE  /\ SubSeq(a, First(k)[1], First(k)[2]) = SubSeq(t, Nth(k)[1], Nth(k)[2])
              /\ First(k)[2] - First(k)[1] = Nth(k)[2] - Nth(k)[1]
              /\ First(k)[1] \in Int /\ First(k)[2] \in Int /\ Nth(k)[1] \in Int /\ Nth(k)[2] \in Int
  <2>1. skip + k \in 1..m /\ (skip + k) - 1 = skip + k - 1
    BY <1>n, <1>3
  <2>2. SubSeq(a, First(k)[1], First(k)[2]) = SubSeq(t, Nth(k)[1], Nth(k)[2])
    <3>1. LabelsOf(a)[skip + k] = SubSeq(a, First(k)[1], First(k)[2])
      BY <1>4, <1>9, <2>1, Zenon
    <3>2. LabelsOf(t)[k] = SubSeq(t, Nth(k)[1], Nth(k)[2])
      BY <1>4, <1>9, Zenon
    <3> QED
      BY <1>3, <3>1, <3>2, Zenon
  <2> DEFINE x == First(k)[1]
             y == First(k)[2]
             v == Nth(k)[1]
             w == Nth(k)[2]
  <2>3. /\ x \in 1..Len(a) + 1 /\ y \in 0..Len(a) /\ v \in 1..Len(t) + 1 /\ w \in 0..Len(t)
        /\ x - 1 < y + 1 /\ v - 1 < w + 1
    BY <1>1, <1>2, <1>9 DEF Adjacent
  <2> HIDE DEF x, y, v, w
  <2>4. Len(SubSeq(a, x, y)) = (IF x <= y THEN y - x + 1 ELSE 0) /\ Len(SubSeq(t, v, w)) = IF v <= w THEN w - v + 1 ELSE 0
    BY <1>7, <2>3
  <2>5. (IF x <= y THEN y - x + 1 ELSE 0) = (IF v <= w THEN w - v + 1 ELSE 0)
    BY <2>2, <2>4 DEF x, y, v, w
  <2>6. x \in Int /\ y \in Int /\ v \in Int /\ w \in Int
    BY <1>1, <2>3
  <2>7. y - x = w - v
    BY <2>3, <2>5, <2>6
  <2> QED
    BY <2>2, <2>6, <2>7 DEF x, y, v, w
\* From the last label back, they start f positions apart.
<1>11. ASSUME NEW k \in 1..n PROVE First(k)[1] = Nth(k)[1] + f /\ First(k)[2] = Nth(k)[2] + f
  <2> DEFINE Off == {i \in 1..n : First(i)[2] # Nth(i)[2] + f}
  <2>1. Off = {}
    <3> SUFFICES ASSUME Off # {} PROVE FALSE
      OBVIOUS
    <3>1. PICK i \in Off : \A j \in Off : j <= i
      <4>1. Off \subseteq 0..n
        BY <1>1
      <4> HIDE DEF Off
      <4> QED
        BY <1>1, <4>1, Largest
    <3>2. i \in 1..n /\ skip + i \in 1..m /\ (skip + i) - 1 = skip + i - 1
      BY <1>1, <1>3, <3>1
    <3>3. CASE i = n
      <4>1. skip + i = m
        BY <1>3, <3>3
      <4>2. First(i)[2] = Len(a) /\ Nth(i)[2] = Len(t)
        BY <1>5, <1>9, <3>2, <3>3, <4>1
      <4> QED
        BY <1>1, <3>1, <4>2
    <3>4. CASE i # n
      <4>1. i + 1 \in 1..n /\ ~(i + 1 <= i) /\ skip + (i + 1) - 1 = skip + i /\ (i + 1) - 1 = i
        BY <1>n, <1>3, <3>2, <3>4
      <4>0. i + 1 \notin Off
        <5> HIDE DEF Off
        <5> QED
          BY <3>1, <4>1
      <4>2. First(i + 1)[1] = First(i)[2] + 2 /\ Nth(i + 1)[1] = Nth(i)[2] + 2
        <5>1. First(i + 1) \in A /\ Cardinality(Before(A, First(i + 1)[1])) = skip + i
          BY <1>9, <4>1
        <5>2. Nth(i + 1) \in T /\ Cardinality(Before(T, Nth(i + 1)[1])) = i
          BY <1>9, <4>1
        <5>3. /\ First(i) \in A /\ Cardinality(Before(A, First(i)[1])) = (skip + i) - 1
              /\ Nth(i) \in T /\ Cardinality(Before(T, Nth(i)[1])) = i - 1
          BY <1>9, <3>2
        <5> QED
          BY <1>5, <3>2, <5>1, <5>2, <5>3
      <4>3. First(i + 1)[2] = Nth(i + 1)[2] + f
        BY <4>0, <4>1
      <4>4. /\ First(i + 1)[2] - First(i + 1)[1] = Nth(i + 1)[2] - Nth(i + 1)[1]
            /\ First(i + 1)[1] \in Int /\ First(i + 1)[2] \in Int /\ Nth(i + 1)[1] \in Int /\ Nth(i + 1)[2] \in Int
        BY <1>10, <4>1
      <4>5. First(i)[2] \in Int /\ Nth(i)[2] \in Int
        BY <1>10, <3>2
      <4>6. First(i + 1)[1] = Nth(i + 1)[1] + f
        <5> DEFINE x == First(i + 1)[1]
                   y == First(i + 1)[2]
                   v == Nth(i + 1)[1]
                   w == Nth(i + 1)[2]
        <5>1. x \in Int /\ y \in Int /\ v \in Int /\ w \in Int /\ f \in Int /\ y - x = w - v /\ y = w + f
          BY <1>n, <4>3, <4>4
        <5> HIDE DEF x, y, v, w
        <5>2. x = v + f
          BY <5>1
        <5> QED
          BY <5>2 DEF x, v
      <4>7. First(i)[2] = Nth(i)[2] + f
        <5> DEFINE y == First(i)[2]
                   w == Nth(i)[2]
                   x == First(i + 1)[1]
                   v == Nth(i + 1)[1]
        <5>1. y \in Int /\ w \in Int /\ f \in Int /\ x = y + 2 /\ v = w + 2 /\ x = v + f
          BY <1>n, <4>2, <4>5, <4>6
        <5> HIDE DEF x, y, v, w
        <5>2. y = w + f
          BY <5>1
        <5> QED
          BY <5>2 DEF y, w
      <4> QED
        BY <3>1, <4>7
    <3> QED
      BY <3>3, <3>4
  <2>2. First(k)[2] = Nth(k)[2] + f
    BY <2>1
  <2>3. First(k)[1] = Nth(k)[1] + f
    <3> DEFINE x == First(k)[1]
               y == First(k)[2]
               v == Nth(k)[1]
               w == Nth(k)[2]
    <3>1. x \in Int /\ y \in Int /\ v \in Int /\ w \in Int /\ f \in Int /\ y - x = w - v /\ y = w + f
      BY <1>n, <1>10, <2>2
    <3> HIDE DEF x, y, v, w
    <3>2. x = v + f
      BY <3>1
    <3> QED
      BY <3>2 DEF x, v
  <2> QED
    BY <2>2, <2>3
\* Every label of t is one of these.
<1>12. ASSUME NEW b \in T PROVE \E k \in 1..n : b = Nth(k)
  <2> DEFINE r == Cardinality(Before(T, b[1]))
  <2>1. r \in Nat
    BY <1>6
  <2>2. r < n
    <3>1. Before(T, b[1]) \in SUBSET T /\ b \notin Before(T, b[1])
      BY <1>1 DEF Before
    <3>2. r <= n /\ r # n
      BY <1>1, <3>1, FS_Subset DEF n
    <3> QED
      BY <1>1, <2>1, <3>2
  <2> HIDE DEF r
  <2>3. r + 1 \in 1..n /\ (r + 1) - 1 = r
    BY <1>1, <2>1, <2>2
  <2>4. Nth(r + 1) \in T /\ Cardinality(Before(T, Nth(r + 1)[1])) = Cardinality(Before(T, b[1]))
    BY <1>9, <2>3 DEF r
  <2>5. b = Nth(r + 1)
    BY <1>6, <2>4
  <2> QED
    BY <2>3, <2>5
<1>13. ASSUME NEW j \in 0..Len(t) PROVE
         \/ j \in Cuts(t) /\ j + f \in Cuts(a)
         \/ j \notin Cuts(t) /\ a[j + f] = t[j] /\ j + f \in 1..Len(a)
  <2>1. PICK b \in T : b[1] - 1 <= j /\ j <= b[2] /\ (j \in Cuts(t) => b[1] = j + 1)
    BY <1>8
  <2>2. PICK k \in 1..n : b = Nth(k)
    BY <1>12
  <2> DEFINE c == First(k)
  <2>3. c \in A /\ c[1] = b[1] + f /\ c[2] = b[2] + f /\ SubSeq(a, c[1], c[2]) = SubSeq(t, b[1], b[2])
    BY <1>9, <1>10, <1>11, <2>2
  <2>4. /\ c[1] \in 1..Len(a) + 1 /\ c[2] \in 0..Len(a) /\ b[1] \in 1..Len(t) + 1 /\ b[2] \in 0..Len(t)
        /\ c[1] - 1 \in Cuts(a) /\ b[1] - 1 \in Cuts(t) /\ c[1] \in Int /\ c[2] \in Int /\ b[1] \in Int /\ b[2] \in Int
    BY <1>1, <1>2, <2>3 DEF Adjacent
  <2> HIDE DEF c
  <2>5. CASE j \in Cuts(t)
    <3>1. c[1] - 1 = j + f
      BY <1>1, <2>1, <2>3, <2>4, <2>5
    <3> QED
      BY <2>4, <2>5, <3>1
  <2>6. CASE j \notin Cuts(t)
    <3>1. b[1] - 1 # j
      BY <2>4, <2>6
    <3>2. b[1] <= j /\ j <= b[2]
      BY <1>1, <2>1, <2>4, <3>1
    <3> DEFINE i == j - b[1] + 1
    <3>3. /\ i \in 1..b[2] - b[1] + 1 /\ c[2] - c[1] + 1 = b[2] - b[1] + 1
          /\ b[1] + i - 1 = j /\ c[1] + i - 1 = j + f /\ j + f \in 1..Len(a)
      <4> DEFINE x == c[1]
                 y == c[2]
                 v == b[1]
                 w == b[2]
                 na == Len(a)
      <4>1. /\ x = v + f /\ y = w + f /\ v <= j /\ j <= w /\ f \in Int /\ na \in Nat /\ j \in Int
            /\ x \in 1..na + 1 /\ y \in 0..na /\ v \in Int /\ w \in Int
        BY <1>n, <2>3, <2>4, <3>2
      <4> HIDE DEF x, y, v, w, na
      <4>2. /\ j - v + 1 \in 1..w - v + 1 /\ y - x + 1 = w - v + 1
            /\ v + (j - v + 1) - 1 = j /\ x + (j - v + 1) - 1 = j + f /\ j + f \in 1..na
        BY <4>1
      <4> QED
        BY <4>2 DEF x, y, v, w, na
    <3> HIDE DEF i
    <3>4. SubSeq(t, b[1], b[2])[i] = t[j]
      BY <1>7, <2>4, <3>3
    <3>5. SubSeq(a, c[1], c[2])[i] = a[j + f]
      <4>1. i \in 1..c[2] - c[1] + 1
        BY <3>3
      <4>2. SubSeq(a, c[1], c[2])[i] = a[c[1] + i - 1]
        BY <1>7, <2>4, <4>1
      <4> QED
        BY <3>3, <4>2
    <3> QED
      BY <2>3, <2>6, <3>3, <3>4, <3>5
  <2> QED
    BY <2>5, <2>6
<1>14. /\ \A k \in 1..Len(a) : k \in Cuts(a) <=> a[k] = Dot
       /\ \A k \in 1..Len(t) : k \in Cuts(t) <=> t[k] = Dot
       /\ 0 \in Cuts(t) /\ Cuts(a) \subseteq 0..Len(a) + 1
  BY CutsAreNaturals
<1>15. f \in Nat /\ Len(a) = f + Len(t) /\ f \in Cuts(a)
  <2>1. 0 \in 0..Len(t) /\ 0 + f = f
    BY <1>1
  <2>2. f \in Cuts(a)
    BY <1>13, <1>14, <2>1
  <2> QED
    BY <1>1, <1>14, <2>2
<1>16. ASSUME NEW j \in 1..Len(t) PROVE a[f + j] = t[j]
  <2>1. j \in 0..Len(t) /\ f + j \in 1..Len(a) /\ j + f = f + j
    BY <1>1, <1>15
  <2> QED
    BY <1>13, <1>14, <2>1
<1>17. CASE f = 0
  <2>1. Len(a) = Len(t)
    BY <1>1, <1>15, <1>17
  <2>2. \A j \in 1..Len(a) : a[j] = t[j]
    <3> SUFFICES ASSUME NEW j \in 1..Len(a) PROVE a[j] = t[j]
      OBVIOUS
    <3>1. j \in 1..Len(t) /\ f + j = j
      BY <1>1, <1>17, <2>1
    <3> QED
      BY <1>16, <3>1
  <2> QED
    BY <2>1, <2>2, SeqEqual
<1>18. CASE f # 0
  <2>1. f \in 1..Len(a) /\ f \in Nat \ {0}
    BY <1>1, <1>15, <1>18
  <2>2. a[f] = Dot
    BY <1>14, <1>15, <2>1
  <2>3. Extends(a, t, f)
    BY <1>15, <1>16, <2>1, <2>2 DEF Extends
  <2> QED
    BY <2>3 DEF f
<1> QED
  BY <1>17, <1>18

\* What lies under t ends in t after a dot.
LEMMA ExtendsEnds ==
  ASSUME NEW a \in Seq(Characters), NEW t \in Seq(Characters), NEW f, Extends(a, t, f)
  PROVE  f = Len(a) - Len(t) /\ f > 0 /\ SubSeq(a, f, Len(a)) = <<Dot>> \o t
<1> DEFINE m == Len(a)
           n == Len(t)
           d == <<Dot>>
           e == d \o t
           q == SubSeq(a, f, m)
<1>1. m \in Nat /\ n \in Nat /\ f \in Nat \ {0} /\ m = f + n
  BY LenProperties DEF Extends
<1>2. a[f] = Dot /\ \A j \in 1..n : a[f + j] = t[j]
  BY DEF Extends
<1>3. d \in Seq(Characters) /\ Len(d) = 1 /\ d[1] = Dot
  BY DEF Characters
<1> HIDE DEF d
<1>4. /\ e \in Seq(Characters) /\ Len(e) = Len(d) + n
      /\ \A i \in 1..Len(d) + n : e[i] = IF i <= Len(d) THEN d[i] ELSE t[i - Len(d)]
  BY <1>3, ConcatProperties
<1> HIDE DEF e
<1>5. Len(e) = 1 + n /\ \A i \in 1..1 + n : e[i] = IF i <= 1 THEN d[i] ELSE t[i - 1]
  BY <1>3, <1>4
<1>6. /\ q \in Seq(Characters) /\ Len(q) = IF f <= m THEN m - f + 1 ELSE 0
      /\ \A k \in 1..m - f + 1 : q[k] = a[f + k - 1]
  <2>1. f \in 1..m + 1 /\ m \in 0..m
    <3> HIDE DEF m, n
    <3> QED
      BY <1>1
  <2> QED
    BY <2>1, Part
<1> HIDE DEF m, n, q
<1>7. Len(q) = 1 + n /\ m - f + 1 = 1 + n
  BY <1>1, <1>6
<1>8. ASSUME NEW i \in 1..1 + n PROVE q[i] = e[i]
  <2>1. q[i] = a[f + i - 1] /\ i \in Int /\ i >= 1 /\ i <= 1 + n
    BY <1>1, <1>6, <1>7
  <2>2. CASE i = 1
    <3>1. f + i - 1 = f
      BY <1>1, <2>2
    <3> QED
      BY <1>2, <1>3, <1>5, <2>1, <2>2, <3>1
  <2>3. CASE i # 1
    <3>1. i - 1 \in 1..n /\ f + i - 1 = f + (i - 1) /\ ~(i <= 1)
      BY <1>1, <2>1, <2>3
    <3>2. a[f + (i - 1)] = t[i - 1]
      BY <1>2, <3>1
    <3> QED
      BY <1>5, <2>1, <3>1, <3>2
  <2> QED
    BY <2>2, <2>3
<1>9. q = e
  BY <1>4, <1>5, <1>6, <1>7, <1>8, SeqEqual
<1>10. f = m - n /\ f > 0
  BY <1>1
<1> QED
  BY <1>9, <1>10 DEF q, e, d, m, n

LEMMA BaseIsName ==
  ASSUME NEW n \in Seq(Characters)
  PROVE  Base(n) \in Seq(Characters)
<1>1. CASE IsWildcard(n)
  <2> DEFINE k == Len(n)
  <2>1. k \in Nat /\ k >= 2
    BY <1>1, LenProperties DEF IsWildcard
  <2>2. 3 \in 1..k + 1 /\ k \in 0..k
    <3> HIDE DEF k
    <3> QED
      BY <2>1
  <2> QED
    BY <1>1, <2>2, Part DEF Base
<1>2. CASE ~IsWildcard(n)
  BY <1>2 DEF Base
<1> QED
  BY <1>1, <1>2

\* MatchesSuffix compares characters: the whole name, or what follows a dot.  For any
\* name and suffix it decides whether the name lies at or under the suffix, label by label.
THEOREM MatchesSuffixExact ==
  \A name, suffix \in Seq(Characters) :
    name # <<>> /\ suffix # <<>> => (MatchesSuffix(name, suffix) <=> UnderSuffix(Base(name), suffix))
<1> SUFFICES ASSUME NEW name \in Seq(Characters), NEW suffix \in Seq(Characters),
                    name # <<>>, suffix # <<>>
             PROVE  MatchesSuffix(name, suffix) <=> UnderSuffix(Base(name), suffix)
  OBVIOUS
<1>1. Base(name) \in Seq(Characters)
  BY BaseIsName
<1>2. ASSUME MatchesSuffix(name, suffix) PROVE UnderSuffix(Base(name), suffix)
  BY <1>1, <1>2, MatchIsUnder
<1>3. ASSUME UnderSuffix(Base(name), suffix) PROVE MatchesSuffix(name, suffix)
  <2> DEFINE base == Base(name)
             f == Len(base) - Len(suffix)
  <2>1. base = suffix \/ Extends(base, suffix, f)
    BY <1>1, <1>3, UnderIsEnding
  <2>2. base = suffix \/ (f > 0 /\ SubSeq(base, f, Len(base)) = <<Dot>> \o suffix)
    BY <1>1, <2>1, ExtendsEnds
  <2> QED
    BY <2>2, Zenon DEF MatchesSuffix
<1> QED
  BY <1>2, <1>3

\* One name in normal form.
LEMMA EvaluateExact ==
  ASSUME NEW n \in Seq(Characters), NormalizeFQDN(n) = n, n # Refused,
         NEW S, \A s \in S : s \in Seq(Characters) /\ NormalizeSuffix(s) = s /\ s # Refused,
         NEW wild
  PROVE  Evaluate(n, S, wild) <=>
           /\ LabelsOf(n)[1] = <<Wildcard>> => wild
           /\ \E s \in S : UnderSuffix(IF LabelsOf(n)[1] = <<Wildcard>>
                                         THEN SubSeq(n, 3, Len(n)) ELSE n, s)
<1> DEFINE base == IF LabelsOf(n)[1] = <<Wildcard>> THEN SubSeq(n, 3, Len(n)) ELSE n
<1>1. WellFormed(n)
  BY NormalForm
<1>2. LabelsOf(n)[1] = <<Wildcard>> <=> IsWildcard(n)
  BY <1>1, WildcardLabel
<1>3. base = Base(n)
  BY <1>2, Zenon DEF Base
<1> HIDE DEF base
<1>4. \A s \in S : MatchesSuffix(n, NormalizeSuffix(s)) <=> UnderSuffix(base, s)
  BY <1>3, MatchesSuffixExact DEF Refused
<1>5. ASSUME Evaluate(n, S, wild)
      PROVE  (LabelsOf(n)[1] = <<Wildcard>> => wild) /\ \E s \in S : UnderSuffix(base, s)
  BY <1>2, <1>4, <1>5, Zenon DEF Evaluate
<1>6. ASSUME LabelsOf(n)[1] = <<Wildcard>> => wild, NEW s \in S, UnderSuffix(base, s)
      PROVE  Evaluate(n, S, wild)
  <2>1. S # {} /\ \A r \in S : NormalizeSuffix(r) # Refused
    BY <1>6, Zenon
  <2>2. (IsWildcard(n) => wild) /\ \E r \in S : MatchesSuffix(n, NormalizeSuffix(r))
    BY <1>2, <1>4, <1>6, Zenon
  <2> QED
    BY <2>1, <2>2, Zenon DEF Evaluate
<1>7. Evaluate(n, S, wild) <=> (LabelsOf(n)[1] = <<Wildcard>> => wild) /\ \E s \in S : UnderSuffix(base, s)
  BY <1>5, <1>6, Zenon
<1> QED
  BY <1>7, Zenon DEF base

\* One direction, where nothing is known of the suffixes but their form.
LEMMA EvaluateIsReference ==
  ASSUME NEW n \in Seq(Characters), NormalizeFQDN(n) = n,
         NEW S, \A s \in S : s \in Seq(Characters) /\ NormalizeSuffix(s) = s,
         NEW wild, Evaluate(n, S, wild)
  PROVE  /\ LabelsOf(n)[1] = <<Wildcard>> => wild
         /\ \E s \in S : UnderSuffix(IF LabelsOf(n)[1] = <<Wildcard>>
                                       THEN SubSeq(n, 3, Len(n)) ELSE n, s)
<1>1. n # Refused /\ \A s \in S : NormalizeSuffix(s) # Refused
  BY Zenon DEF Evaluate
<1>2. \A s \in S : s # Refused
  BY <1>1
<1> QED
  BY <1>1, <1>2, EvaluateExact

LEMMA DistinctAreCounted ==
  ASSUME NEW S, NEW names \in Seq(S), CheckDistinct(names)
  PROVE  Cardinality({names[i] : i \in DOMAIN names}) = Len(names)
<1> DEFINE n == Len(names)
           R == {names[i] : i \in DOMAIN names}
<1>1. n \in Nat /\ DOMAIN names = 1..n /\ names \in [1..n -> S]
  BY LenProperties
<1>2. names \in [1..n -> R] /\ \A r \in R : \E i \in 1..n : names[i] = r
  BY <1>1
<1>3. \A i, j \in 1..n : names[i] = names[j] => i = j
  BY <1>1 DEF CheckDistinct
<1> HIDE DEF n, R
<1>4. names \in Bijection(1..n, R)
  BY <1>2, <1>3 DEF Bijection, Injection, Surjection, IsInjective
<1>5. Cardinality(R) = n
  <2>1. ExistsBijection(1..n, R)
    BY <1>4 DEF ExistsBijection
  <2> QED
    BY <1>1, <2>1, FS_CountingElements
<1> QED
  BY <1>5 DEF n, R

LEMMA CountedAreDistinct ==
  ASSUME NEW S, NEW names \in Seq(S), Cardinality({names[i] : i \in DOMAIN names}) = Len(names)
  PROVE  CheckDistinct(names)
<1> DEFINE n == Len(names)
           R == {names[i] : i \in DOMAIN names}
<1>1. n \in Nat /\ DOMAIN names = 1..n /\ names \in [1..n -> S]
  BY LenProperties
<1>2. names \in [1..n -> R] /\ \A r \in R : \E i \in 1..n : names[i] = r
  BY <1>1
<1>3. Cardinality(R) = n
  OBVIOUS
<1> HIDE DEF n, R
<1>4. names \in Surjection(1..n, R)
  BY <1>2 DEF Surjection
<1>5. IsFiniteSet(1..n) /\ Cardinality(1..n) = n
  <2>0. n \in Nat
    BY <1>1
  <2>1. 1 \in Int /\ n \in Int
    BY <2>0
  <2>2. IsFiniteSet(1..n)
    BY <2>1, FS_Interval
  <2>3. Cardinality(1..n) = IF 1 > n THEN 0 ELSE n - 1 + 1
    BY <2>1, FS_Interval
  <2> QED
    BY <2>0, <2>2, <2>3
<1>6. names \in Injection(1..n, R)
  BY <1>3, <1>4, <1>5, FS_SurjSameCardinalityImpliesInj
<1> QED
  BY <1>1, <1>6 DEF CheckDistinct, Injection, IsInjective

\* The code's check of a certificate's names (Evaluate, CheckDistinct, CheckCount) accepts
\* exactly what the reference allows, for any names and suffixes in normal form.
THEOREM NamesAllowedExact ==
  ASSUME NEW names \in Seq(Seq(Characters)), NEW p, p.maxSANs \in Nat \ {0},
         \A i \in DOMAIN names : NormalizeFQDN(names[i]) = names[i] /\ names[i] # Refused,
         \A s \in p.suffixes : s \in Seq(Characters) /\ NormalizeSuffix(s) = s /\ s # Refused
  PROVE  NamesAllowed(names, p.suffixes, p.allowWildcard, p.maxSANs) <=> Allowed(names, p)
<1>1. CheckDistinct(names) <=> Cardinality({names[i] : i \in DOMAIN names}) = Len(names)
  BY DistinctAreCounted, CountedAreDistinct
<1>2. CheckCount(Len(names), p.maxSANs) <=> Len(names) <= p.maxSANs
  BY DEF CheckCount
<1>3. ASSUME NEW i \in DOMAIN names
      PROVE  Evaluate(names[i], p.suffixes, p.allowWildcard) <=>
               /\ LabelsOf(names[i])[1] = <<Wildcard>> => p.allowWildcard
               /\ \E s \in p.suffixes :
                    UnderSuffix(IF LabelsOf(names[i])[1] = <<Wildcard>>
                                  THEN SubSeq(names[i], 3, Len(names[i])) ELSE names[i], s)
  <2>1. names[i] \in Seq(Characters)
    BY LenProperties, ElementOfSeq
  <2> QED
    BY <2>1, EvaluateExact
<1> QED
  BY <1>1, <1>2, <1>3, Zenon DEF NamesAllowed, Allowed

\* Names and suffixes in normal form that pass the code's check satisfy the reference.
LEMMA CheckIsReference ==
  ASSUME NEW names \in Seq(Seq(Characters)), \A i \in DOMAIN names : NormalizeFQDN(names[i]) = names[i],
         NEW p, \A s \in p.suffixes : s \in Seq(Characters) /\ NormalizeSuffix(s) = s,
         p.maxSANs \in Nat \ {0},
         NamesAllowed(names, p.suffixes, p.allowWildcard, p.maxSANs)
  PROVE  Allowed(names, p)
<1>1. Cardinality({names[i] : i \in DOMAIN names}) = Len(names)
  BY DistinctAreCounted DEF NamesAllowed
<1>2. Len(names) <= p.maxSANs
  BY DEF NamesAllowed, CheckCount
<1>3. ASSUME NEW i \in DOMAIN names
      PROVE  /\ LabelsOf(names[i])[1] = <<Wildcard>> => p.allowWildcard
             /\ \E s \in p.suffixes :
                  UnderSuffix(IF LabelsOf(names[i])[1] = <<Wildcard>>
                                THEN SubSeq(names[i], 3, Len(names[i])) ELSE names[i], s)
  <2>1. names[i] \in Seq(Characters)
    BY LenProperties, ElementOfSeq
  <2>2. Evaluate(names[i], p.suffixes, p.allowWildcard)
    BY DEF NamesAllowed
  <2> QED
    BY <2>1, <2>2, EvaluateIsReference
<1> QED
  BY <1>1, <1>2, <1>3, Zenon DEF Allowed

\* The fields of a target's row are names in normal form.
LEMMA RowFields ==
  ASSUME NEW row \in TargetRow
  PROVE  /\ row.fqdn \in Seq(Characters) /\ NormalizeFQDN(row.fqdn) = row.fqdn
         /\ row.additional \in Seq(Seq(Characters))
         /\ \A i \in DOMAIN row.additional : NormalizeFQDN(row.additional[i]) = row.additional[i]
<1> DEFINE fqdn == row.fqdn
           more == row.additional
<1>1. PICK in1 \in TargetInputs : fqdn = NormalizeFQDN(in1.fqdn)
  BY DEF TargetRow
<1>2. PICK in2 \in TargetInputs : more = NormalizeAdditionalNames(in2.additional)
  BY DEF TargetRow
<1> HIDE DEF fqdn, more
<1>3. fqdn \in Seq(Characters) /\ NormalizeFQDN(fqdn) = fqdn
  BY <1>1, NameAssumptions, NormalForm
<1> DEFINE given == in2.additional
           n == Len(given)
<1>4. given \in Seq(Seq(Characters))
  BY NameAssumptions
<1> HIDE DEF given
<1>5. n \in Nat /\ DOMAIN given = 1..n /\ \A i \in 1..n : given[i] \in Seq(Characters)
  BY <1>4, LenProperties, ElementOfSeq
<1> HIDE DEF n
<1>6. more = [i \in 1..n |-> NormalizeFQDN(given[i])]
  BY <1>2, <1>5 DEF NormalizeAdditionalNames, given
<1>7. \A i \in 1..n : /\ NormalizeFQDN(given[i]) \in Seq(Characters)
                      /\ NormalizeFQDN(NormalizeFQDN(given[i])) = NormalizeFQDN(given[i])
  BY <1>5, NormalForm
<1>8. more \in [1..n -> Seq(Characters)] /\ \A i \in 1..n : NormalizeFQDN(more[i]) = more[i]
  BY <1>6, <1>7
<1>9. more \in Seq(Seq(Characters)) /\ DOMAIN more = 1..n
  BY <1>5, <1>8, SeqDef
<1> QED
  BY <1>3, <1>8, <1>9 DEF fqdn, more

\* The names of a row: its FQDN, then the others.
LEMMA RowNames ==
  ASSUME NEW row \in TargetRow
  PROVE  /\ NamesOf(row) \in Seq(Seq(Characters))
         /\ \A i \in DOMAIN NamesOf(row) :
              \/ NamesOf(row)[i] = row.fqdn
              \/ \E j \in DOMAIN row.additional : NamesOf(row)[i] = row.additional[j]
<1> DEFINE more == row.additional
           first == <<row.fqdn>>
           names == first \o more
<1>1. more \in Seq(Seq(Characters)) /\ row.fqdn \in Seq(Characters)
  BY RowFields
<1>2. first \in Seq(Seq(Characters)) /\ Len(first) = 1 /\ first[1] = row.fqdn
  BY <1>1
<1>3. DOMAIN more = 1..Len(more) /\ Len(more) \in Nat
  BY <1>1, LenProperties
<1> HIDE DEF first, more
<1>4. /\ names \in Seq(Seq(Characters)) /\ Len(names) = Len(first) + Len(more)
      /\ \A j \in 1..Len(first) + Len(more) :
           names[j] = IF j <= Len(first) THEN first[j] ELSE more[j - Len(first)]
  BY <1>1, <1>2, ConcatProperties
<1>5. NamesOf(row) = names
  BY DEF NamesOf, AllNames, first, more
<1> HIDE DEF names
<1>6. ASSUME NEW i \in DOMAIN names
      PROVE  names[i] = row.fqdn \/ \E j \in DOMAIN more : names[i] = more[j]
  <2>1. i \in 1..1 + Len(more) /\ names[i] = IF i <= 1 THEN first[i] ELSE more[i - 1]
    BY <1>2, <1>4, LenProperties
  <2>2. CASE i <= 1
    <3>1. i = 1
      BY <1>3, <2>1, <2>2
    <3> QED
      BY <1>2, <2>1, <3>1
  <2>3. CASE ~(i <= 1)
    <3>1. i - 1 \in DOMAIN more
      BY <1>3, <2>1, <2>3
    <3> QED
      BY <2>1, <2>3, <3>1
  <2> QED
    BY <2>2, <2>3
<1> QED
  BY <1>4, <1>5, <1>6 DEF more

LEMMA RowNamesNormal ==
  ASSUME NEW row \in TargetRow
  PROVE  /\ NamesOf(row) \in Seq(Seq(Characters))
         /\ \A i \in DOMAIN NamesOf(row) : NormalizeFQDN(NamesOf(row)[i]) = NamesOf(row)[i]
BY RowFields, RowNames

\* A policy's suffixes are in normal form, and it allows at least one name.
LEMMA RowSuffixesNormal ==
  ASSUME NEW p \in PolicyRow
  PROVE  p.maxSANs \in Nat \ {0} /\ \A s \in p.suffixes : s \in Seq(Characters) /\ NormalizeSuffix(s) = s
<1>1. p.maxSANs \in 1..MaxNames
  BY DEF PolicyRow
<1>2. PICK in \in PolicyInputs : p.suffixes = {NormalizeSuffix(x) : x \in in.suffixes}
  BY DEF PolicyRow
<1>3. ASSUME NEW s \in p.suffixes PROVE s \in Seq(Characters) /\ NormalizeSuffix(s) = s
  <2>1. PICK x \in in.suffixes : s = NormalizeSuffix(x)
    BY <1>2
  <2>2. x \in Seq(Characters)
    BY NameAssumptions
  <2> QED
    BY <2>1, <2>2, NormalSuffix
<1> QED
  BY <1>1, <1>3, AdminAssumptions

\* A target that passes the check of a policy is allowed by it.
LEMMA CheckedIsAllowed ==
  ASSUME NEW row \in TargetRow, NEW p \in PolicyRow, CheckNames(row, p)
  PROVE  Allowed(NamesOf(row), p)
<1>1. NamesAllowed(NamesOf(row), p.suffixes, p.allowWildcard, p.maxSANs)
  BY DEF CheckNames
<1> QED
  BY <1>1, RowNamesNormal, RowSuffixesNormal, CheckIsReference

-----------------------------------------------------------------------------
(* Invariants *)

Steps == {"idle", "listTargets", "writePolicy", "insertTarget", "checkPolicy", "writeTarget", "writeEnabled"}
PolicyEdits == {"listTargets", "writePolicy"}
TargetEdits == {"checkPolicy", "writeTarget", "writeEnabled"}

\* A session is a record of these fields; what they hold depends on the step.
IsSession(s) ==
  s = [at |-> s.at, policy |-> s.policy, target |-> s.target, row |-> s.row,
       read |-> s.read, overtaken |-> s.overtaken]

Shape ==
  /\ policies \in [Policies -> PolicyRow \cup {NoRow}]
  /\ targets \in [Targets -> TargetRow \cup {NoRow}]
  /\ consumers = [t \in Targets |-> consumers[t]]
  /\ session = [h \in Handlers |-> session[h]]
  /\ \A h \in Handlers : IsSession(session[h]) /\ session[h].at \in Steps

\* A policy's suffixes and a target's names are names the code did not refuse.
Usable(row) == row.suffixes # {} /\ \A s \in row.suffixes : s # Refused
Named(row) == row.fqdn # Refused /\ \A i \in DOMAIN row.additional : row.additional[i] # Refused

\* A target's policy exists.
Stored == \A t \in Targets : targets[t] # NoRow => policies[targets[t].policy] # NoRow

\* A new target has no row before its insert.
Creating(s) ==
  s.at = "insertTarget" =>
    /\ s.target \in Targets /\ targets[s.target] = NoRow
    /\ s.row \in TargetRow /\ ~s.row.retired /\ s.row.policy = s.policy
    /\ policies[s.policy] # NoRow

\* The row an edit was made from is the stored one unless the revision has moved on.
Editing(s) ==
  s.at \in TargetEdits =>
    /\ s.target \in Targets /\ s.row \in TargetRow /\ ~s.row.retired /\ s.read \in TargetRow
    /\ targets[s.target] \in TargetRow
    /\ s.read.revision <= targets[s.target].revision
    /\ s.read.revision = targets[s.target].revision => s.read = targets[s.target]
    /\ IF s.at = "writeEnabled"
         THEN NamesOf(s.row) = NamesOf(s.read) /\ s.row.policy = s.read.policy
         ELSE s.row.policy = s.policy
    /\ s.at = "writeTarget" => policies[s.policy] # NoRow

PolicyEditing(s) == s.at \in PolicyEdits => s.policy \in Policies /\ s.row \in PolicyRow

\* What a session has checked holds until another one overtakes it.
Checked(s) ==
  ~s.overtaken =>
    /\ s.at \in {"insertTarget", "writeTarget"} => CheckNames(s.row, policies[s.policy])
    /\ s.at = "writePolicy" => Offending(s.policy, s.row) = {}

SessionOK(s) == Creating(s) /\ Editing(s) /\ PolicyEditing(s) /\ Checked(s)

Sessions == \A h \in Handlers : SessionOK(session[h])

\* Two sessions never create the same target.
Fresh ==
  \A h, g \in Handlers :
    h # g /\ session[h].at = "insertTarget" /\ session[g].at = "insertTarget" =>
      session[h].target # session[g].target

\* The rows of target_names, name by name.
Owned(name, t) ==
  InService(t) /\ \E i \in DOMAIN NamesOf(targets[t]) : name = NamesOf(targets[t])[i]
Ownership ==
  /\ \A o \in owner : \E t \in Targets : Owned(o[1], t) /\ o = <<o[1], t>>
  /\ \A t \in Targets : \A n : Owned(n, t) => <<n, t>> \in owner
  /\ \A o1, o2 \in owner : o1[1] = o2[1] => o1 = o2

\* CoveredUnlessRaced in the terms of the code: the check the handlers make, not the
\* reference definition of what a policy allows.
CheckedUnlessRaced ==
  \A t \in Targets \ raced :
    InService(t) => CheckNames(targets[t], policies[targets[t].policy])

AdminInv == Shape /\ Stored /\ Sessions /\ Fresh /\ Ownership /\ CheckedUnlessRaced

-----------------------------------------------------------------------------
(* What the actions do to sessions. *)

SessionsShape ==
  /\ session = [h \in Handlers |-> session[h]]
  /\ \A h \in Handlers : IsSession(session[h]) /\ session[h].at \in Steps

\* All of a session but the history.
Same(g) ==
  /\ session'[g].at = session[g].at /\ session'[g].policy = session[g].policy
  /\ session'[g].target = session[g].target /\ session'[g].row = session[g].row
  /\ session'[g].read = session[g].read

Untouched(h) == \A g \in Handlers : g # h => session'[g] = session[g]

LEMMA IdleSession == IsSession(Idle) /\ Idle.at = "idle" /\ Idle.overtaken = FALSE
BY DEF IsSession, Idle

LEMMA SetSession ==
  ASSUME Shape, NEW h \in Handlers, NEW s, IsSession(s), s.at \in Steps,
         session' = [session EXCEPT ![h] = s]
  PROVE  SessionsShape' /\ session'[h] = s /\ Untouched(h)
<1>1. session'[h] = s /\ Untouched(h) /\ session' = [g \in Handlers |-> session'[g]]
  BY DEF Shape, Untouched
<1> QED
  BY <1>1 DEF Shape, SessionsShape, Untouched

LEMMA Marking ==
  ASSUME NEW s, IsSession(s), NEW b
  PROVE  LET o == [s EXCEPT !.overtaken = b]
         IN /\ IsSession(o) /\ o.overtaken = b /\ o.at = s.at /\ o.policy = s.policy
            /\ o.target = s.target /\ o.row = s.row /\ o.read = s.read
<1>1. [s EXCEPT !.overtaken = b] =
        [at |-> s.at, policy |-> s.policy, target |-> s.target, row |-> s.row,
         read |-> s.read, overtaken |-> b]
  BY DEF IsSession
<1> QED
  BY <1>1 DEF IsSession

LEMMA Overtaking ==
  ASSUME NEW s, IsSession(s)
  PROVE  LET o == [s EXCEPT !.overtaken = TRUE]
         IN /\ IsSession(o) /\ o.overtaken /\ o.at = s.at /\ o.policy = s.policy
            /\ o.target = s.target /\ o.row = s.row /\ o.read = s.read
BY Marking, Zenon

\* Setting one field of a session.
LEMMA SetAt ==
  ASSUME NEW s, IsSession(s), NEW v
  PROVE  LET o == [s EXCEPT !.at = v]
         IN /\ IsSession(o) /\ o.at = v /\ o.policy = s.policy /\ o.target = s.target
            /\ o.row = s.row /\ o.read = s.read /\ o.overtaken = s.overtaken
<1>1. [s EXCEPT !.at = v] =
        [at |-> v, policy |-> s.policy, target |-> s.target, row |-> s.row, read |-> s.read, overtaken |-> s.overtaken]
  BY DEF IsSession
<1> QED
  BY <1>1 DEF IsSession

LEMMA SetPolicy ==
  ASSUME NEW s, IsSession(s), NEW v
  PROVE  LET o == [s EXCEPT !.policy = v]
         IN /\ IsSession(o) /\ o.at = s.at /\ o.policy = v /\ o.target = s.target
            /\ o.row = s.row /\ o.read = s.read /\ o.overtaken = s.overtaken
<1>1. [s EXCEPT !.policy = v] =
        [at |-> s.at, policy |-> v, target |-> s.target, row |-> s.row, read |-> s.read, overtaken |-> s.overtaken]
  BY DEF IsSession
<1> QED
  BY <1>1 DEF IsSession

LEMMA SetTarget ==
  ASSUME NEW s, IsSession(s), NEW v
  PROVE  LET o == [s EXCEPT !.target = v]
         IN /\ IsSession(o) /\ o.at = s.at /\ o.policy = s.policy /\ o.target = v
            /\ o.row = s.row /\ o.read = s.read /\ o.overtaken = s.overtaken
<1>1. [s EXCEPT !.target = v] =
        [at |-> s.at, policy |-> s.policy, target |-> v, row |-> s.row, read |-> s.read, overtaken |-> s.overtaken]
  BY DEF IsSession
<1> QED
  BY <1>1 DEF IsSession

LEMMA SetRow ==
  ASSUME NEW s, IsSession(s), NEW v
  PROVE  LET o == [s EXCEPT !.row = v]
         IN /\ IsSession(o) /\ o.at = s.at /\ o.policy = s.policy /\ o.target = s.target
            /\ o.row = v /\ o.read = s.read /\ o.overtaken = s.overtaken
<1>1. [s EXCEPT !.row = v] =
        [at |-> s.at, policy |-> s.policy, target |-> s.target, row |-> v, read |-> s.read, overtaken |-> s.overtaken]
  BY DEF IsSession
<1> QED
  BY <1>1 DEF IsSession

LEMMA SetRead ==
  ASSUME NEW s, IsSession(s), NEW v
  PROVE  LET o == [s EXCEPT !.read = v]
         IN /\ IsSession(o) /\ o.at = s.at /\ o.policy = s.policy /\ o.target = s.target
            /\ o.row = s.row /\ o.read = v /\ o.overtaken = s.overtaken
<1>1. [s EXCEPT !.read = v] =
        [at |-> s.at, policy |-> s.policy, target |-> s.target, row |-> s.row, read |-> v, overtaken |-> s.overtaken]
  BY DEF IsSession
<1> QED
  BY <1>1 DEF IsSession

\* The sessions a written policy overtakes, and those a written target does.
LEMMA PolicyChangedEffect ==
  ASSUME Shape, NEW h \in Handlers, NEW p, session' = PolicyChanged(h, p)
  PROVE  /\ SessionsShape' /\ session'[h] = Idle
         /\ \A g \in Handlers : g # h =>
              /\ Same(g) /\ (session[g].overtaken => session'[g].overtaken)
              /\ session[g].at \in {"insertTarget", "writeTarget"} /\ session[g].policy = p =>
                   session'[g].overtaken
<1>1. ASSUME NEW g \in Handlers, g # h
      PROVE  /\ Same(g) /\ (session[g].overtaken => session'[g].overtaken)
             /\ IsSession(session'[g])
             /\ session[g].at \in {"insertTarget", "writeTarget"} /\ session[g].policy = p =>
                  session'[g].overtaken
  <2>1. session'[g] = IF session[g].at \in {"insertTarget", "writeTarget"} /\ session[g].policy = p
                        THEN [session[g] EXCEPT !.overtaken = TRUE] ELSE session[g]
    BY <1>1 DEF PolicyChanged
  <2>2. IsSession(session[g])
    BY DEF Shape
  <2> QED
    BY <2>1, <2>2, Overtaking DEF Same
<1>2. session'[h] = Idle /\ session' = [g \in Handlers |-> session'[g]]
  BY DEF PolicyChanged
<1> QED
  BY <1>1, <1>2, IdleSession DEF SessionsShape, Shape, Same, Steps

LEMMA TargetChangedEffect ==
  ASSUME Shape, NEW h \in Handlers, NEW p, session' = TargetChanged(h, p)
  PROVE  /\ SessionsShape' /\ session'[h] = Idle
         /\ \A g \in Handlers : g # h =>
              /\ Same(g) /\ (session[g].overtaken => session'[g].overtaken)
              /\ session[g].at = "writePolicy" /\ session[g].policy = p => session'[g].overtaken
<1>1. ASSUME NEW g \in Handlers, g # h
      PROVE  /\ Same(g) /\ (session[g].overtaken => session'[g].overtaken)
             /\ IsSession(session'[g])
             /\ session[g].at = "writePolicy" /\ session[g].policy = p => session'[g].overtaken
  <2>1. session'[g] = IF session[g].at = "writePolicy" /\ session[g].policy = p
                        THEN [session[g] EXCEPT !.overtaken = TRUE] ELSE session[g]
    BY <1>1 DEF TargetChanged
  <2>2. IsSession(session[g])
    BY DEF Shape
  <2> QED
    BY <2>1, <2>2, Overtaking DEF Same
<1>2. session'[h] = Idle /\ session' = [g \in Handlers |-> session'[g]]
  BY DEF TargetChanged
<1> QED
  BY <1>1, <1>2, IdleSession DEF SessionsShape, Shape, Same, Steps

\* A field of a request, or the one it leaves as it was.
LEMMA GivenIsEither ==
  ASSUME NEW option, NEW default
  PROVE  Given(option, default) = default \/ Given(option, default) \in option
BY DEF Given

\* What applyPolicyInput makes is a row.
LEMMA PolicyInputRow ==
  ASSUME NEW in \in PolicyInputs, NEW was, was \in PolicyRow \/ was = NewPolicy, PolicyInputValid(in, was)
  PROVE  ApplyPolicyInput(in, was) \in PolicyRow /\ Usable(ApplyPolicyInput(in, was))
<1> DEFINE Name == {""} \cup UNION {i.name : i \in PolicyInputs}
           Enabled == {TRUE} \cup UNION {i.enabled : i \in PolicyInputs}
<1>0. NewPolicy.name \in Name /\ NewPolicy.enabled \in Enabled
  <2>1. NewPolicy.name = "" /\ NewPolicy.enabled = TRUE
    BY Zenon DEF NewPolicy
  <2> QED
    BY <2>1, Zenon
<1>a. ASSUME NEW r \in PolicyRow PROVE r.name \in Name /\ r.enabled \in Enabled
  <2> HIDE DEF Name, Enabled
  <2>1. r \in [name : Name, acme : {i.acme : i \in PolicyInputs},
               suffixes : {{NormalizeSuffix(x) : x \in i.suffixes} : i \in PolicyInputs},
               allowWildcard : {i.allowWildcard : i \in PolicyInputs},
               maxSANs : 1..MaxNames, enabled : Enabled]
    BY DEF PolicyRow, Name, Enabled
  <2> QED
    BY <2>1
<1>1. was.name \in Name
  BY <1>0, <1>a, Zenon
<1>2. was.enabled \in Enabled
  BY <1>0, <1>a, Zenon
<1>3. Given(in.name, was.name) \in {""} \cup UNION {i.name : i \in PolicyInputs}
  BY <1>1, GivenIsEither
<1>4. Given(in.enabled, was.enabled) \in {TRUE} \cup UNION {i.enabled : i \in PolicyInputs}
  BY <1>2, GivenIsEither
<1>5. Given(in.maxSANs, was.maxSANs) \in 1..MaxNames
  BY DEF PolicyInputValid
<1>6. {NormalizeSuffix(x) : x \in in.suffixes} \in
        {{NormalizeSuffix(x) : x \in i.suffixes} : i \in PolicyInputs}
  OBVIOUS
<1>7. /\ in.acme \in {i.acme : i \in PolicyInputs}
      /\ in.allowWildcard \in {i.allowWildcard : i \in PolicyInputs}
  OBVIOUS
<1>8. ApplyPolicyInput(in, was) \in PolicyRow
  BY <1>3, <1>4, <1>5, <1>6, <1>7 DEF ApplyPolicyInput, PolicyRow
<1>9. Usable(ApplyPolicyInput(in, was))
  BY DEF Usable, ApplyPolicyInput, PolicyInputValid
<1> QED
  BY <1>8, <1>9

LEMMA ReadPolicyEffect ==
  ASSUME Shape, NEW h \in Handlers, NEW p \in Policies, NEW in \in PolicyInputs, ReadPolicy(h, p, in)
  PROVE  /\ SessionsShape' /\ Untouched(h)
         /\ session'[h].at = "listTargets" /\ session'[h].policy = p /\ session'[h].row \in PolicyRow
         /\ Usable(session'[h].row)
         /\ UNCHANGED <<policies, targets, owner, consumers, raced>>
<1> DEFINE s == [Idle EXCEPT !.at = "listTargets", !.policy = p, !.read = policies[p],
                             !.row = ApplyPolicyInput(in, policies[p])]
<1>0. ApplyPolicyInput(in, policies[p]) \in PolicyRow /\ Usable(ApplyPolicyInput(in, policies[p]))
  BY PolicyInputRow DEF ReadPolicy, Shape
<1>1. IsSession(s) /\ s.at = "listTargets" /\ s.policy = p /\ s.row \in PolicyRow /\ Usable(s.row)
  <2> DEFINE s1 == [Idle EXCEPT !.at = "listTargets"]
             s2 == [s1 EXCEPT !.policy = p]
             s3 == [s2 EXCEPT !.read = policies[p]]
             s4 == [s3 EXCEPT !.row = ApplyPolicyInput(in, policies[p])]
  <2>0. s = s4
    OBVIOUS
  <2> HIDE DEF s
  <2>1. IsSession(s1) /\ s1.at = "listTargets"
    BY IdleSession, SetAt
  <2> HIDE DEF s1
  <2>2. IsSession(s2) /\ s2.at = "listTargets" /\ s2.policy = p
    BY <2>1, SetPolicy
  <2> HIDE DEF s2
  <2>3. IsSession(s3) /\ s3.at = "listTargets" /\ s3.policy = p /\ s3.read = policies[p]
    BY <2>2, SetRead
  <2> HIDE DEF s3
  <2>4. IsSession(s4) /\ s4.at = "listTargets" /\ s4.policy = p /\ s4.row = ApplyPolicyInput(in, policies[p]) /\ s4.read = policies[p]
    BY <2>3, SetRow
  <2> HIDE DEF s4
  <2> QED
    BY <1>0, <2>0, <2>4
<1>2. session' = [session EXCEPT ![h] = s] /\ UNCHANGED <<policies, targets, owner, consumers, raced>>
  BY DEF ReadPolicy
<1> HIDE DEF s
<1> QED
  BY <1>1, <1>2, SetSession DEF Steps

LEMMA CheckTargetsEffect ==
  ASSUME Shape, NEW h \in Handlers, CheckTargets(h)
  PROVE  /\ SessionsShape' /\ Untouched(h) /\ session[h].at = "listTargets"
         /\ \/ session'[h] = Idle
            \/ /\ session'[h].at = "writePolicy" /\ session'[h].policy = session[h].policy
               /\ session'[h].row = session[h].row
               /\ Offending(session[h].policy, session[h].row) = {}
         /\ UNCHANGED <<policies, targets, owner, consumers, raced>>
<1> DEFINE o == [session[h] EXCEPT !.at = "writePolicy"]
           s == IF Offending(session[h].policy, session[h].row) = {} THEN o ELSE Idle
<1>1. IsSession(session[h])
  BY DEF Shape
<1>2. /\ IsSession(o) /\ o.at = "writePolicy" /\ o.policy = session[h].policy /\ o.row = session[h].row
  BY <1>1, SetAt
<1>3. /\ session' = [session EXCEPT ![h] = s] /\ session[h].at = "listTargets"
      /\ UNCHANGED <<policies, targets, owner, consumers, raced>>
  BY DEF CheckTargets
<1> HIDE DEF o
<1>4. IsSession(s) /\ s.at \in Steps
  BY <1>2, IdleSession DEF Steps
<1>5. SessionsShape' /\ Untouched(h) /\ session'[h] = s
  <2> HIDE DEF s
  <2> QED
    BY <1>3, <1>4, SetSession
<1> QED
  BY <1>2, <1>3, <1>5

LEMMA AdditionalNamed ==
  ASSUME NEW more, AdditionalValid(more), NEW i \in DOMAIN NormalizeAdditionalNames(more)
  PROVE  NormalizeAdditionalNames(more)[i] # Refused
BY DEF AdditionalValid, NormalizeAdditionalNames

LEMMA CheckNewTargetEffect ==
  ASSUME Shape, NEW h \in Handlers, NEW t \in Targets, NEW in \in TargetInputs, NEW p \in Policies,
         CheckNewTarget(h, t, in, p)
  PROVE  /\ SessionsShape' /\ Untouched(h)
         /\ targets[t] = NoRow /\ \A g \in Handlers : session[g].target # t
         /\ session'[h].at = "insertTarget" /\ session'[h].policy = p /\ session'[h].target = t
         /\ session'[h].row \in TargetRow /\ ~session'[h].row.retired /\ session'[h].row.policy = p
         /\ session'[h].row.revision = 1 /\ Named(session'[h].row)
         /\ policies[p] # NoRow /\ CheckNames(session'[h].row, policies[p])
         /\ UNCHANGED <<policies, targets, owner, consumers, raced>>
<1> DEFINE row == [fqdn |-> NormalizeFQDN(in.fqdn), policy |-> p,
                   additional |-> NormalizeAdditionalNames(in.additional),
                   bindings |-> in.bindings, enabled |-> in.enabled, revision |-> 1, retired |-> FALSE]
           s == [Idle EXCEPT !.at = "insertTarget", !.policy = p, !.target = t, !.row = row]
<1>1. /\ row \in TargetRow /\ ~row.retired /\ row.policy = p /\ row.revision = 1
      /\ row.fqdn = NormalizeFQDN(in.fqdn) /\ row.additional = NormalizeAdditionalNames(in.additional)
  BY AdminAssumptions DEF TargetRow
<1>2. /\ session' = [session EXCEPT ![h] = s] /\ CheckPolicy(p, row)
      /\ targets[t] = NoRow /\ \A g \in Handlers : session[g].target # t
      /\ UNCHANGED <<policies, targets, owner, consumers, raced>>
  BY DEF CheckNewTarget
<1> HIDE DEF row
<1>5. Named(row)
  <2>1. NormalizeFQDN(in.fqdn) # Refused /\ AdditionalValid(in.additional)
    BY DEF CheckNewTarget
  <2> QED
    BY <1>1, <2>1, AdditionalNamed DEF Named
<1>3. IsSession(s) /\ s.at = "insertTarget" /\ s.policy = p /\ s.target = t /\ s.row = row
  <2> DEFINE s1 == [Idle EXCEPT !.at = "insertTarget"]
             s2 == [s1 EXCEPT !.policy = p]
             s3 == [s2 EXCEPT !.target = t]
             s4 == [s3 EXCEPT !.row = row]
  <2>0. s = s4
    OBVIOUS
  <2> HIDE DEF s
  <2>1. IsSession(s1) /\ s1.at = "insertTarget"
    BY IdleSession, SetAt
  <2> HIDE DEF s1
  <2>2. IsSession(s2) /\ s2.at = "insertTarget" /\ s2.policy = p
    BY <2>1, SetPolicy
  <2> HIDE DEF s2
  <2>3. IsSession(s3) /\ s3.at = "insertTarget" /\ s3.policy = p /\ s3.target = t
    BY <2>2, SetTarget
  <2> HIDE DEF s3
  <2>4. IsSession(s4) /\ s4.at = "insertTarget" /\ s4.policy = p /\ s4.target = t /\ s4.row = row
    BY <2>3, SetRow
  <2> HIDE DEF s4
  <2> QED
    BY <2>0, <2>4
<1> HIDE DEF s
<1>4. SessionsShape' /\ Untouched(h) /\ session'[h] = s
  BY <1>2, <1>3, SetSession DEF Steps
<1> QED
  BY <1>1, <1>2, <1>3, <1>4, <1>5 DEF CheckPolicy

LEMMA ReadTargetEffect ==
  ASSUME Shape, NEW h \in Handlers, NEW t \in Targets, NEW in \in TargetInputs, NEW p \in Policies,
         ReadTarget(h, t, in, p)
  PROVE  /\ SessionsShape' /\ Untouched(h) /\ InService(t) /\ targets[t] \in TargetRow
         /\ session'[h].at = "checkPolicy" /\ session'[h].policy = p /\ session'[h].target = t
         /\ session'[h].read = targets[t] /\ targets[t].revision < MaxRevision
         /\ (Named(targets[t]) => Named(session'[h].row))
         /\ session'[h].row \in TargetRow /\ ~session'[h].row.retired /\ session'[h].row.policy = p
         /\ UNCHANGED <<policies, targets, owner, consumers, raced>>
<1> DEFINE row == [targets[t] EXCEPT !.additional = NormalizeAdditionalNames(in.additional),
                                     !.bindings = in.bindings, !.policy = p, !.enabled = in.enabled]
           s == [Idle EXCEPT !.at = "checkPolicy", !.policy = p, !.target = t, !.read = targets[t],
                             !.row = row]
<1>1. /\ session' = [session EXCEPT ![h] = s] /\ InService(t) /\ targets[t].revision < MaxRevision
      /\ UNCHANGED <<policies, targets, owner, consumers, raced>>
  BY DEF ReadTarget
<1>2. targets[t] \in TargetRow /\ ~targets[t].retired
  BY <1>1 DEF Shape, InService
<1>3. /\ row \in TargetRow /\ ~row.retired /\ row.policy = p
      /\ row.fqdn = targets[t].fqdn /\ row.additional = NormalizeAdditionalNames(in.additional)
  BY <1>2, AdminAssumptions DEF TargetRow
<1> HIDE DEF row
<1>6. Named(targets[t]) => Named(row)
  <2>1. AdditionalValid(in.additional)
    BY DEF ReadTarget
  <2> QED
    BY <1>3, <2>1, AdditionalNamed DEF Named
<1>4. /\ IsSession(s) /\ s.at = "checkPolicy" /\ s.policy = p /\ s.target = t /\ s.row = row
      /\ s.read = targets[t]
  <2> DEFINE s1 == [Idle EXCEPT !.at = "checkPolicy"]
             s2 == [s1 EXCEPT !.policy = p]
             s3 == [s2 EXCEPT !.target = t]
             s4 == [s3 EXCEPT !.read = targets[t]]
             s5 == [s4 EXCEPT !.row = row]
  <2>0. s = s5
    OBVIOUS
  <2> HIDE DEF s
  <2>1. IsSession(s1) /\ s1.at = "checkPolicy"
    BY IdleSession, SetAt
  <2> HIDE DEF s1
  <2>2. IsSession(s2) /\ s2.at = "checkPolicy" /\ s2.policy = p
    BY <2>1, SetPolicy
  <2> HIDE DEF s2
  <2>3. IsSession(s3) /\ s3.at = "checkPolicy" /\ s3.policy = p /\ s3.target = t
    BY <2>2, SetTarget
  <2> HIDE DEF s3
  <2>4. IsSession(s4) /\ s4.at = "checkPolicy" /\ s4.policy = p /\ s4.target = t /\ s4.read = targets[t]
    BY <2>3, SetRead
  <2> HIDE DEF s4
  <2>5. IsSession(s5) /\ s5.at = "checkPolicy" /\ s5.policy = p /\ s5.target = t /\ s5.row = row /\ s5.read = targets[t]
    BY <2>4, SetRow
  <2> HIDE DEF s5
  <2> QED
    BY <2>0, <2>5
<1> HIDE DEF s
<1>5. SessionsShape' /\ Untouched(h) /\ session'[h] = s
  BY <1>1, <1>4, SetSession DEF Steps
<1> QED
  BY <1>1, <1>2, <1>3, <1>4, <1>5, <1>6

LEMMA CheckTargetEffect ==
  ASSUME Shape, NEW h \in Handlers, CheckTarget(h)
  PROVE  /\ SessionsShape' /\ Untouched(h) /\ session[h].at = "checkPolicy"
         /\ \/ session'[h] = Idle
            \/ /\ session'[h].at = "writeTarget" /\ session'[h].policy = session[h].policy
               /\ session'[h].target = session[h].target /\ session'[h].row = session[h].row
               /\ session'[h].read = session[h].read
               /\ policies[session[h].policy] # NoRow
               /\ CheckNames(session[h].row, policies[session[h].policy])
         /\ UNCHANGED <<policies, targets, owner, consumers, raced>>
<1> DEFINE o == [session[h] EXCEPT !.at = "writeTarget"]
           s == IF CheckPolicy(session[h].policy, session[h].row) THEN o ELSE Idle
<1>1. IsSession(session[h])
  BY DEF Shape
<1>2. /\ IsSession(o) /\ o.at = "writeTarget" /\ o.policy = session[h].policy /\ o.row = session[h].row
      /\ o.target = session[h].target /\ o.read = session[h].read
  BY <1>1, SetAt
<1>3. /\ session' = [session EXCEPT ![h] = s] /\ session[h].at = "checkPolicy"
      /\ UNCHANGED <<policies, targets, owner, consumers, raced>>
  BY DEF CheckTarget
<1> HIDE DEF o
<1>4. IsSession(s) /\ s.at \in Steps
  BY <1>2, IdleSession DEF Steps
<1>5. SessionsShape' /\ Untouched(h) /\ session'[h] = s
  <2> HIDE DEF s
  <2> QED
    BY <1>3, <1>4, SetSession
<1> QED
  BY <1>2, <1>3, <1>5 DEF CheckPolicy

LEMMA ReadForEnableEffect ==
  ASSUME Shape, NEW h \in Handlers, NEW t \in Targets, ReadForEnable(h, t)
  PROVE  /\ SessionsShape' /\ Untouched(h) /\ InService(t) /\ targets[t] \in TargetRow
         /\ session'[h].at = "writeEnabled" /\ session'[h].target = t /\ session'[h].read = targets[t]
         /\ targets[t].revision < MaxRevision /\ (Named(targets[t]) => Named(session'[h].row))
         /\ session'[h].row \in TargetRow /\ ~session'[h].row.retired
         /\ NamesOf(session'[h].row) = NamesOf(targets[t]) /\ session'[h].row.policy = targets[t].policy
         /\ UNCHANGED <<policies, targets, owner, consumers, raced>>
<1> DEFINE row == [targets[t] EXCEPT !.enabled = ~@]
           s == [Idle EXCEPT !.at = "writeEnabled", !.target = t, !.read = targets[t], !.row = row]
<1>1. /\ session' = [session EXCEPT ![h] = s] /\ InService(t) /\ targets[t].revision < MaxRevision
      /\ UNCHANGED <<policies, targets, owner, consumers, raced>>
  BY DEF ReadForEnable
<1>2. targets[t] \in TargetRow /\ ~targets[t].retired
  BY <1>1 DEF Shape, InService
<1>3. /\ row \in TargetRow /\ ~row.retired /\ row.policy = targets[t].policy
      /\ row.fqdn = targets[t].fqdn /\ row.additional = targets[t].additional
  BY <1>2 DEF TargetRow
<1>6. Named(targets[t]) => Named(row)
  BY <1>3 DEF Named
<1> HIDE DEF row
<1>4. IsSession(s) /\ s.at = "writeEnabled" /\ s.target = t /\ s.row = row /\ s.read = targets[t]
  <2> DEFINE s1 == [Idle EXCEPT !.at = "writeEnabled"]
             s2 == [s1 EXCEPT !.target = t]
             s3 == [s2 EXCEPT !.read = targets[t]]
             s4 == [s3 EXCEPT !.row = row]
  <2>0. s = s4
    OBVIOUS
  <2> HIDE DEF s
  <2>1. IsSession(s1) /\ s1.at = "writeEnabled"
    BY IdleSession, SetAt
  <2> HIDE DEF s1
  <2>2. IsSession(s2) /\ s2.at = "writeEnabled" /\ s2.target = t
    BY <2>1, SetTarget
  <2> HIDE DEF s2
  <2>3. IsSession(s3) /\ s3.at = "writeEnabled" /\ s3.target = t /\ s3.read = targets[t]
    BY <2>2, SetRead
  <2> HIDE DEF s3
  <2>4. IsSession(s4) /\ s4.at = "writeEnabled" /\ s4.target = t /\ s4.row = row /\ s4.read = targets[t]
    BY <2>3, SetRow
  <2> HIDE DEF s4
  <2> QED
    BY <2>0, <2>4
<1> HIDE DEF s
<1>5. SessionsShape' /\ Untouched(h) /\ session'[h] = s
  BY <1>1, <1>4, SetSession DEF Steps
<1> QED
  BY <1>1, <1>2, <1>3, <1>4, <1>5, <1>6 DEF NamesOf

\* What other sessions may see of a step: history, and only a mark in it.
Marked(h) ==
  \A g \in Handlers : g # h => Same(g) /\ (session[g].overtaken => session'[g].overtaken)

LEMMA CreatePolicyEffect ==
  ASSUME Shape, NEW h \in Handlers, NEW p \in Policies, NEW in \in PolicyInputs, CreatePolicy(h, p, in)
  PROVE  /\ policies[p] = NoRow /\ policies' \in [Policies -> PolicyRow \cup {NoRow}]
         /\ \A q \in Policies : policies[q] # NoRow => policies'[q] = policies[q]
         /\ Usable(policies'[p]) /\ \A q \in Policies : q # p => policies'[q] = policies[q]
         /\ UNCHANGED <<targets, owner, consumers, session, raced>>
<1>1. ApplyPolicyInput(in, NewPolicy) \in PolicyRow /\ Usable(ApplyPolicyInput(in, NewPolicy))
  BY PolicyInputRow DEF CreatePolicy
<1>2. /\ policies[p] = NoRow /\ policies' = [policies EXCEPT ![p] = ApplyPolicyInput(in, NewPolicy)]
      /\ UNCHANGED <<targets, owner, consumers, session, raced>>
  BY DEF CreatePolicy
<1> QED
  BY <1>1, <1>2 DEF Shape

Under(p) == {t \in Targets : targets[t] # NoRow /\ targets[t].policy = p}

LEMMA WritePolicyEffect ==
  ASSUME Shape, Sessions, NEW h \in Handlers, WritePolicy(h)
  PROVE  LET p == session[h].policy
         IN /\ session[h].at = "writePolicy" /\ p \in Policies /\ session[h].row \in PolicyRow
            /\ SessionsShape' /\ session'[h] = Idle /\ Marked(h)
            /\ UNCHANGED <<targets, owner, consumers>>
            /\ \/ UNCHANGED <<policies, raced>>
               \/ /\ policies' \in [Policies -> PolicyRow \cup {NoRow}] /\ policies'[p] = session[h].row
                  /\ \A q \in Policies : q # p => policies'[q] = policies[q]
                  /\ raced' = IF session[h].overtaken THEN raced \cup Under(p) ELSE raced \ Under(p)
                  /\ \A g \in Handlers :
                       g # h /\ session[g].at \in {"insertTarget", "writeTarget"} /\ session[g].policy = p =>
                         session'[g].overtaken
<1> DEFINE p == session[h].policy
<1>1. session[h].at = "writePolicy" /\ UNCHANGED <<targets, owner, consumers>>
  BY DEF WritePolicy
<1>2. p \in Policies /\ session[h].row \in PolicyRow
  BY <1>1 DEF Sessions, SessionOK, PolicyEditing, PolicyEdits
<1>3. CASE /\ policies' = [policies EXCEPT ![p] = session[h].row]
           /\ session' = PolicyChanged(h, p)
           /\ raced' = IF session[h].overtaken THEN raced \cup Under(p) ELSE raced \ Under(p)
  <2>1. /\ SessionsShape' /\ session'[h] = Idle /\ Marked(h)
        /\ \A g \in Handlers :
             g # h /\ session[g].at \in {"insertTarget", "writeTarget"} /\ session[g].policy = p =>
               session'[g].overtaken
    BY <1>3, PolicyChangedEffect DEF Marked
  <2>2. /\ policies' \in [Policies -> PolicyRow \cup {NoRow}] /\ policies'[p] = session[h].row
        /\ \A q \in Policies : q # p => policies'[q] = policies[q]
    BY <1>2, <1>3 DEF Shape
  <2> QED
    BY <1>1, <1>2, <1>3, <2>1, <2>2
<1>4. CASE session' = [session EXCEPT ![h] = Idle] /\ UNCHANGED <<policies, raced>>
  <2>1. SessionsShape' /\ session'[h] = Idle /\ Untouched(h)
    BY <1>4, IdleSession, SetSession DEF Steps
  <2> QED
    BY <1>1, <1>2, <1>4, <2>1 DEF Untouched, Marked, Same
<1> QED
  BY <1>3, <1>4 DEF WritePolicy, Under

\* A target's write, of a new row or over the one it was read from.
LEMMA InsertTargetEffect ==
  ASSUME Shape, Sessions, NEW h \in Handlers, InsertTarget(h)
  PROVE  LET s == session[h] t == session[h].target
         IN /\ s.at = "insertTarget" /\ t \in Targets /\ targets[t] = NoRow /\ s.row \in TargetRow
            /\ ~s.row.retired /\ s.row.policy = s.policy /\ policies[s.policy] # NoRow
            /\ SessionsShape' /\ session'[h] = Idle /\ Marked(h)
            /\ UNCHANGED <<policies, consumers>>
            /\ \/ UNCHANGED <<targets, owner, raced>>
               \/ /\ targets' = [targets EXCEPT ![t] = s.row]
                  /\ ~Taken(t, NamesOf(s.row)) /\ owner' = ClaimNames(t, NamesOf(s.row))
                  /\ raced' = Rechecked(t, s)
                  /\ \A g \in Handlers :
                       g # h /\ session[g].at = "writePolicy" /\ session[g].policy = s.policy =>
                         session'[g].overtaken
<1> DEFINE s == session[h]
           t == session[h].target
<1>1. s.at = "insertTarget" /\ UNCHANGED <<policies, consumers>>
  BY DEF InsertTarget
<1>2. /\ t \in Targets /\ targets[t] = NoRow /\ s.row \in TargetRow
      /\ ~s.row.retired /\ s.row.policy = s.policy /\ policies[s.policy] # NoRow
  BY <1>1 DEF Sessions, SessionOK, Creating
<1>3. CASE /\ ~Taken(t, NamesOf(s.row)) /\ targets' = [targets EXCEPT ![t] = s.row]
           /\ owner' = ClaimNames(t, NamesOf(s.row)) /\ session' = TargetChanged(h, s.policy)
           /\ raced' = Rechecked(t, s)
  <2>1. /\ SessionsShape' /\ session'[h] = Idle /\ Marked(h)
        /\ \A g \in Handlers :
             g # h /\ session[g].at = "writePolicy" /\ session[g].policy = s.policy => session'[g].overtaken
    BY <1>3, TargetChangedEffect DEF Marked
  <2> QED
    BY <1>1, <1>2, <1>3, <2>1
<1>4. CASE session' = [session EXCEPT ![h] = Idle] /\ UNCHANGED <<targets, owner, raced>>
  <2>1. SessionsShape' /\ session'[h] = Idle /\ Untouched(h)
    BY <1>4, IdleSession, SetSession DEF Steps
  <2> QED
    BY <1>1, <1>2, <1>4, <2>1 DEF Untouched, Marked, Same
<1> QED
  BY <1>3, <1>4 DEF InsertTarget

LEMMA WriteTargetEffect ==
  ASSUME Shape, Sessions, NEW h \in Handlers, WriteTarget(h)
  PROVE  LET s == session[h] t == session[h].target
         IN /\ s.at \in {"writeTarget", "writeEnabled"} /\ t \in Targets /\ s.row \in TargetRow
            /\ ~s.row.retired
            /\ SessionsShape' /\ session'[h] = Idle /\ Marked(h)
            /\ UNCHANGED <<policies, consumers>>
            /\ \/ UNCHANGED <<targets, owner, raced>>
               \/ /\ InService(t) /\ s.read = targets[t]
                  /\ targets' = [targets EXCEPT ![t] = [s.row EXCEPT !.revision = targets[t].revision + 1]]
                  /\ ~Taken(t, NamesOf(s.row)) /\ owner' = ClaimNames(t, NamesOf(s.row))
                  /\ raced' = IF s.at = "writeTarget" THEN Rechecked(t, s) ELSE raced
                  /\ \A g \in Handlers :
                       g # h /\ session[g].at = "writePolicy" /\ session[g].policy = s.policy =>
                         session'[g].overtaken
<1> DEFINE s == session[h]
           t == session[h].target
<1>1. s.at \in {"writeTarget", "writeEnabled"} /\ UNCHANGED <<policies, consumers>>
  BY DEF WriteTarget
<1>2. /\ t \in Targets /\ s.row \in TargetRow /\ ~s.row.retired
      /\ s.read.revision = targets[t].revision => s.read = targets[t]
  BY <1>1 DEF Sessions, SessionOK, Editing, TargetEdits
<1>3. CASE /\ UpdateTarget(t, s.row, s.read.revision) /\ session' = TargetChanged(h, s.policy)
           /\ raced' = IF s.at = "writeTarget" THEN Rechecked(t, s) ELSE raced
  <2>1. /\ SessionsShape' /\ session'[h] = Idle /\ Marked(h)
        /\ \A g \in Handlers :
             g # h /\ session[g].at = "writePolicy" /\ session[g].policy = s.policy => session'[g].overtaken
    BY <1>3, TargetChangedEffect DEF Marked
  <2>2. /\ InService(t) /\ s.read.revision = targets[t].revision
        /\ targets' = [targets EXCEPT ![t] = [s.row EXCEPT !.revision = targets[t].revision + 1]]
        /\ ~Taken(t, NamesOf(s.row)) /\ owner' = ClaimNames(t, NamesOf(s.row))
    BY <1>3 DEF UpdateTarget
  <2> QED
    BY <1>1, <1>2, <1>3, <2>1, <2>2
<1>4. CASE session' = [session EXCEPT ![h] = Idle] /\ UNCHANGED <<targets, owner, raced>>
  <2>1. SessionsShape' /\ session'[h] = Idle /\ Untouched(h)
    BY <1>4, IdleSession, SetSession DEF Steps
  <2> QED
    BY <1>1, <1>2, <1>4, <2>1 DEF Untouched, Marked, Same
<1> QED
  BY <1>3, <1>4 DEF WriteTarget

LEMMA RetiredRow ==
  ASSUME NEW row \in TargetRow, NEW b \in BOOLEAN, NEW n \in Nat
  PROVE  LET r == [row EXCEPT !.retired = b, !.revision = n]
         IN /\ r \in TargetRow /\ r.retired = b /\ r.revision = n /\ r.policy = row.policy
            /\ (Named(row) => Named(r))
<1>1. LET r == [row EXCEPT !.retired = b, !.revision = n]
      IN /\ r \in TargetRow /\ r.retired = b /\ r.revision = n /\ r.policy = row.policy
         /\ r.fqdn = row.fqdn /\ r.additional = row.additional
  BY DEF TargetRow
<1> QED
  BY <1>1 DEF Named

LEMMA RetireTargetEffect ==
  ASSUME Shape, NEW t \in Targets, RetireTarget(t)
  PROVE  /\ InService(t) /\ targets[t] \in TargetRow
         /\ targets' \in [Targets -> TargetRow \cup {NoRow}]
         /\ targets'[t] \in TargetRow /\ targets'[t].retired
         /\ targets'[t].revision = targets[t].revision + 1 /\ targets'[t].policy = targets[t].policy
         /\ (Named(targets[t]) => Named(targets'[t]))
         /\ \A u \in Targets : u # t => targets'[u] = targets[u]
         /\ owner' = {o \in owner : o[2] # t}
         /\ UNCHANGED <<policies, consumers, session, raced>>
<1>1. InService(t) /\ targets[t] \in TargetRow
  BY DEF RetireTarget, Shape, InService
<1>2. /\ targets' = [targets EXCEPT ![t].retired = TRUE, ![t].revision = @ + 1]
      /\ owner' = {o \in owner : o[2] # t} /\ UNCHANGED <<policies, consumers, session, raced>>
  BY DEF RetireTarget
<1> DEFINE r == [targets[t] EXCEPT !.retired = TRUE, !.revision = targets[t].revision + 1]
<1>3. targets' = [targets EXCEPT ![t] = r]
  BY <1>1, <1>2 DEF Shape
<1>4. /\ r \in TargetRow /\ r.retired /\ r.revision = targets[t].revision + 1
      /\ r.policy = targets[t].policy /\ (Named(targets[t]) => Named(r))
  <2>1. targets[t].revision + 1 \in Nat
    BY <1>1 DEF TargetRow
  <2>2. /\ r \in TargetRow /\ r.retired = TRUE /\ r.revision = targets[t].revision + 1
        /\ r.policy = targets[t].policy /\ (Named(targets[t]) => Named(r))
    BY <1>1, <2>1, RetiredRow, Zenon
  <2> QED
    BY <2>2
<1> HIDE DEF r
<1> QED
  BY <1>1, <1>2, <1>3, <1>4 DEF Shape

-----------------------------------------------------------------------------
(* Every step preserves the invariant. *)

\* Raising the revision leaves the names alone, and with them the check.
LEMMA RaisedRevision ==
  ASSUME NEW row \in TargetRow, NEW n \in Nat
  PROVE  LET r == [row EXCEPT !.revision = n]
         IN /\ r \in TargetRow /\ r.revision = n /\ r.retired = row.retired /\ r.policy = row.policy
            /\ NamesOf(r) = NamesOf(row) /\ (Named(row) => Named(r))
<1>1. LET r == [row EXCEPT !.revision = n]
      IN /\ r \in TargetRow /\ r.revision = n /\ r.retired = row.retired /\ r.policy = row.policy
         /\ r.fqdn = row.fqdn /\ r.additional = row.additional
  BY DEF TargetRow
<1> QED
  BY <1>1 DEF NamesOf, Named

LEMMA SameNamesSameCheck ==
  ASSUME NEW r, NEW q, NEW p, NamesOf(r) = NamesOf(q), CheckNames(r, p)
  PROVE  CheckNames(q, p)
BY DEF CheckNames

LEMMA IdleIsOK == SessionOK(Idle)
BY IdleSession DEF SessionOK, Creating, Editing, PolicyEditing, Checked, TargetEdits, PolicyEdits

LEMMA IdleIsOKNext == SessionOK(Idle)'
BY IdleSession DEF SessionOK, Creating, Editing, PolicyEditing, Checked, TargetEdits, PolicyEdits, Idle

\* A step that only reads.
LEMMA QuietStep ==
  ASSUME AdminInv, NEW h \in Handlers, SessionsShape', Untouched(h), SessionOK(session[h])',
         UNCHANGED <<policies, targets, owner, consumers, raced>>,
         session'[h].at = "insertTarget" =>
           \A g \in Handlers : g # h => session[g].target # session'[h].target
  PROVE  AdminInv'
<1>1. Shape'
  BY DEF AdminInv, Shape, SessionsShape
<1>2. Stored'
  BY DEF AdminInv, Stored
<1>3. Sessions'
  <2>1. ASSUME NEW g \in Handlers PROVE SessionOK(session[g])'
    <3>1. CASE g = h
      BY <3>1
    <3>2. CASE g # h
      <4>1. SessionOK(session[g]) /\ session'[g] = session[g]
        BY <3>2 DEF AdminInv, Sessions, Untouched
      <4> QED
        BY <4>1 DEF SessionOK, Creating, Editing, PolicyEditing, Checked, Offending, InService
    <3> QED
      BY <3>1, <3>2
  <2> QED
    BY <2>1 DEF Sessions
<1>4. Fresh'
  BY DEF AdminInv, Fresh, Untouched
<1>5. Ownership'
  BY DEF AdminInv, Ownership, Owned, InService
<1>6. CheckedUnlessRaced'
  BY DEF AdminInv, CheckedUnlessRaced, InService
<1> QED
  BY <1>1, <1>2, <1>3, <1>4, <1>5, <1>6 DEF AdminInv

\* A write that is refused ends the session and changes nothing.
LEMMA RefusedStep ==
  ASSUME AdminInv, NEW h \in Handlers, SessionsShape', session'[h] = Idle, Marked(h),
         UNCHANGED <<policies, targets, owner, consumers, raced>>
  PROVE  AdminInv'
<1>1. Shape' /\ Stored'
  BY DEF AdminInv, Shape, SessionsShape, Stored
<1>2. Sessions'
  <2>1. ASSUME NEW g \in Handlers, g # h PROVE SessionOK(session[g])'
    <3>1. SessionOK(session[g]) /\ Same(g) /\ (session[g].overtaken => session'[g].overtaken)
      BY <2>1 DEF AdminInv, Sessions, Marked
    <3> QED
      BY <3>1 DEF SessionOK, Creating, Editing, PolicyEditing, Checked, Offending, InService, Same
  <2> QED
    BY <2>1, IdleIsOKNext DEF Sessions, Idle
<1>3. Fresh'
  BY IdleSession DEF AdminInv, Fresh, Marked, Same
<1>4. Ownership' /\ CheckedUnlessRaced'
  BY DEF AdminInv, Ownership, Owned, InService, CheckedUnlessRaced
<1> QED
  BY <1>1, <1>2, <1>3, <1>4 DEF AdminInv

LEMMA CreatePolicyStep ==
  ASSUME AdminInv, NEW h \in Handlers, NEW p \in Policies, NEW in \in PolicyInputs, CreatePolicy(h, p, in)
  PROVE  AdminInv'
<1>1. /\ policies' \in [Policies -> PolicyRow \cup {NoRow}]
      /\ \A q \in Policies : policies[q] # NoRow => policies'[q] = policies[q]
      /\ UNCHANGED <<targets, owner, consumers, session, raced>>
  BY CreatePolicyEffect DEF AdminInv
<1>2. Shape'
  BY <1>1 DEF AdminInv, Shape
<1>3. \A t \in Targets : targets[t] # NoRow =>
        targets[t].policy \in Policies /\ policies'[targets[t].policy] = policies[targets[t].policy]
  BY <1>1 DEF AdminInv, Shape, Stored, TargetRow
<1>4. Stored'
  BY <1>1, <1>3 DEF AdminInv, Stored
<1>5. Sessions'
  <2>1. ASSUME NEW g \in Handlers PROVE SessionOK(session[g])'
    <3>1. SessionOK(session[g])
      BY DEF AdminInv, Sessions
    <3>2. session[g].at \in {"insertTarget", "writeTarget"} =>
            policies'[session[g].policy] = policies[session[g].policy]
      BY <1>1, <3>1 DEF SessionOK, Creating, Editing, TargetEdits, TargetRow
    <3> QED
      BY <1>1, <3>1, <3>2 DEF SessionOK, Creating, Editing, PolicyEditing, Checked, Offending, InService
  <2> QED
    BY <2>1 DEF Sessions
<1>6. Fresh' /\ Ownership'
  BY <1>1 DEF AdminInv, Fresh, Ownership, Owned, InService
<1>7. CheckedUnlessRaced'
  BY <1>1, <1>3 DEF AdminInv, CheckedUnlessRaced, InService
<1> QED
  BY <1>2, <1>4, <1>5, <1>6, <1>7 DEF AdminInv

LEMMA WritePolicyStep ==
  ASSUME AdminInv, NEW h \in Handlers, WritePolicy(h)
  PROVE  AdminInv'
<1> DEFINE p == session[h].policy
           row == session[h].row
<1>1. /\ session[h].at = "writePolicy" /\ p \in Policies /\ row \in PolicyRow
      /\ SessionsShape' /\ session'[h] = Idle /\ Marked(h) /\ UNCHANGED <<targets, owner, consumers>>
      /\ \/ UNCHANGED <<policies, raced>>
         \/ /\ policies' \in [Policies -> PolicyRow \cup {NoRow}] /\ policies'[p] = row
            /\ \A q \in Policies : q # p => policies'[q] = policies[q]
            /\ raced' = IF session[h].overtaken THEN raced \cup Under(p) ELSE raced \ Under(p)
            /\ \A g \in Handlers :
                 g # h /\ session[g].at \in {"insertTarget", "writeTarget"} /\ session[g].policy = p =>
                   session'[g].overtaken
  BY WritePolicyEffect DEF AdminInv
<1>2. SessionOK(session[h]) /\ row # NoRow
  BY <1>1, AdminAssumptions DEF AdminInv, Sessions
<1> HIDE DEF p, row
<1>3. Shape'
  BY <1>1 DEF AdminInv, Shape, SessionsShape
<1>4. \A q \in Policies : policies[q] # NoRow => policies'[q] # NoRow
  BY <1>1, <1>2
<1>5. \A t \in Targets : targets[t] # NoRow => targets[t].policy \in Policies
  BY DEF AdminInv, Shape, TargetRow
<1>6. Stored'
  BY <1>1, <1>4, <1>5 DEF AdminInv, Stored
<1>7. Sessions'
  <2>1. ASSUME NEW g \in Handlers, g # h PROVE SessionOK(session[g])'
    <3>1. SessionOK(session[g]) /\ Same(g) /\ (session[g].overtaken => session'[g].overtaken)
      BY <1>1, <2>1 DEF AdminInv, Sessions, Marked
    <3>2. Creating(session[g])' /\ Editing(session[g])' /\ PolicyEditing(session[g])'
      BY <1>1, <1>4, <3>1 DEF SessionOK, Creating, Editing, PolicyEditing, Same, TargetRow, TargetEdits
    <3>3. Checked(session[g])'
      <4>1. CASE session[g].at \in {"insertTarget", "writeTarget"}
        <5>1. session[g].policy \in Policies
          BY <4>1, <3>1 DEF SessionOK, Creating, Editing, TargetEdits, TargetRow
        <5>2. ~session'[g].overtaken => policies'[session[g].policy] = policies[session[g].policy]
          BY <1>1, <2>1, <4>1, <5>1
        <5> QED
          BY <4>1, <3>1, <5>2 DEF SessionOK, Checked, Same
      <4>2. CASE session[g].at \notin {"insertTarget", "writeTarget"}
        BY <1>1, <4>2, <3>1 DEF SessionOK, Checked, Same, Offending, InService
      <4> QED
        BY <4>1, <4>2
    <3> QED
      BY <3>2, <3>3 DEF SessionOK
  <2> QED
    BY <1>1, <2>1, IdleIsOKNext DEF Sessions, Idle
<1>8. Fresh' /\ Ownership'
  <2>1. Fresh'
    BY <1>1, IdleSession DEF AdminInv, Fresh, Marked, Same
  <2> QED
    BY <1>1, <2>1 DEF AdminInv, Ownership, Owned, InService
<1>9. CheckedUnlessRaced'
  <2>1. CASE UNCHANGED <<policies, raced>>
    BY <1>1, <2>1 DEF AdminInv, CheckedUnlessRaced, InService
  <2>2. CASE ~UNCHANGED <<policies, raced>>
    <3> SUFFICES ASSUME NEW t \in Targets, t \notin raced', InService(t)
                 PROVE  CheckNames(targets[t], policies'[targets[t].policy])
      BY <1>1 DEF CheckedUnlessRaced, InService
    <3>1. CASE targets[t].policy = p
      <4>1. t \in Under(p)
        BY <3>1 DEF Under, InService
      <4>2. ~session[h].overtaken
        BY <1>1, <2>2, <4>1
      <4>3. Offending(p, row) = {}
        BY <1>1, <1>2, <4>2 DEF SessionOK, Checked, p, row
      <4> QED
        BY <1>1, <2>2, <3>1, <4>3 DEF Offending
    <3>2. CASE targets[t].policy # p
      <4>1. t \notin raced /\ targets[t].policy \in Policies
        BY <1>1, <1>5, <2>2, <3>2 DEF Under, InService
      <4> QED
        BY <1>1, <2>2, <3>2, <4>1 DEF AdminInv, CheckedUnlessRaced
    <3> QED
      BY <3>1, <3>2
  <2> QED
    BY <2>1, <2>2
<1> QED
  BY <1>3, <1>6, <1>7, <1>8, <1>9 DEF AdminInv

\* claimNames keeps target_names exact, whether the target is new or edited.
LEMMA ClaimEffect ==
  ASSUME Ownership, NEW t \in Targets, NEW names, ~Taken(t, names), owner' = ClaimNames(t, names),
         \A u \in Targets : u # t => targets'[u] = targets[u],
         targets'[t] # NoRow, ~targets'[t].retired, NamesOf(targets'[t]) = names
  PROVE  Ownership'
<1> DEFINE New == {<<names[i], t>> : i \in DOMAIN names}
<1>1. \A o : o \in owner' <=> (o \in owner /\ o[2] # t) \/ o \in New
  BY DEF ClaimNames
<1>2. \A n : Owned(n, t)' <=> <<n, t>> \in New
  BY DEF Owned, InService
<1>3. \A u \in Targets : u # t => \A n : Owned(n, u)' <=> Owned(n, u)
  BY DEF Owned, InService
<1>4. ASSUME NEW o \in owner PROVE \E u \in Targets : Owned(o[1], u) /\ o = <<o[1], u>> /\ o[2] = u
  BY DEF Ownership
<1>5. ASSUME NEW o \in New PROVE o = <<o[1], t>> /\ \E i \in DOMAIN names : o[1] = names[i]
  OBVIOUS
<1>6. ASSUME NEW o \in owner, o[2] # t, NEW m \in New PROVE o[1] # m[1]
  BY <1>4, <1>5, <1>6 DEF Taken
<1> HIDE DEF New
<1>7. \A o \in owner' : \E u \in Targets : Owned(o[1], u)' /\ o = <<o[1], u>>
  <2>1. ASSUME NEW o \in owner, o[2] # t PROVE \E u \in Targets : Owned(o[1], u)' /\ o = <<o[1], u>>
    BY <1>3, <1>4, <2>1
  <2>2. ASSUME NEW o \in New PROVE \E u \in Targets : Owned(o[1], u)' /\ o = <<o[1], u>>
    BY <1>2, <1>5
  <2> QED
    BY <1>1, <2>1, <2>2
<1>8. \A u \in Targets : \A n : Owned(n, u)' => <<n, u>> \in owner'
  <2>1. ASSUME NEW u \in Targets, NEW n, Owned(n, u)', u # t PROVE <<n, u>> \in owner'
    BY <1>1, <1>3, <2>1 DEF Ownership
  <2>2. ASSUME NEW n, Owned(n, t)' PROVE <<n, t>> \in owner'
    BY <1>1, <1>2, <2>2
  <2> QED
    BY <2>1, <2>2
<1>9. \A o1, o2 \in owner' : o1[1] = o2[1] => o1 = o2
  BY <1>1, <1>5, <1>6 DEF Ownership
<1> QED
  BY <1>7, <1>8, <1>9 DEF Ownership

\* The other sessions when a target is written: new, edited or retired.
LEMMA TargetWritten ==
  ASSUME AdminInv, NEW t \in Targets, NEW g \in Handlers, UNCHANGED policies, Same(g),
         session[g].overtaken => session'[g].overtaken,
         \A u \in Targets : u # t => targets'[u] = targets[u],
         targets'[t] \in TargetRow,
         targets[t] \in TargetRow => targets'[t].revision = targets[t].revision + 1,
         session[g].at = "insertTarget" => session[g].target # t,
         session[g].at = "writePolicy" /\ ~session'[g].overtaken =>
           t \notin Offending(session[g].policy, session[g].row)'
  PROVE  SessionOK(session[g])'
<1> DEFINE s == session[g]
<1>1. SessionOK(s)
  BY DEF AdminInv, Sessions
<1>2. targets[t] \in TargetRow \cup {NoRow} /\ NoRow \notin TargetRow
  BY AdminAssumptions DEF AdminInv, Shape
<1>3. Creating(session[g])'
  BY <1>1 DEF SessionOK, Creating, Same
<1>4. Editing(session[g])'
  <2>1. CASE s.at \in TargetEdits /\ s.target = t
    <3>1. targets[t] \in TargetRow /\ s.read \in TargetRow /\ s.read.revision <= targets[t].revision
      BY <1>1, <2>1 DEF SessionOK, Editing
    <3>2. s.read.revision < targets'[t].revision
      BY <3>1 DEF TargetRow
    <3>3. /\ s.read.revision <= targets'[t].revision /\ s.read.revision # targets'[t].revision
      BY <3>1, <3>2 DEF TargetRow
    <3> QED
      BY <1>1, <2>1, <3>3 DEF SessionOK, Editing, Same
  <2>2. CASE s.at \in TargetEdits /\ s.target # t
    BY <1>1, <2>2 DEF SessionOK, Editing, Same
  <2>3. CASE s.at \notin TargetEdits
    BY <2>3 DEF Editing, Same
  <2> QED
    BY <2>1, <2>2, <2>3
<1>5. PolicyEditing(session[g])'
  BY <1>1 DEF SessionOK, PolicyEditing, Same
<1>6. Checked(session[g])'
  <2>1. CASE s.at = "writePolicy" /\ ~session'[g].overtaken
    <3>1. Offending(s.policy, s.row) = {}
      BY <1>1, <2>1 DEF SessionOK, Checked
    <3>2. Offending(s.policy, s.row)' = {}
      BY <2>1, <3>1 DEF Offending, InService, Same
    <3> QED
      BY <2>1, <3>2 DEF Checked, Same
  <2>2. CASE ~(s.at = "writePolicy" /\ ~session'[g].overtaken)
    BY <1>1, <2>2 DEF SessionOK, Checked, Same
  <2> QED
    BY <2>1, <2>2
<1> QED
  BY <1>3, <1>4, <1>5, <1>6 DEF SessionOK

LEMMA InsertTargetStep ==
  ASSUME AdminInv, NEW h \in Handlers, InsertTarget(h)
  PROVE  AdminInv'
<1> DEFINE s == session[h]
           t == session[h].target
<1>1. /\ s.at = "insertTarget" /\ t \in Targets /\ targets[t] = NoRow /\ s.row \in TargetRow
      /\ ~s.row.retired /\ s.row.policy = s.policy /\ policies[s.policy] # NoRow
      /\ SessionsShape' /\ session'[h] = Idle /\ Marked(h)
      /\ UNCHANGED <<policies, consumers>>
      /\ \/ UNCHANGED <<targets, owner, raced>>
         \/ /\ targets' = [targets EXCEPT ![t] = s.row]
            /\ ~Taken(t, NamesOf(s.row)) /\ owner' = ClaimNames(t, NamesOf(s.row))
            /\ raced' = Rechecked(t, s)
            /\ \A g \in Handlers :
                 g # h /\ session[g].at = "writePolicy" /\ session[g].policy = s.policy =>
                   session'[g].overtaken
  BY InsertTargetEffect DEF AdminInv
<1>2. SessionOK(s) /\ NoRow \notin TargetRow
  BY AdminAssumptions DEF AdminInv, Sessions
<1>3. CASE UNCHANGED <<targets, owner, raced>>
  BY <1>1, <1>3, RefusedStep
<1>4. CASE ~UNCHANGED <<targets, owner, raced>>
  <2> HIDE DEF s, t
  <2>1. /\ targets' \in [Targets -> TargetRow \cup {NoRow}] /\ targets'[t] = s.row
        /\ \A u \in Targets : u # t => targets'[u] = targets[u]
    BY <1>1, <1>4 DEF AdminInv, Shape
  <2>2. Shape'
    BY <1>1, <2>1 DEF AdminInv, Shape, SessionsShape
  <2>3. Stored'
    BY <1>1, <2>1 DEF AdminInv, Stored
  <2>4. Sessions'
    <3>1. ASSUME NEW g \in Handlers, g # h PROVE SessionOK(session[g])'
      <4>1. Same(g) /\ (session[g].overtaken => session'[g].overtaken)
        BY <1>1, <3>1 DEF Marked
      <4>2. session[g].at = "insertTarget" => session[g].target # t
        BY <1>1, <3>1 DEF AdminInv, Fresh, s, t
      <4>3. session[g].at = "writePolicy" /\ ~session'[g].overtaken =>
              t \notin Offending(session[g].policy, session[g].row)'
        BY <1>1, <1>4, <2>1, <3>1, <4>1 DEF Offending, Same
      <4> QED
        BY <1>1, <1>2, <2>1, <4>1, <4>2, <4>3, TargetWritten
    <3> QED
      BY <1>1, <3>1, IdleIsOKNext DEF Sessions, Idle
  <2>5. Fresh'
    BY <1>1, IdleSession DEF AdminInv, Fresh, Marked, Same
  <2>6. Ownership'
    <3>1. targets'[t] # NoRow /\ ~targets'[t].retired /\ NamesOf(targets'[t]) = NamesOf(s.row)
      BY <1>1, <1>2, <2>1
    <3> QED
      BY <1>1, <1>4, <2>1, <3>1, ClaimEffect DEF AdminInv
  <2>7. CheckedUnlessRaced'
    <3>1. ASSUME NEW u \in Targets, u \notin raced', InService(u)', u # t
          PROVE  CheckNames(targets[u], policies[targets[u].policy])
      BY <1>1, <1>4, <2>1, <3>1 DEF AdminInv, CheckedUnlessRaced, InService, Rechecked
    <3>2. t \notin raced' => CheckNames(s.row, policies[s.policy])
      BY <1>1, <1>2, <1>4 DEF SessionOK, Checked, Rechecked
    <3> QED
      BY <1>1, <2>1, <3>1, <3>2 DEF CheckedUnlessRaced
  <2> QED
    BY <2>2, <2>3, <2>4, <2>5, <2>6, <2>7 DEF AdminInv
<1> QED
  BY <1>3, <1>4

LEMMA WriteTargetStep ==
  ASSUME AdminInv, NEW h \in Handlers, WriteTarget(h)
  PROVE  AdminInv'
<1> DEFINE s == session[h]
           t == session[h].target
           row == [s.row EXCEPT !.revision = targets[t].revision + 1]
<1>1. /\ s.at \in {"writeTarget", "writeEnabled"} /\ t \in Targets /\ s.row \in TargetRow
      /\ ~s.row.retired
      /\ SessionsShape' /\ session'[h] = Idle /\ Marked(h)
      /\ UNCHANGED <<policies, consumers>>
      /\ \/ UNCHANGED <<targets, owner, raced>>
         \/ /\ InService(t) /\ s.read = targets[t]
            /\ targets' = [targets EXCEPT ![t] = row]
            /\ ~Taken(t, NamesOf(s.row)) /\ owner' = ClaimNames(t, NamesOf(s.row))
            /\ raced' = IF s.at = "writeTarget" THEN Rechecked(t, s) ELSE raced
            /\ \A g \in Handlers :
                 g # h /\ session[g].at = "writePolicy" /\ session[g].policy = s.policy =>
                   session'[g].overtaken
  BY WriteTargetEffect DEF AdminInv
<1>2. SessionOK(s) /\ NoRow \notin TargetRow
  BY AdminAssumptions DEF AdminInv, Sessions
<1>3. CASE UNCHANGED <<targets, owner, raced>>
  BY <1>1, <1>3, RefusedStep
<1>4. CASE ~UNCHANGED <<targets, owner, raced>>
  <2>0. targets[t] \in TargetRow /\ targets[t].revision + 1 \in Nat
    BY <1>1, <1>4 DEF InService, AdminInv, Shape, TargetRow
  <2>1. /\ row \in TargetRow /\ row.revision = targets[t].revision + 1 /\ ~row.retired
        /\ row.policy = s.row.policy /\ NamesOf(row) = NamesOf(s.row)
    BY <1>1, <2>0, RaisedRevision
  <2> HIDE DEF row
  <2>2. /\ IF s.at = "writeEnabled"
             THEN NamesOf(s.row) = NamesOf(targets[t]) /\ s.row.policy = targets[t].policy
             ELSE s.row.policy = s.policy /\ policies[s.policy] # NoRow
    BY <1>1, <1>2, <1>4 DEF SessionOK, Editing, TargetEdits
  <2> HIDE DEF s, t
  <2>3. /\ targets' \in [Targets -> TargetRow \cup {NoRow}] /\ targets'[t] = row
        /\ \A u \in Targets : u # t => targets'[u] = targets[u]
    BY <1>1, <1>4, <2>1 DEF AdminInv, Shape
  <2>4. Shape'
    BY <1>1, <2>3 DEF AdminInv, Shape, SessionsShape
  <2>5. Stored'
    <3>1. policies[row.policy] # NoRow
      BY <1>1, <1>4, <2>0, <2>1, <2>2, <1>2 DEF AdminInv, Stored
    <3> QED
      BY <1>1, <2>3, <3>1 DEF AdminInv, Stored
  <2>6. Sessions'
    <3>1. ASSUME NEW g \in Handlers, g # h PROVE SessionOK(session[g])'
      <4>1. Same(g) /\ (session[g].overtaken => session'[g].overtaken) /\ SessionOK(session[g])
        BY <1>1, <3>1 DEF Marked, AdminInv, Sessions
      <4>2. session[g].at = "insertTarget" => session[g].target # t
        BY <1>2, <2>0, <4>1 DEF SessionOK, Creating
      <4>3. session[g].at = "writePolicy" /\ ~session'[g].overtaken =>
              t \notin Offending(session[g].policy, session[g].row)'
        <5> SUFFICES ASSUME session[g].at = "writePolicy", ~session'[g].overtaken,
                            row.policy = session[g].policy
                     PROVE  CheckNames(row, session[g].row)
          BY <2>3, <4>1 DEF Offending, Same
        <5>1. s.at = "writeEnabled"
          BY <1>1, <1>4, <2>1, <2>2, <3>1
        <5>2. Offending(session[g].policy, session[g].row) = {}
          BY <4>1 DEF SessionOK, Checked
        <5>3. CheckNames(targets[t], session[g].row)
          BY <1>1, <1>4, <2>1, <2>2, <5>1, <5>2 DEF Offending
        <5> QED
          BY <2>1, <2>2, <5>1, <5>3, SameNamesSameCheck
      <4> QED
        BY <1>1, <2>1, <2>3, <4>1, <4>2, <4>3, TargetWritten
    <3> QED
      BY <1>1, <3>1, IdleIsOKNext DEF Sessions, Idle
  <2>7. Fresh'
    BY <1>1, IdleSession DEF AdminInv, Fresh, Marked, Same
  <2>8. Ownership'
    <3>1. targets'[t] # NoRow /\ ~targets'[t].retired /\ NamesOf(targets'[t]) = NamesOf(s.row)
      BY <1>2, <2>1, <2>3
    <3> QED
      BY <1>1, <1>4, <2>3, <3>1, ClaimEffect DEF AdminInv
  <2>9. CheckedUnlessRaced'
    <3>1. ASSUME NEW u \in Targets, u \notin raced', InService(u)', u # t
          PROVE  CheckNames(targets[u], policies[targets[u].policy])
      BY <1>1, <1>4, <2>3, <3>1 DEF AdminInv, CheckedUnlessRaced, InService, Rechecked
    <3>2. t \notin raced' => CheckNames(row, policies[row.policy])
      <4>1. CASE s.at = "writeTarget"
        <5>1. t \notin raced' => CheckNames(s.row, policies[s.policy])
          BY <1>1, <1>2, <1>4, <4>1 DEF SessionOK, Checked, Rechecked
        <5> QED
          BY <2>1, <2>2, <4>1, <5>1, SameNamesSameCheck
      <4>2. CASE s.at = "writeEnabled"
        <5>1. t \notin raced' => CheckNames(targets[t], policies[targets[t].policy])
          BY <1>1, <1>4, <4>2 DEF AdminInv, CheckedUnlessRaced
        <5> QED
          BY <2>1, <2>2, <4>2, <5>1, SameNamesSameCheck
      <4> QED
        BY <1>1, <4>1, <4>2
    <3> QED
      BY <1>1, <2>3, <3>1, <3>2 DEF CheckedUnlessRaced
  <2> QED
    BY <2>4, <2>5, <2>6, <2>7, <2>8, <2>9 DEF AdminInv
<1> QED
  BY <1>3, <1>4

LEMMA RetireTargetStep ==
  ASSUME AdminInv, NEW t \in Targets, RetireTarget(t)
  PROVE  AdminInv'
<1>1. /\ InService(t) /\ targets[t] \in TargetRow
      /\ targets' \in [Targets -> TargetRow \cup {NoRow}]
      /\ targets'[t] \in TargetRow /\ targets'[t].retired
      /\ targets'[t].revision = targets[t].revision + 1 /\ targets'[t].policy = targets[t].policy
      /\ \A u \in Targets : u # t => targets'[u] = targets[u]
      /\ owner' = {o \in owner : o[2] # t}
      /\ UNCHANGED <<policies, consumers, session, raced>>
  BY RetireTargetEffect DEF AdminInv
<1>2. NoRow \notin TargetRow
  BY AdminAssumptions
<1>3. Shape'
  BY <1>1 DEF AdminInv, Shape
<1>4. Stored'
  BY <1>1, <1>2 DEF AdminInv, Stored
<1>5. Sessions'
  <2>1. ASSUME NEW g \in Handlers PROVE SessionOK(session[g])'
    <3>1. Same(g) /\ session'[g] = session[g] /\ SessionOK(session[g])
      BY <1>1 DEF Same, AdminInv, Sessions
    <3>2. session[g].at = "insertTarget" => session[g].target # t
      BY <1>1, <1>2, <3>1 DEF SessionOK, Creating
    <3>3. t \notin Offending(session[g].policy, session[g].row)'
      BY <1>1 DEF Offending, InService
    <3> QED
      BY <1>1, <3>1, <3>2, <3>3, TargetWritten
  <2> QED
    BY <2>1 DEF Sessions
<1>6. Fresh'
  BY <1>1 DEF AdminInv, Fresh
<1>7. Ownership'
  <2>1. \A u \in Targets : \A n : Owned(n, u)' <=> Owned(n, u) /\ u # t
    BY <1>1 DEF Owned, InService
  <2>2. \A o \in owner' : \E u \in Targets : Owned(o[1], u)' /\ o = <<o[1], u>>
    BY <1>1, <2>1 DEF AdminInv, Ownership
  <2>3. \A u \in Targets : \A n : Owned(n, u)' => <<n, u>> \in owner'
    BY <1>1, <2>1 DEF AdminInv, Ownership
  <2>4. \A o1, o2 \in owner' : o1[1] = o2[1] => o1 = o2
    BY <1>1 DEF AdminInv, Ownership
  <2> QED
    BY <2>2, <2>3, <2>4 DEF Ownership
<1>8. CheckedUnlessRaced'
  BY <1>1 DEF AdminInv, CheckedUnlessRaced, InService
<1> QED
  BY <1>3, <1>4, <1>5, <1>6, <1>7, <1>8 DEF AdminInv

\* The sessions that only read: a policy, its targets, a target, its policy.
LEMMA ReadPolicyStep ==
  ASSUME AdminInv, NEW h \in Handlers, NEW p \in Policies, NEW in \in PolicyInputs, ReadPolicy(h, p, in)
  PROVE  AdminInv'
<1>1. /\ SessionsShape' /\ Untouched(h)
      /\ session'[h].at = "listTargets" /\ session'[h].policy = p /\ session'[h].row \in PolicyRow
      /\ UNCHANGED <<policies, targets, owner, consumers, raced>>
  BY ReadPolicyEffect DEF AdminInv
<1>2. SessionOK(session[h])'
  BY <1>1 DEF SessionOK, Creating, Editing, PolicyEditing, Checked, TargetEdits
<1> QED
  BY <1>1, <1>2, QuietStep

LEMMA CheckTargetsStep ==
  ASSUME AdminInv, NEW h \in Handlers, CheckTargets(h)
  PROVE  AdminInv'
<1>1. /\ SessionsShape' /\ Untouched(h) /\ session[h].at = "listTargets"
      /\ \/ session'[h] = Idle
         \/ /\ session'[h].at = "writePolicy" /\ session'[h].policy = session[h].policy
            /\ session'[h].row = session[h].row
            /\ Offending(session[h].policy, session[h].row) = {}
      /\ UNCHANGED <<policies, targets, owner, consumers, raced>>
  BY CheckTargetsEffect DEF AdminInv
<1>2. session[h].policy \in Policies /\ session[h].row \in PolicyRow
  BY <1>1 DEF AdminInv, Sessions, SessionOK, PolicyEditing, PolicyEdits
<1>3. SessionOK(session[h])' /\ session'[h].at # "insertTarget"
  <2>1. CASE session'[h] = Idle
    BY <2>1, IdleIsOKNext, IdleSession DEF Idle
  <2>2. CASE session'[h] # Idle
    BY <1>1, <1>2, <2>2
       DEF SessionOK, Creating, Editing, PolicyEditing, Checked, TargetEdits, Offending, InService
  <2> QED
    BY <2>1, <2>2
<1> QED
  BY <1>1, <1>3, QuietStep

LEMMA CheckNewTargetStep ==
  ASSUME AdminInv, NEW h \in Handlers, NEW t \in Targets, NEW in \in TargetInputs, NEW p \in Policies,
         CheckNewTarget(h, t, in, p)
  PROVE  AdminInv'
<1>1. /\ SessionsShape' /\ Untouched(h)
      /\ targets[t] = NoRow /\ \A g \in Handlers : session[g].target # t
      /\ session'[h].at = "insertTarget" /\ session'[h].policy = p /\ session'[h].target = t
      /\ session'[h].row \in TargetRow /\ ~session'[h].row.retired /\ session'[h].row.policy = p
      /\ policies[p] # NoRow /\ CheckNames(session'[h].row, policies[p])
      /\ UNCHANGED <<policies, targets, owner, consumers, raced>>
  BY CheckNewTargetEffect DEF AdminInv
<1>2. SessionOK(session[h])'
  BY <1>1 DEF SessionOK, Creating, Editing, PolicyEditing, Checked, TargetEdits, PolicyEdits
<1> QED
  BY <1>1, <1>2, QuietStep

LEMMA ReadTargetStep ==
  ASSUME AdminInv, NEW h \in Handlers, NEW t \in Targets, NEW in \in TargetInputs, NEW p \in Policies,
         ReadTarget(h, t, in, p)
  PROVE  AdminInv'
<1>1. /\ SessionsShape' /\ Untouched(h) /\ InService(t) /\ targets[t] \in TargetRow
      /\ session'[h].at = "checkPolicy" /\ session'[h].policy = p /\ session'[h].target = t
      /\ session'[h].read = targets[t]
      /\ session'[h].row \in TargetRow /\ ~session'[h].row.retired /\ session'[h].row.policy = p
      /\ UNCHANGED <<policies, targets, owner, consumers, raced>>
  BY ReadTargetEffect DEF AdminInv
<1>2. targets[t].revision <= targets[t].revision
  BY <1>1 DEF TargetRow
<1>3. SessionOK(session[h])'
  BY <1>1, <1>2 DEF SessionOK, Creating, Editing, PolicyEditing, Checked, TargetEdits, PolicyEdits
<1> QED
  BY <1>1, <1>3, QuietStep

LEMMA CheckTargetStep ==
  ASSUME AdminInv, NEW h \in Handlers, CheckTarget(h)
  PROVE  AdminInv'
<1>1. /\ SessionsShape' /\ Untouched(h) /\ session[h].at = "checkPolicy"
      /\ \/ session'[h] = Idle
         \/ /\ session'[h].at = "writeTarget" /\ session'[h].policy = session[h].policy
            /\ session'[h].target = session[h].target /\ session'[h].row = session[h].row
            /\ session'[h].read = session[h].read
            /\ policies[session[h].policy] # NoRow
            /\ CheckNames(session[h].row, policies[session[h].policy])
      /\ UNCHANGED <<policies, targets, owner, consumers, raced>>
  BY CheckTargetEffect DEF AdminInv
<1>2. Editing(session[h])
  BY DEF AdminInv, Sessions, SessionOK
<1>3. SessionOK(session[h])' /\ session'[h].at # "insertTarget"
  <2>1. CASE session'[h] = Idle
    BY <2>1, IdleIsOKNext, IdleSession DEF Idle
  <2>2. CASE session'[h] # Idle
    BY <1>1, <1>2, <2>2 DEF SessionOK, Creating, Editing, PolicyEditing, Checked, TargetEdits, PolicyEdits
  <2> QED
    BY <2>1, <2>2
<1> QED
  BY <1>1, <1>3, QuietStep

LEMMA ReadForEnableStep ==
  ASSUME AdminInv, NEW h \in Handlers, NEW t \in Targets, ReadForEnable(h, t)
  PROVE  AdminInv'
<1>1. /\ SessionsShape' /\ Untouched(h) /\ InService(t) /\ targets[t] \in TargetRow
      /\ session'[h].at = "writeEnabled" /\ session'[h].target = t /\ session'[h].read = targets[t]
      /\ session'[h].row \in TargetRow /\ ~session'[h].row.retired
      /\ NamesOf(session'[h].row) = NamesOf(targets[t]) /\ session'[h].row.policy = targets[t].policy
      /\ UNCHANGED <<policies, targets, owner, consumers, raced>>
  BY ReadForEnableEffect DEF AdminInv
<1>2. targets[t].revision <= targets[t].revision
  BY <1>1 DEF TargetRow
<1>3. SessionOK(session[h])'
  BY <1>1, <1>2 DEF SessionOK, Creating, Editing, PolicyEditing, Checked, TargetEdits, PolicyEdits
<1> QED
  BY <1>1, <1>3, QuietStep

\* Steps outside the sessions: the ledger, execute and the Runner, and stuttering.
LEMMA OutsideStep ==
  ASSUME AdminInv, UNCHANGED <<policies, targets, owner, session, raced>>,
         consumers' = [t \in Targets |-> consumers'[t]]
  PROVE  AdminInv'
<1>1. Shape' /\ Stored' /\ Fresh' /\ Ownership' /\ CheckedUnlessRaced'
  BY DEF AdminInv, Shape, Stored, Fresh, Ownership, Owned, InService, CheckedUnlessRaced
<1>2. Sessions'
  BY DEF AdminInv, Sessions, SessionOK, Creating, Editing, PolicyEditing, Checked, Offending, InService
<1> QED
  BY <1>1, <1>2 DEF AdminInv

LEMMA PutConsumersEffect ==
  ASSUME Shape, NEW t \in Targets, NEW v \in 0..MaxVersion, PutConsumers(t, v)
  PROVE  /\ InService(t) /\ UNCHANGED <<policies, targets, owner, session, raced>>
         /\ consumers' = [u \in Targets |-> consumers'[u]]
         /\ \A u \in Targets : u # t => consumers'[u] = consumers[u]
BY DEF PutConsumers, SetTargetConsumers, Shape

LEMMA AdminInvStep == AdminInv /\ [Next]_vars => AdminInv'
<1> SUFFICES ASSUME AdminInv, [Next]_vars PROVE AdminInv'
  OBVIOUS
<1>1. ASSUME NEW h \in Handlers, NEW p \in Policies, NEW in \in PolicyInputs,
             CreatePolicy(h, p, in) \/ ReadPolicy(h, p, in)
      PROVE  AdminInv'
  BY <1>1, CreatePolicyStep, ReadPolicyStep
<1>2. ASSUME NEW h \in Handlers,
             CheckTargets(h) \/ WritePolicy(h) \/ InsertTarget(h) \/ CheckTarget(h) \/ WriteTarget(h)
      PROVE  AdminInv'
  BY <1>2, CheckTargetsStep, WritePolicyStep, InsertTargetStep, CheckTargetStep, WriteTargetStep
<1>3. ASSUME NEW h \in Handlers, NEW t \in Targets, NEW in \in TargetInputs, NEW p \in Policies,
             CheckNewTarget(h, t, in, p) \/ ReadTarget(h, t, in, p)
      PROVE  AdminInv'
  BY <1>3, CheckNewTargetStep, ReadTargetStep
<1>4. ASSUME NEW h \in Handlers, NEW t \in Targets, ReadForEnable(h, t) PROVE AdminInv'
  BY <1>4, ReadForEnableStep
<1>5. ASSUME NEW t \in Targets, RetireTarget(t) PROVE AdminInv'
  BY <1>5, RetireTargetStep
<1>6. ASSUME NEW t \in Targets, NEW v \in 0..MaxVersion, PutConsumers(t, v) PROVE AdminInv'
  BY <1>6, PutConsumersEffect, OutsideStep DEF AdminInv
<1>7. ASSUME (\E t \in Targets : ExecuteReads(t)) \/ ExecuteLaunches \/ RunnerAuthorizes \/ UNCHANGED vars
      PROVE  AdminInv'
  <2>1. UNCHANGED <<policies, targets, owner, consumers, session, raced>>
    BY <1>7 DEF ExecuteReads, ExecuteLaunches, RunnerAuthorizes, vars
  <2> QED
    BY <2>1, OutsideStep DEF AdminInv, Shape
<1> QED
  BY <1>1, <1>2, <1>3, <1>4, <1>5, <1>6, <1>7 DEF Next

LEMMA AdminInvInit == AdminInit => AdminInv
<1> SUFFICES ASSUME AdminInit PROVE AdminInv
  OBVIOUS
<1>1. /\ policies = [p \in Policies |-> NoRow] /\ targets = [t \in Targets |-> NoRow]
      /\ owner = {} /\ consumers = [t \in Targets |-> 0] /\ session = [h \in Handlers |-> Idle]
  BY DEF AdminInit
<1>2. Shape
  BY <1>1, IdleSession DEF Shape, Steps
<1>3. Sessions
  BY <1>1, IdleIsOK DEF Sessions
<1>4. Fresh
  BY <1>1, IdleSession DEF Fresh
<1>5. Stored /\ Ownership /\ CheckedUnlessRaced
  BY <1>1 DEF Stored, Ownership, Owned, InService, CheckedUnlessRaced
<1> QED
  BY <1>2, <1>3, <1>4, <1>5 DEF AdminInv

LEMMA AdminInvariant == Spec => []AdminInv
BY AdminInvInit, AdminInvStep, PTL DEF Spec

\* Who writes the targets and their ledgers.
LEMMA Writers ==
  ASSUME Next
  PROVE  \/ \E g \in Handlers : InsertTarget(g) \/ WriteTarget(g)
         \/ \E t \in Targets : RetireTarget(t)
         \/ \E t \in Targets, v \in 0..MaxVersion : PutConsumers(t, v) /\ UNCHANGED targets
         \/ UNCHANGED <<targets, consumers>>
<1>1. ASSUME NEW h \in Handlers, NEW p \in Policies, NEW in \in PolicyInputs,
             CreatePolicy(h, p, in) \/ ReadPolicy(h, p, in)
      PROVE  UNCHANGED <<targets, consumers>>
  BY <1>1, Zenon DEF CreatePolicy, ReadPolicy
<1>2. ASSUME NEW h \in Handlers, CheckTargets(h) \/ WritePolicy(h) \/ CheckTarget(h)
      PROVE  UNCHANGED <<targets, consumers>>
  BY <1>2, Zenon DEF CheckTargets, WritePolicy, CheckTarget
<1>3. ASSUME NEW h \in Handlers, NEW t \in Targets, NEW in \in TargetInputs, NEW p \in Policies,
             CheckNewTarget(h, t, in, p) \/ ReadTarget(h, t, in, p)
      PROVE  UNCHANGED <<targets, consumers>>
  BY <1>3, Zenon DEF CheckNewTarget, ReadTarget
<1>4. ASSUME NEW h \in Handlers, NEW t \in Targets, ReadForEnable(h, t)
      PROVE  UNCHANGED <<targets, consumers>>
  BY <1>4, Zenon DEF ReadForEnable
<1>5. ASSUME (\E t \in Targets : ExecuteReads(t)) \/ ExecuteLaunches \/ RunnerAuthorizes
      PROVE  UNCHANGED <<targets, consumers>>
  BY <1>5, Zenon DEF ExecuteReads, ExecuteLaunches, RunnerAuthorizes
<1>6. ASSUME NEW t \in Targets, NEW v \in 0..MaxVersion, PutConsumers(t, v)
      PROVE  UNCHANGED targets
  BY <1>6, Zenon DEF PutConsumers
<1> QED
  BY <1>1, <1>2, <1>3, <1>4, <1>5, <1>6 DEF Next

-----------------------------------------------------------------------------
(* What execute launches and a Runner takes up. *)

\* What execute read is a row whose policy exists, and what it launched and a Runner
\* took up has been checked.
Executions ==
  /\ run # NoRow => run \in TargetRow /\ policies[run.policy] # NoRow
  /\ job # NoRow => job.names \in Seq(Seq(Characters))
  /\ JobWithinPolicy

LEMMA PoliciesStay ==
  ASSUME AdminInv, Next, NEW q \in Policies, policies[q] # NoRow
  PROVE  policies'[q] # NoRow
<1>1. ASSUME NEW h \in Handlers, NEW p \in Policies, NEW in \in PolicyInputs, CreatePolicy(h, p, in)
      PROVE  policies'[q] # NoRow
  BY <1>1, CreatePolicyEffect DEF AdminInv
<1>2. ASSUME NEW h \in Handlers, WritePolicy(h) PROVE policies'[q] # NoRow
  <2>1. /\ session[h].row \in PolicyRow
        /\ \/ UNCHANGED policies
           \/ /\ policies'[session[h].policy] = session[h].row
              /\ \A r \in Policies : r # session[h].policy => policies'[r] = policies[r]
    BY <1>2, WritePolicyEffect DEF AdminInv
  <2> QED
    BY <2>1, AdminAssumptions
<1>3. ASSUME NEW h \in Handlers, NEW p \in Policies, NEW in \in PolicyInputs, ReadPolicy(h, p, in)
      PROVE  UNCHANGED policies
  BY <1>3, Zenon DEF ReadPolicy
<1>4. ASSUME NEW h \in Handlers,
             CheckTargets(h) \/ InsertTarget(h) \/ CheckTarget(h) \/ WriteTarget(h)
      PROVE  UNCHANGED policies
  BY <1>4, Zenon DEF CheckTargets, InsertTarget, CheckTarget, WriteTarget
<1>5. ASSUME NEW h \in Handlers, NEW t \in Targets, NEW in \in TargetInputs, NEW p \in Policies,
             CheckNewTarget(h, t, in, p) \/ ReadTarget(h, t, in, p)
      PROVE  UNCHANGED policies
  BY <1>5, Zenon DEF CheckNewTarget, ReadTarget
<1>6. ASSUME NEW h \in Handlers, NEW t \in Targets, ReadForEnable(h, t) PROVE UNCHANGED policies
  BY <1>6, Zenon DEF ReadForEnable
<1>7. ASSUME NEW t \in Targets, RetireTarget(t) \/ ExecuteReads(t) PROVE UNCHANGED policies
  BY <1>7, Zenon DEF RetireTarget, ExecuteReads
<1>8. ASSUME NEW t \in Targets, NEW v \in 0..MaxVersion, PutConsumers(t, v) PROVE UNCHANGED policies
  BY <1>8, Zenon DEF PutConsumers
<1>9. ASSUME ExecuteLaunches \/ RunnerAuthorizes PROVE UNCHANGED policies
  BY <1>9, Zenon DEF ExecuteLaunches, RunnerAuthorizes
<1> QED
  BY <1>1, <1>2, <1>3, <1>4, <1>5, <1>6, <1>7, <1>8, <1>9 DEF Next

\* Who reads, launches and takes up.
LEMMA Executors ==
  ASSUME Next
  PROVE  \/ \E t \in Targets : ExecuteReads(t)
         \/ ExecuteLaunches \/ RunnerAuthorizes
         \/ UNCHANGED <<run, job, issued>>
<1>1. ASSUME NEW h \in Handlers, NEW p \in Policies, NEW in \in PolicyInputs,
             CreatePolicy(h, p, in) \/ ReadPolicy(h, p, in)
      PROVE  UNCHANGED <<run, job, issued>>
  BY <1>1, Zenon DEF CreatePolicy, ReadPolicy
<1>2. ASSUME NEW h \in Handlers,
             CheckTargets(h) \/ WritePolicy(h) \/ InsertTarget(h) \/ CheckTarget(h) \/ WriteTarget(h)
      PROVE  UNCHANGED <<run, job, issued>>
  BY <1>2, Zenon DEF CheckTargets, WritePolicy, InsertTarget, CheckTarget, WriteTarget
<1>3. ASSUME NEW h \in Handlers, NEW t \in Targets, NEW in \in TargetInputs, NEW p \in Policies,
             CheckNewTarget(h, t, in, p) \/ ReadTarget(h, t, in, p)
      PROVE  UNCHANGED <<run, job, issued>>
  BY <1>3, Zenon DEF CheckNewTarget, ReadTarget
<1>4. ASSUME NEW h \in Handlers, NEW t \in Targets, ReadForEnable(h, t) PROVE UNCHANGED <<run, job, issued>>
  BY <1>4, Zenon DEF ReadForEnable
<1>5. ASSUME NEW t \in Targets, RetireTarget(t) PROVE UNCHANGED <<run, job, issued>>
  BY <1>5, Zenon DEF RetireTarget
<1>6. ASSUME NEW t \in Targets, NEW v \in 0..MaxVersion, PutConsumers(t, v) PROVE UNCHANGED <<run, job, issued>>
  BY <1>6, Zenon DEF PutConsumers
<1> QED
  BY <1>1, <1>2, <1>3, <1>4, <1>5, <1>6 DEF Next

\* What a Runner's own policy lets through satisfies the reference.
RunnerPolicy ==
  [suffixes |-> Trusted.suffixes, allowWildcard |-> Trusted.allowWildcard,
   maxSANs |-> IF Trusted.maxNames = 0 THEN 1 ELSE Trusted.maxNames]

LEMMA AuthorizedIsAllowed ==
  ASSUME NEW names \in Seq(Seq(Characters)), NEW bindings, Authorize(names, bindings, Trusted)
  PROVE  Allowed(names, RunnerPolicy)
<1> DEFINE p == RunnerPolicy
<1>1. /\ p.suffixes = Trusted.suffixes /\ p.allowWildcard = Trusted.allowWildcard
      /\ p.maxSANs = IF Trusted.maxNames = 0 THEN 1 ELSE Trusted.maxNames
  BY DEF RunnerPolicy
<1> HIDE DEF p
<1>2. p.maxSANs \in Nat \ {0}
  BY <1>1, NameAssumptions, AdminAssumptions
<1>3. \A i \in DOMAIN names : NormalizeFQDN(names[i]) = names[i]
  BY DEF Authorize
<1>4. \A s \in p.suffixes : s \in Seq(Characters) /\ NormalizeSuffix(s) = s
  BY <1>1, NameAssumptions
<1>5. CheckCount(Len(names), p.maxSANs)
  BY <1>1, NameAssumptions, AdminAssumptions DEF Authorize, CheckCount
<1>6. NamesAllowed(names, p.suffixes, p.allowWildcard, p.maxSANs)
  BY <1>1, <1>5 DEF Authorize, NamesAllowed
<1>7. Allowed(names, p)
  BY <1>2, <1>3, <1>4, <1>6, CheckIsReference
<1> QED
  BY <1>7 DEF p

LEMMA ExecutionsStep == AdminInv /\ Executions /\ [Next]_vars => Executions'
<1> SUFFICES ASSUME AdminInv, Executions, [Next]_vars PROVE Executions'
  OBVIOUS
<1>1. ASSUME NEW t \in Targets, ExecuteReads(t) PROVE Executions'
  <2>1. InService(t) /\ run' = targets[t] /\ job' = NoRow /\ issued' = NoRow /\ UNCHANGED policies
    BY <1>1 DEF ExecuteReads
  <2>2. targets[t] \in TargetRow /\ policies[targets[t].policy] # NoRow
    BY <2>1 DEF InService, AdminInv, Shape, Stored
  <2> QED
    BY <2>1, <2>2 DEF Executions, JobWithinPolicy
<1>2. ASSUME ExecuteLaunches PROVE Executions'
  <2> DEFINE p == policies[run.policy]
             made == BuildJobSpec(run, p)
  <2>1. /\ run # NoRow /\ run' = NoRow /\ UNCHANGED <<policies, issued>>
        /\ job' = IF p.enabled /\ JobSpecValid(NamesOf(run), p) THEN made ELSE NoRow
    BY <1>2 DEF ExecuteLaunches
  <2>2. run \in TargetRow /\ p # NoRow
    BY <2>1 DEF Executions
  <2>3. p \in PolicyRow
    <3>1. run.policy \in Policies
      BY <2>2 DEF TargetRow
    <3> QED
      BY <2>2, <3>1 DEF AdminInv, Shape
  <2>4. made.names = NamesOf(run) /\ made.snapshot = p
    BY DEF BuildJobSpec
  <2> HIDE DEF p, made
  <2>5. ASSUME job' # NoRow PROVE Allowed(job.names, job.snapshot)' /\ job'.names \in Seq(Seq(Characters))
    <3>1. job' = made /\ CheckNames(run, p)
      BY <2>1, <2>5 DEF JobSpecValid, CheckNames
    <3>2. Allowed(NamesOf(run), p)
      BY <2>2, <2>3, <3>1, CheckedIsAllowed
    <3>3. Allowed(made.names, made.snapshot)
      BY <2>4, <3>2
    <3> QED
      BY <2>2, <2>4, <3>1, <3>3, RowNamesNormal
  <2> QED
    BY <2>1, <2>5 DEF Executions, JobWithinPolicy
<1>3. ASSUME RunnerAuthorizes PROVE Executions'
  <2>1. /\ job # NoRow /\ Authorize(job.names, job.bindings, Trusted)
        /\ issued' = job /\ UNCHANGED <<policies, run, job>>
    BY <1>3 DEF RunnerAuthorizes
  <2>2. Allowed(job.names, RunnerPolicy)
    BY <2>1, AuthorizedIsAllowed DEF Executions
  <2>3. \A kind \in DOMAIN job.bindings : job.bindings[kind] \in Trusted.allowed[kind]
    BY <2>1 DEF Authorize
  <2> QED
    BY <2>1, <2>2, <2>3 DEF Executions, JobWithinPolicy, RunnerPolicy
<1>4. ASSUME UNCHANGED <<run, job, issued>>, Next PROVE Executions'
  <2>1. run # NoRow => run.policy \in Policies
    BY DEF Executions, TargetRow
  <2>2. run # NoRow => policies'[run.policy] # NoRow
    BY <1>4, <2>1, PoliciesStay DEF Executions
  <2> QED
    BY <1>4, <2>2 DEF Executions, JobWithinPolicy
<1>5. ASSUME UNCHANGED vars PROVE Executions'
  BY <1>5 DEF vars, Executions, JobWithinPolicy
<1> QED
  BY <1>1, <1>2, <1>3, <1>4, <1>5, Executors

-----------------------------------------------------------------------------
(* What is stored is well formed. *)

\* What a session carries to its write.
Carried(s) ==
  /\ s.at \in PolicyEdits => Usable(s.row)
  /\ s.at = "insertTarget" => s.row.revision = 1 /\ Named(s.row)
  /\ s.at \in TargetEdits => s.read.revision \in 1..MaxRevision - 1 /\ Named(s.row)

\* Only a retirement takes a revision past MaxRevision.
WellRevised(row) == row.revision \in 1..MaxRevision + 1 /\ (~row.retired => row.revision <= MaxRevision)

UsablePolicies == \A p \in Policies : policies[p] # NoRow => Usable(policies[p])
NamedTargets == \A t \in Targets : targets[t] # NoRow => Named(targets[t]) /\ WellRevised(targets[t])
CarriedRows == \A h \in Handlers : Carried(session[h])
Ledgers == consumers \in [Targets -> 0..MaxVersion] /\ raced \subseteq Targets

WellStored == UsablePolicies /\ NamedTargets /\ CarriedRows /\ Ledgers

LEMMA IdleCarries == Carried(Idle)
BY IdleSession DEF Carried, PolicyEdits, TargetEdits

LEMMA MarkedCarry ==
  ASSUME CarriedRows, NEW h \in Handlers, session'[h] = Idle, Marked(h)
  PROVE  CarriedRows'
<1> SUFFICES ASSUME NEW g \in Handlers PROVE Carried(session'[g])
  BY DEF CarriedRows, Carried
<1>1. CASE g = h
  BY <1>1, IdleCarries
<1>2. CASE g # h
  BY <1>2 DEF CarriedRows, Carried, Marked, Same
<1> QED
  BY <1>1, <1>2

LEMMA OneCarries ==
  ASSUME CarriedRows, NEW h \in Handlers, Untouched(h), Carried(session'[h])
  PROVE  CarriedRows'
BY DEF CarriedRows, Carried, Untouched

\* Sessions that only read or check.
LEMMA ReadersCarry ==
  ASSUME AdminInv, WellStored, NEW h \in Handlers,
         UNCHANGED <<policies, targets, consumers, raced>>, Untouched(h), Carried(session'[h])
  PROVE  WellStored'
BY OneCarries DEF WellStored, UsablePolicies, NamedTargets, Ledgers

LEMMA PolicyRows ==
  ASSUME AdminInv, WellStored, NEW h \in Handlers, NEW p \in Policies, NEW in \in PolicyInputs,
         CreatePolicy(h, p, in) \/ ReadPolicy(h, p, in)
  PROVE  WellStored'
<1>1. CASE CreatePolicy(h, p, in)
  <2>1. /\ Usable(policies'[p]) /\ \A q \in Policies : q # p => policies'[q] = policies[q]
        /\ UNCHANGED <<targets, consumers, session, raced>>
    BY <1>1, CreatePolicyEffect DEF AdminInv
  <2> QED
    BY <2>1 DEF WellStored, UsablePolicies, NamedTargets, CarriedRows, Ledgers
<1>2. CASE ReadPolicy(h, p, in)
  <2>1. /\ Untouched(h) /\ session'[h].at = "listTargets" /\ Usable(session'[h].row)
        /\ UNCHANGED <<policies, targets, consumers, raced>>
    BY <1>2, ReadPolicyEffect DEF AdminInv
  <2> QED
    BY <2>1, ReadersCarry DEF Carried, PolicyEdits, TargetEdits
<1> QED
  BY <1>1, <1>2

LEMMA CheckRows ==
  ASSUME AdminInv, WellStored, NEW h \in Handlers, CheckTargets(h) \/ CheckTarget(h)
  PROVE  WellStored'
<1>1. Carried(session[h])
  BY DEF WellStored, CarriedRows
<1>2. CASE CheckTargets(h)
  <2>1. /\ Untouched(h) /\ UNCHANGED <<policies, targets, consumers, raced>>
        /\ session[h].at = "listTargets"
        /\ session'[h] = Idle \/ (session'[h].at = "writePolicy" /\ session'[h].row = session[h].row)
    BY <1>2, CheckTargetsEffect DEF AdminInv
  <2>2. Carried(session'[h])
    BY <1>1, <2>1, IdleCarries DEF Carried, PolicyEdits, TargetEdits
  <2> QED
    BY <2>1, <2>2, ReadersCarry
<1>3. CASE CheckTarget(h)
  <2>1. /\ Untouched(h) /\ UNCHANGED <<policies, targets, consumers, raced>>
        /\ session[h].at = "checkPolicy"
        /\ \/ session'[h] = Idle
           \/ /\ session'[h].at = "writeTarget" /\ session'[h].row = session[h].row
              /\ session'[h].read = session[h].read
    BY <1>3, CheckTargetEffect DEF AdminInv
  <2>2. Carried(session'[h])
    BY <1>1, <2>1, IdleCarries DEF Carried, PolicyEdits, TargetEdits
  <2> QED
    BY <2>1, <2>2, ReadersCarry
<1> QED
  BY <1>2, <1>3

LEMMA ReadRows ==
  ASSUME AdminInv, WellStored, NEW h \in Handlers, NEW t \in Targets,
         \/ \E in \in TargetInputs, p \in Policies : CheckNewTarget(h, t, in, p) \/ ReadTarget(h, t, in, p)
         \/ ReadForEnable(h, t)
  PROVE  WellStored'
<1>1. ASSUME NEW in \in TargetInputs, NEW p \in Policies, CheckNewTarget(h, t, in, p) PROVE WellStored'
  <2>1. /\ Untouched(h) /\ UNCHANGED <<policies, targets, consumers, raced>>
        /\ session'[h].at = "insertTarget" /\ session'[h].row.revision = 1 /\ Named(session'[h].row)
    BY <1>1, CheckNewTargetEffect DEF AdminInv
  <2> QED
    BY <2>1, ReadersCarry DEF Carried, PolicyEdits, TargetEdits
<1>2. ASSUME NEW at \in TargetEdits, session'[h].at = at, session'[h].read = targets[t],
             targets[t].revision < MaxRevision, InService(t), Named(targets[t]) => Named(session'[h].row),
             Untouched(h), UNCHANGED <<policies, targets, consumers, raced>>
      PROVE  WellStored'
  <2>1. Named(targets[t]) /\ targets[t].revision \in 1..MaxRevision + 1
    BY <1>2 DEF WellStored, NamedTargets, WellRevised, InService
  <2>2. session'[h].read.revision \in 1..MaxRevision - 1
    BY <1>2, <2>1, AdminAssumptions
  <2>3. Carried(session'[h])
    BY <1>2, <2>1, <2>2 DEF Carried, PolicyEdits, TargetEdits
  <2> QED
    BY <1>2, <2>3, ReadersCarry
<1>3. ASSUME NEW in \in TargetInputs, NEW p \in Policies, ReadTarget(h, t, in, p) PROVE WellStored'
  BY <1>2, <1>3, ReadTargetEffect DEF AdminInv, TargetEdits
<1>4. ASSUME ReadForEnable(h, t) PROVE WellStored'
  BY <1>2, <1>4, ReadForEnableEffect DEF AdminInv, TargetEdits
<1> QED
  BY <1>1, <1>3, <1>4

LEMMA WritePolicyRows ==
  ASSUME AdminInv, WellStored, NEW h \in Handlers, WritePolicy(h)
  PROVE  WellStored'
<1> DEFINE p == session[h].policy
<1>1. /\ session[h].at = "writePolicy" /\ p \in Policies /\ session'[h] = Idle /\ Marked(h)
      /\ UNCHANGED <<targets, consumers>>
      /\ \/ UNCHANGED <<policies, raced>>
         \/ /\ policies'[p] = session[h].row
            /\ \A q \in Policies : q # p => policies'[q] = policies[q]
            /\ raced' = IF session[h].overtaken THEN raced \cup Under(p) ELSE raced \ Under(p)
  BY WritePolicyEffect DEF AdminInv
<1>2. Usable(session[h].row)
  BY <1>1 DEF WellStored, CarriedRows, Carried, PolicyEdits
<1>3. UsablePolicies'
  BY <1>1, <1>2 DEF WellStored, UsablePolicies
<1>4. CarriedRows'
  BY <1>1, MarkedCarry DEF WellStored
<1>5. NamedTargets' /\ Ledgers'
  BY <1>1 DEF WellStored, NamedTargets, Ledgers, Under
<1> QED
  BY <1>3, <1>4, <1>5 DEF WellStored

\* A row written to one target.
LEMMA TargetRows ==
  ASSUME AdminInv, WellStored, NEW t \in Targets, NEW row, targets' = [targets EXCEPT ![t] = row],
         Named(row), WellRevised(row)
  PROVE  NamedTargets'
<1>1. targets'[t] = row /\ \A u \in Targets : u # t => targets'[u] = targets[u]
  BY DEF AdminInv, Shape
<1> QED
  BY <1>1 DEF WellStored, NamedTargets

LEMMA WriteTargetRows ==
  ASSUME AdminInv, WellStored, NEW h \in Handlers, InsertTarget(h) \/ WriteTarget(h)
  PROVE  WellStored'
<1> DEFINE s == session[h]
           t == session[h].target
<1>1. Carried(s)
  BY DEF WellStored, CarriedRows
<1>2. ASSUME session'[h] = Idle, Marked(h), UNCHANGED <<policies, consumers>>,
             NamedTargets', raced' \subseteq Targets
      PROVE  WellStored'
  <2>1. CarriedRows'
    BY <1>2, MarkedCarry DEF WellStored
  <2> QED
    BY <1>2, <2>1 DEF WellStored, UsablePolicies, Ledgers
<1>3. CASE InsertTarget(h)
  <2>1. /\ s.at = "insertTarget" /\ t \in Targets /\ session'[h] = Idle /\ Marked(h)
        /\ UNCHANGED <<policies, consumers>>
        /\ \/ UNCHANGED <<targets, raced>>
           \/ targets' = [targets EXCEPT ![t] = s.row] /\ raced' = Rechecked(t, s)
    BY <1>3, InsertTargetEffect DEF AdminInv
  <2>2. Named(s.row) /\ WellRevised(s.row)
    BY <1>1, <2>1, AdminAssumptions DEF Carried, WellRevised
  <2>3. NamedTargets'
    <3>1. CASE UNCHANGED targets
      BY <3>1 DEF WellStored, NamedTargets
    <3>2. CASE targets' = [targets EXCEPT ![t] = s.row]
      BY <2>1, <2>2, <3>2, TargetRows
    <3> QED
      BY <2>1, <3>1, <3>2
  <2>4. raced' \subseteq Targets
    BY <2>1 DEF WellStored, Ledgers, Rechecked
  <2> QED
    BY <1>2, <2>1, <2>3, <2>4
<1>4. CASE WriteTarget(h)
  <2> DEFINE row == [s.row EXCEPT !.revision = targets[t].revision + 1]
  <2>1. /\ s.at \in {"writeTarget", "writeEnabled"} /\ t \in Targets /\ s.row \in TargetRow /\ ~s.row.retired
        /\ session'[h] = Idle /\ Marked(h) /\ UNCHANGED <<policies, consumers>>
        /\ \/ UNCHANGED <<targets, raced>>
           \/ /\ s.read = targets[t] /\ targets' = [targets EXCEPT ![t] = row]
              /\ raced' = IF s.at = "writeTarget" THEN Rechecked(t, s) ELSE raced
    BY <1>4, WriteTargetEffect DEF AdminInv
  <2>2. Named(s.row) /\ s.read.revision \in 1..MaxRevision - 1
    BY <1>1, <2>1 DEF Carried, TargetEdits
  <2>3. NamedTargets'
    <3>1. CASE UNCHANGED targets
      BY <3>1 DEF WellStored, NamedTargets
    <3>2. CASE s.read = targets[t] /\ targets' = [targets EXCEPT ![t] = row]
      <4>1. targets[t].revision + 1 \in 1..MaxRevision /\ targets[t].revision + 1 \in Nat
        BY <2>2, <3>2, AdminAssumptions
      <4>2. Named(row) /\ row.revision = targets[t].revision + 1
        BY <2>1, <2>2, <4>1, RaisedRevision
      <4>3. WellRevised(row)
        <5> HIDE DEF row
        <5> QED
          BY <4>1, <4>2, AdminAssumptions DEF WellRevised
      <4> QED
        BY <2>1, <3>2, <4>2, <4>3, TargetRows
    <3> QED
      BY <2>1, <3>1, <3>2
  <2>4. raced' \subseteq Targets
    BY <2>1 DEF WellStored, Ledgers, Rechecked
  <2> QED
    BY <1>2, <2>1, <2>3, <2>4
<1> QED
  BY <1>3, <1>4

LEMMA RetireRows ==
  ASSUME AdminInv, WellStored, NEW t \in Targets, RetireTarget(t)
  PROVE  WellStored'
<1>1. /\ InService(t) /\ targets'[t].retired /\ targets'[t].revision = targets[t].revision + 1
      /\ (Named(targets[t]) => Named(targets'[t]))
      /\ \A u \in Targets : u # t => targets'[u] = targets[u]
      /\ UNCHANGED <<policies, consumers, session, raced>>
  BY RetireTargetEffect DEF AdminInv
<1>2. Named(targets[t]) /\ targets[t].revision \in 1..MaxRevision + 1 /\ targets[t].revision <= MaxRevision
  BY <1>1 DEF WellStored, NamedTargets, WellRevised, InService
<1>3. WellRevised(targets'[t])
  <2>1. targets[t].revision + 1 \in 1..MaxRevision + 1
    BY <1>2, AdminAssumptions
  <2> QED
    BY <1>1, <2>1 DEF WellRevised
<1>4. NamedTargets'
  BY <1>1, <1>2, <1>3 DEF WellStored, NamedTargets
<1> QED
  BY <1>1, <1>4 DEF WellStored, UsablePolicies, CarriedRows, Ledgers

LEMMA ConsumerRows ==
  ASSUME AdminInv, WellStored, NEW t \in Targets, NEW v \in 0..MaxVersion, PutConsumers(t, v)
  PROVE  WellStored'
<1>1. /\ v < MaxVersion /\ consumers[t] = v /\ consumers' = [consumers EXCEPT ![t] = @ + 1]
      /\ UNCHANGED <<policies, targets, session, raced>>
  BY DEF PutConsumers, SetTargetConsumers
<1>2. Ledgers'
  BY <1>1, AdminAssumptions DEF WellStored, Ledgers
<1> QED
  BY <1>1, <1>2 DEF WellStored, UsablePolicies, NamedTargets, CarriedRows

LEMMA RowsStep == AdminInv /\ WellStored /\ [Next]_vars => WellStored'
<1> SUFFICES ASSUME AdminInv, WellStored, [Next]_vars PROVE WellStored'
  OBVIOUS
<1>1. ASSUME NEW h \in Handlers, NEW p \in Policies, NEW in \in PolicyInputs,
             CreatePolicy(h, p, in) \/ ReadPolicy(h, p, in)
      PROVE  WellStored'
  BY <1>1, PolicyRows
<1>2. ASSUME NEW h \in Handlers,
             CheckTargets(h) \/ WritePolicy(h) \/ InsertTarget(h) \/ CheckTarget(h) \/ WriteTarget(h)
      PROVE  WellStored'
  BY <1>2, CheckRows, WritePolicyRows, WriteTargetRows
<1>3. ASSUME NEW h \in Handlers, NEW t \in Targets, NEW in \in TargetInputs, NEW p \in Policies,
             CheckNewTarget(h, t, in, p) \/ ReadTarget(h, t, in, p)
      PROVE  WellStored'
  BY <1>3, ReadRows
<1>4. ASSUME NEW h \in Handlers, NEW t \in Targets, ReadForEnable(h, t) PROVE WellStored'
  BY <1>4, ReadRows
<1>5. ASSUME NEW t \in Targets, RetireTarget(t) PROVE WellStored'
  BY <1>5, RetireRows
<1>6. ASSUME NEW t \in Targets, NEW v \in 0..MaxVersion, PutConsumers(t, v) PROVE WellStored'
  BY <1>6, ConsumerRows
<1>7. ASSUME (\E t \in Targets : ExecuteReads(t)) \/ ExecuteLaunches \/ RunnerAuthorizes \/ UNCHANGED vars
      PROVE  WellStored'
  <2>1. UNCHANGED <<policies, targets, owner, consumers, session, raced>>
    BY <1>7 DEF ExecuteReads, ExecuteLaunches, RunnerAuthorizes, vars
  <2> QED
    BY <2>1 DEF WellStored, UsablePolicies, NamedTargets, CarriedRows, Ledgers
<1> QED
  BY <1>1, <1>2, <1>3, <1>4, <1>5, <1>6, <1>7 DEF Next

LEMMA RowsInvariant == Spec => []WellStored
<1>1. AdminInit => WellStored
  BY IdleCarries, AdminAssumptions DEF AdminInit, WellStored, UsablePolicies, NamedTargets, CarriedRows, Ledgers
<1> QED
  BY <1>1, RowsStep, AdminInvariant, PTL DEF Spec

LEMMA RowNamesNamed ==
  ASSUME NEW row \in TargetRow, Named(row), NEW i \in DOMAIN NamesOf(row)
  PROVE  NamesOf(row)[i] # Refused
BY RowNames DEF Named

-----------------------------------------------------------------------------
(* Theorems. *)

\* target_names holds exactly the names of the targets in service, and no name
\* belongs to two targets, whatever creates, edits and retirements interleave
\* (claimNames, RetireTarget).
THEOREM NamesCorrect == Spec => []NamesExclusive
<1>1. AdminInv => NamesExclusive
  <2> SUFFICES ASSUME AdminInv PROVE NamesExclusive
    OBVIOUS
  <2> DEFINE Serving == {u \in Targets : InService(u)}
             Rows(t) == {<<NamesOf(targets[t])[i], t>> : i \in DOMAIN NamesOf(targets[t])}
  <2>1. ASSUME NEW o \in owner PROVE o \in UNION {Rows(t) : t \in Serving}
    <3>1. PICK t \in Targets : Owned(o[1], t) /\ o = <<o[1], t>>
      BY DEF AdminInv, Ownership
    <3>2. t \in Serving /\ o \in Rows(t)
      BY <3>1 DEF Owned
    <3> QED
      BY <3>2
  <2>2. ASSUME NEW t \in Serving, NEW o \in Rows(t) PROVE o \in owner
    <3>1. PICK i \in DOMAIN NamesOf(targets[t]) : o = <<NamesOf(targets[t])[i], t>>
      OBVIOUS
    <3>2. Owned(NamesOf(targets[t])[i], t)
      BY DEF Owned
    <3> QED
      BY <3>1, <3>2 DEF AdminInv, Ownership
  <2>3. owner = UNION {Rows(t) : t \in Serving}
    BY <2>1, <2>2
  <2> QED
    BY <2>3 DEF NamesExclusive, AdminInv, Ownership
<1> QED
  BY <1>1, AdminInvariant, PTL

\* A target in service fails the check of its policy only if its last write, or its
\* policy's, was overtaken between the handler's check and its transaction: nothing
\* else the API does takes a target out of its policy (checkPolicy, handleUpdatePolicy).
THEOREM CheckedCorrect == Spec => []CheckedUnlessRaced
<1>1. AdminInv => CheckedUnlessRaced
  BY DEF AdminInv
<1> QED
  BY <1>1, AdminInvariant, PTL

\* UpdateTarget writes only over the row its handler read: of two edits made from one
\* revision at most one is applied, and none after a retirement.
THEOREM EditCorrect == Spec => EditOnRowRead
<1> DEFINE Applied == \A h \in Handlers :
             LET s == session[h]
             IN s.at \in {"writeTarget", "writeEnabled"} /\ session'[h] = Idle
                  /\ targets' # targets => s.read = targets[s.target]
<1>1. AdminInv /\ [Next]_vars => [Applied]_vars
  <2> SUFFICES ASSUME AdminInv, Next,
                      NEW h \in Handlers, session[h].at \in {"writeTarget", "writeEnabled"},
                      session'[h] = Idle, targets' # targets
               PROVE  session[h].read = targets[session[h].target]
    OBVIOUS
  <2>1. session'[h].at = "idle"
    BY IdleSession
  <2>2. ASSUME NEW g \in Handlers, InsertTarget(g) PROVE FALSE
    <3>1. session[g].at = "insertTarget" /\ Marked(g)
      BY <2>2, InsertTargetEffect DEF AdminInv
    <3> QED
      BY <2>1, <3>1 DEF Marked, Same
  <2>3. ASSUME NEW g \in Handlers, WriteTarget(g) PROVE session[h].read = targets[session[h].target]
    <3>1. /\ Marked(g)
          /\ UNCHANGED targets \/ session[g].read = targets[session[g].target]
      BY <2>3, WriteTargetEffect DEF AdminInv
    <3>2. h = g
      BY <2>1, <3>1 DEF Marked, Same
    <3> QED
      BY <3>1, <3>2
  <2>4. ASSUME NEW t \in Targets, RetireTarget(t) PROVE FALSE
    BY <2>1, <2>4 DEF RetireTarget
  <2>5. \/ \E g \in Handlers : InsertTarget(g) \/ WriteTarget(g)
        \/ \E t \in Targets : RetireTarget(t)
    BY Writers
  <2> QED
    BY <2>2, <2>3, <2>4, <2>5
<1> QED
  BY <1>1, AdminInvariant, PTL DEF Spec, EditOnRowRead

\* Retirement is final: neither an edit that was already under way, nor a flag, nor a
\* ledger write, nor a create changes a retired target's row or ledger.
THEOREM RetirementCorrect == Spec => RetiredIsFinal
<1> DEFINE Final == \A t \in Targets : targets[t] # NoRow /\ targets[t].retired =>
             targets'[t] = targets[t] /\ consumers'[t] = consumers[t]
<1>1. AdminInv /\ [Next]_vars => [Final]_vars
  <2> SUFFICES ASSUME AdminInv, Next, NEW t \in Targets, targets[t] # NoRow, targets[t].retired
               PROVE  targets'[t] = targets[t] /\ consumers'[t] = consumers[t]
    OBVIOUS
  <2>1. ASSUME NEW g \in Handlers, InsertTarget(g)
        PROVE  targets'[t] = targets[t] /\ consumers'[t] = consumers[t]
    BY <2>1, InsertTargetEffect DEF AdminInv, Shape
  <2>2. ASSUME NEW g \in Handlers, WriteTarget(g)
        PROVE  targets'[t] = targets[t] /\ consumers'[t] = consumers[t]
    BY <2>2, WriteTargetEffect DEF AdminInv, Shape, InService
  <2>3. ASSUME NEW u \in Targets, RetireTarget(u)
        PROVE  targets'[t] = targets[t] /\ consumers'[t] = consumers[t]
    BY <2>3, RetireTargetEffect DEF AdminInv, InService
  <2>4. ASSUME NEW u \in Targets, NEW v \in 0..MaxVersion, PutConsumers(u, v)
        PROVE  targets'[t] = targets[t] /\ consumers'[t] = consumers[t]
    BY <2>4, PutConsumersEffect DEF AdminInv, InService
  <2>5. \/ \E g \in Handlers : InsertTarget(g) \/ WriteTarget(g)
        \/ \E u \in Targets : RetireTarget(u)
        \/ \E u \in Targets, v \in 0..MaxVersion : PutConsumers(u, v)
        \/ UNCHANGED <<targets, consumers>>
    BY Writers
  <2> QED
    BY <2>1, <2>2, <2>3, <2>4, <2>5
<1> QED
  BY <1>1, AdminInvariant, PTL DEF Spec, RetiredIsFinal

\* Every target in service whose last check was not overtaken has only names that lie,
\* label by label, at or under a suffix of its policy, wildcards where allowed and no
\* more names than allowed, whatever the names and suffixes.
THEOREM CoveredCorrect == Spec => []CoveredUnlessRaced
<1>1. AdminInv => CoveredUnlessRaced
  <2> SUFFICES ASSUME AdminInv, NEW t \in Targets \ raced, InService(t)
               PROVE  Allowed(NamesOf(targets[t]), policies[targets[t].policy])
    BY DEF CoveredUnlessRaced
  <2>1. targets[t] \in TargetRow /\ policies[targets[t].policy] # NoRow
    BY DEF AdminInv, Shape, Stored, InService
  <2>2. targets[t].policy \in Policies
    BY <2>1 DEF TargetRow
  <2>3. policies[targets[t].policy] \in PolicyRow
    BY <2>1, <2>2 DEF AdminInv, Shape
  <2>4. CheckNames(targets[t], policies[targets[t].policy])
    BY DEF AdminInv, CheckedUnlessRaced
  <2> QED
    BY <2>1, <2>3, <2>4, CheckedIsAllowed
<1> QED
  BY <1>1, AdminInvariant, PTL

\* No job leaves the Conductor with a name the policy snapshot in it does not allow, and
\* no Runner works on a name or with a binding outside its own policy, whatever edits of
\* targets and policies run between execute's two reads (BuildJobSpec, Authorize).
THEOREM JobCorrect == Spec => []JobWithinPolicy
<1>1. AdminInit => Executions
  BY DEF AdminInit, Executions, JobWithinPolicy
<1>2. Executions => JobWithinPolicy
  BY DEF Executions
<1> QED
  BY <1>1, <1>2, ExecutionsStep, AdminInvariant, PTL DEF Spec

\* Every stored row is well formed: names and suffixes are kept in normal form, a
\* target's policy exists, and at most MaxNames names are allowed.
THEOREM AdminTypeCorrect == Spec => []TypeOK
<1>1. AdminInv /\ WellStored => TypeOK
  <2> SUFFICES ASSUME AdminInv, WellStored PROVE TypeOK
    OBVIOUS
  <2>1. ASSUME NEW p \in Policies, policies[p] # NoRow PROVE IsPolicy(policies[p])
    <3> DEFINE r == policies[p]
    <3>1. r \in PolicyRow /\ Usable(r)
      BY <2>1 DEF AdminInv, Shape, WellStored, UsablePolicies
    <3> HIDE DEF r
    <3>2. r.allowWildcard \in BOOLEAN /\ r.enabled \in BOOLEAN
      <4> DEFINE Wild == {in.allowWildcard : in \in PolicyInputs}
                 Enabled == {TRUE} \cup UNION {in.enabled : in \in PolicyInputs}
      <4>1. Wild \subseteq BOOLEAN
        BY AdminAssumptions
      <4>2. Enabled \subseteq BOOLEAN
        <5> SUFFICES ASSUME NEW b \in Enabled, b # TRUE PROVE b \in BOOLEAN
          OBVIOUS
        <5>1. PICK in \in PolicyInputs : b \in in.enabled
          OBVIOUS
        <5> QED
          BY <5>1, AdminAssumptions
      <4>3. r.allowWildcard \in Wild /\ r.enabled \in Enabled
        <5> HIDE DEF Wild, Enabled
        <5>1. r \in [name : {""} \cup UNION {in.name : in \in PolicyInputs},
                     acme : {in.acme : in \in PolicyInputs},
                     suffixes : {{NormalizeSuffix(x) : x \in in.suffixes} : in \in PolicyInputs},
                     allowWildcard : Wild, maxSANs : 1..MaxNames, enabled : Enabled]
          BY <3>1 DEF PolicyRow, Wild, Enabled
        <5> QED
          BY <5>1
      <4> HIDE DEF Wild, Enabled
      <4> QED
        BY <4>1, <4>2, <4>3
    <3>3. r.maxSANs \in 1..MaxNames
      BY <3>1 DEF PolicyRow
    <3>4. \A s \in r.suffixes : NormalizeSuffix(s) = s /\ s # Refused
      BY <3>1, RowSuffixesNormal DEF Usable
    <3>5. IsPolicy(r)
      BY <3>1, <3>2, <3>3, <3>4 DEF IsPolicy, Usable
    <3> QED
      BY <3>5 DEF r
  <2>2. ASSUME NEW t \in Targets, targets[t] # NoRow PROVE IsTarget(targets[t])
    <3>1. targets[t] \in TargetRow /\ WellRevised(targets[t]) /\ policies[targets[t].policy] # NoRow
      BY <2>2 DEF AdminInv, Shape, Stored, WellStored, NamedTargets
    <3> QED
      BY <3>1, RowNamesNormal DEF IsTarget, WellRevised
  <2>3. \A o \in owner : o[2] \in Targets
    BY DEF AdminInv, Ownership
  <2> QED
    BY <2>1, <2>2, <2>3 DEF TypeOK, WellStored, Ledgers
<1> QED
  BY <1>1, RowsInvariant, AdminInvariant, PTL

\* CoveredUnlessRaced both ways and for every policy a target may be held against.
CheckIsExact ==
  \A t \in Targets, p \in Policies :
    targets[t] # NoRow /\ policies[p] # NoRow =>
      (CheckNames(targets[t], policies[p]) <=> Allowed(NamesOf(targets[t]), policies[p]))

\* For every stored target and policy checkNames accepts exactly what lies, label by
\* label, at or under a suffix, with the wildcards and as many names as the policy allows.
THEOREM CheckIsExactCorrect == Spec => []CheckIsExact
<1>1. AdminInv /\ WellStored => CheckIsExact
  <2> SUFFICES ASSUME AdminInv, WellStored, NEW t \in Targets, NEW p \in Policies,
                      targets[t] # NoRow, policies[p] # NoRow
               PROVE  CheckNames(targets[t], policies[p]) <=> Allowed(NamesOf(targets[t]), policies[p])
    BY DEF CheckIsExact
  <2> DEFINE row == targets[t]
             q == policies[p]
  <2>1. row \in TargetRow /\ Named(row) /\ q \in PolicyRow /\ Usable(q)
    BY DEF AdminInv, Shape, WellStored, NamedTargets, UsablePolicies
  <2> HIDE DEF row, q
  <2>2. /\ NamesOf(row) \in Seq(Seq(Characters))
        /\ \A i \in DOMAIN NamesOf(row) :
             NormalizeFQDN(NamesOf(row)[i]) = NamesOf(row)[i] /\ NamesOf(row)[i] # Refused
    BY <2>1, RowNamesNormal, RowNamesNamed
  <2>3. q.maxSANs \in Nat \ {0} /\ \A s \in q.suffixes : s \in Seq(Characters) /\ NormalizeSuffix(s) = s /\ s # Refused
    BY <2>1, RowSuffixesNormal DEF Usable
  <2>4. NamesAllowed(NamesOf(row), q.suffixes, q.allowWildcard, q.maxSANs) <=> Allowed(NamesOf(row), q)
    BY <2>2, <2>3, NamesAllowedExact
  <2> QED
    BY <2>4 DEF CheckNames, row, q
<1> QED
  BY <1>1, RowsInvariant, AdminInvariant, PTL
=============================================================================
