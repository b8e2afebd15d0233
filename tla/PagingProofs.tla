---------------------------- MODULE PagingProofs ----------------------------
(***************************************************************************)
(* Proofs about the two listings that are read page by page: the galleries *)
(* page (GalleryBrowser) and ListUploads (UploadListing, as Listing).      *)
(*                                                                         *)
(* Both serve a list by its order, so the proofs begin with orders: the    *)
(* rank of an element is the number of those before it, ranks are the      *)
(* numbers from 0, and a list is determined by being ordered and by what   *)
(* it holds.  The galleries page then is right for any galleries and page  *)
(* size, however its requests overlap; the listing for any number of       *)
(* photos and page size, whatever is saved between two pages.              *)
(***************************************************************************)
EXTENDS GalleryBrowser, TLAPS, FiniteSetTheorems, SequenceTheorems

CONSTANTS MaxPhotos, PageSize

VARIABLES repository, saved, at, offset, total, got, first, raced

Listing == INSTANCE UploadListing

-----------------------------------------------------------------------------
(* Ranks: the place of an element is the number of those before it.        *)

\* In a finite chain the ranks are the numbers from 0, each of one element.
LEMMA Ranks ==
    ASSUME NEW S, IsFiniteSet(S), NEW before \in [S -> SUBSET S],
           \A g \in S : g \notin before[g],
           \A g, h \in S : g # h => \/ g \in before[h] /\ before[g] \subseteq before[h]
                                    \/ h \in before[g] /\ before[h] \subseteq before[g]
    PROVE  /\ \A g \in S : Cardinality(before[g]) \in 0 .. Cardinality(S) - 1
           /\ \A g, h \in S :
                 g \in before[h] => Cardinality(before[g]) < Cardinality(before[h])
           /\ \A g, h \in S : Cardinality(before[g]) = Cardinality(before[h]) => g = h
           /\ \A k \in 1 .. Cardinality(S) : \E g \in S : Cardinality(before[g]) = k - 1
<1> DEFINE n == Cardinality(S)
           Rank(g) == Cardinality(before[g])
<1>0. n \in Nat
  BY FS_CardinalityType
<1>1. ASSUME NEW g \in S
      PROVE  IsFiniteSet(before[g]) /\ Rank(g) \in 0 .. n - 1
  <2>1. IsFiniteSet(before[g]) /\ Rank(g) <= n /\ (n = Rank(g) => S = before[g])
    BY FS_Subset
  <2>2. Rank(g) \in Nat
    BY <2>1, FS_CardinalityType
  <2> QED
    BY <1>0, <2>1, <2>2
<1>2. ASSUME NEW g \in S, NEW h \in S, g \in before[h]
      PROVE  Rank(g) < Rank(h)
  <2>1. before[g] \subseteq before[h]
    BY <1>2
  <2>2. Rank(g) <= Rank(h) /\ (Rank(h) = Rank(g) => before[h] = before[g])
    BY <1>1, <2>1, FS_Subset
  <2> QED
    BY <1>1, <1>2, <2>2
<1>3. ASSUME NEW g \in S, NEW h \in S, Rank(g) = Rank(h)
      PROVE  g = h
  <2> SUFFICES ASSUME g # h
               PROVE  FALSE
    OBVIOUS
  <2>1. Rank(g) < Rank(h) \/ Rank(h) < Rank(g)
    BY <1>2
  <2> QED
    BY <1>1, <1>3, <2>1
<1> DEFINE place == [g \in S |-> Rank(g) + 1]
<1>4. place \in Injection(S, 1 .. n)
  <2>1. place \in [S -> 1 .. n]
    BY <1>0, <1>1
  <2>2. \A g, h \in S : place[g] = place[h] => g = h
    BY <1>1, <1>3
  <2> HIDE DEF place
  <2>3. DOMAIN place = S
    BY <2>1
  <2> QED
    BY <2>1, <2>2, <2>3 DEF Injection, IsInjective
<1>5. IsFiniteSet(1 .. n) /\ Cardinality(1 .. n) = n
  BY <1>0, FS_Interval
<1>6. place \in Surjection(S, 1 .. n)
  BY <1>4, <1>5, FS_Injection
<1>7. ASSUME NEW k \in 1 .. n
      PROVE  \E g \in S : Rank(g) = k - 1
  <2>1. PICK g \in S : place[g] = k
    BY <1>6 DEF Surjection
  <2> QED
    BY <1>1, <2>1
<1> QED
  BY <1>1, <1>2, <1>3, <1>7

-----------------------------------------------------------------------------
(* Sorted, by the order of its elements.                                   *)

Increasing(s) == \A i, j \in DOMAIN s : i < j => s[i] < s[j]

Smaller(S, g) == {h \in S : h < g}

\* The ranks of a finite set of numbers.
LEMMA NumberRanks ==
    ASSUME NEW S \in SUBSET Nat, IsFiniteSet(S)
    PROVE  /\ \A g, h \in S :
                 g < h => Cardinality(Smaller(S, g)) < Cardinality(Smaller(S, h))
           /\ \A g, h \in S :
                 Cardinality(Smaller(S, g)) = Cardinality(Smaller(S, h)) => g = h
           /\ \A k \in 1 .. Cardinality(S) :
                 \E g \in S : Cardinality(Smaller(S, g)) = k - 1
           /\ \A g \in S : Cardinality(Smaller(S, g)) \in 0 .. Cardinality(S) - 1
<1> DEFINE before == [g \in S |-> Smaller(S, g)]
<1>1. before \in [S -> SUBSET S]
  BY DEF Smaller
<1>2. \A g \in S : before[g] = Smaller(S, g)
  OBVIOUS
<1>3. \A g \in S : g \notin before[g]
  BY DEF Smaller
<1>n. \A g \in S : g \in Int
  OBVIOUS
<1>4. ASSUME NEW g \in S, NEW h \in S, g < h
      PROVE  g \in before[h] /\ before[g] \subseteq before[h]
  <2>1. g \in Smaller(S, h)
    BY <1>4 DEF Smaller
  <2>2. \A x \in S : x < g => x < h
    BY <1>n, <1>4
  <2>3. Smaller(S, g) \subseteq Smaller(S, h)
    BY <2>2 DEF Smaller
  <2> QED
    BY <2>1, <2>3
<1>5. \A g, h \in S : g # h => g < h \/ h < g
  BY <1>n
<1> HIDE DEF before
<1>6. \A g, h \in S : g # h => \/ g \in before[h] /\ before[g] \subseteq before[h]
                               \/ h \in before[g] /\ before[h] \subseteq before[g]
  BY <1>4, <1>5
<1>7. /\ \A g \in S : Cardinality(before[g]) \in 0 .. Cardinality(S) - 1
      /\ \A g, h \in S :
            g \in before[h] => Cardinality(before[g]) < Cardinality(before[h])
      /\ \A g, h \in S : Cardinality(before[g]) = Cardinality(before[h]) => g = h
      /\ \A k \in 1 .. Cardinality(S) : \E g \in S : Cardinality(before[g]) = k - 1
  BY <1>1, <1>3, <1>6, Ranks
<1> QED
  BY <1>2, <1>4, <1>7

\* Sorted lists the numbers of a finite set, each once, in increasing order.
LEMMA SortedList ==
    ASSUME NEW S \in SUBSET Nat, IsFiniteSet(S)
    PROVE  /\ Sorted(S) \in Seq(S) /\ Len(Sorted(S)) = Cardinality(S)
           /\ \A k \in 1 .. Cardinality(S) :
                 /\ Sorted(S)[k] \in S
                 /\ Cardinality(Smaller(S, Sorted(S)[k])) = k - 1
           /\ Increasing(Sorted(S))
           /\ ToSet(Sorted(S)) = S
<1> DEFINE n == Cardinality(S)
           s == Sorted(S)
<1>0. n \in Nat
  BY FS_CardinalityType
<1>1. ASSUME NEW k \in 1 .. n
      PROVE  s[k] \in S /\ Cardinality(Smaller(S, s[k])) = k - 1
  <2>1. \E g \in S : Cardinality(Smaller(S, g)) = k - 1
    BY NumberRanks
  <2>2. s[k] = CHOOSE g \in S : Cardinality(Smaller(S, g)) = k - 1
    BY DEF Sorted, Smaller
  <2> QED
    BY <2>1, <2>2
<1>2. s \in [1 .. n -> S] /\ DOMAIN s = 1 .. n
  BY <1>1 DEF Sorted
<1>3. s \in Seq(S) /\ Len(s) = n
  BY <1>0, <1>2
<1>4. Increasing(s)
  <2> SUFFICES ASSUME NEW i \in 1 .. n, NEW j \in 1 .. n, i < j
               PROVE  s[i] < s[j]
    BY <1>2 DEF Increasing
  <2>1. Cardinality(Smaller(S, s[i])) = i - 1 /\ Cardinality(Smaller(S, s[j])) = j - 1
    BY <1>1
  <2>2. s[i] \in S /\ s[j] \in S
    BY <1>1
  <2> DEFINE Rank(g) == Cardinality(Smaller(S, g))
  <2>3. s[j] < s[i] => Rank(s[j]) < Rank(s[i])
    BY <2>2, NumberRanks
  <2>4. Rank(s[i]) = i - 1 /\ Rank(s[j]) = j - 1
    BY <2>1
  <2> HIDE DEF Rank
  <2>5. i \in Int /\ j \in Int
    OBVIOUS
  <2>6. s[i] # s[j] /\ ~(s[j] < s[i])
    BY <2>3, <2>4, <2>5
  <2>n. \A g \in S : g \in Int
    OBVIOUS
  <2>7. s[i] \in Int /\ s[j] \in Int
    BY <2>2, <2>n
  <2> HIDE DEF s
  <2> QED
    BY <2>6, <2>7
<1>5. \A g \in S : \E k \in 1 .. n : s[k] = g
  <2> SUFFICES ASSUME NEW g \in S
               PROVE  \E k \in 1 .. n : s[k] = g
    OBVIOUS
  <2> DEFINE k == Cardinality(Smaller(S, g)) + 1
  <2>1. k \in 1 .. n
    BY <1>0, NumberRanks
  <2>2. Cardinality(Smaller(S, s[k])) = k - 1 /\ s[k] \in S
    BY <1>1, <2>1
  <2>3. Cardinality(Smaller(S, g)) = k - 1
    <3>1. Cardinality(Smaller(S, g)) \in Nat
      BY <1>0, NumberRanks
    <3> QED
      BY <3>1
  <2> HIDE DEF k
  <2>4. \A h \in S : Cardinality(Smaller(S, h)) = Cardinality(Smaller(S, g)) => h = g
    BY NumberRanks
  <2>5. s[k] = g
    BY <2>2, <2>3, <2>4
  <2> QED
    BY <2>1, <2>5
<1>6. ToSet(s) = S
  BY <1>1, <1>2, <1>5 DEF ToSet
<1> QED
  BY <1>1, <1>3, <1>4, <1>6

\* It is the only increasing list of them.
LEMMA SortedOnly ==
    ASSUME NEW S \in SUBSET Nat, IsFiniteSet(S),
           NEW s \in Seq(Nat), Increasing(s), ToSet(s) = S
    PROVE  s = Sorted(S)
<1> DEFINE n == Len(s)
<1>0. n \in Nat /\ DOMAIN s = 1 .. n /\ s \in [1 .. n -> Nat]
  OBVIOUS
<1>1. \A i \in 1 .. n : s[i] \in S
  BY <1>0 DEF ToSet
<1>2. \A g \in S : \E i \in 1 .. n : s[i] = g
  BY <1>0 DEF ToSet
<1>3. \A i, j \in 1 .. n : s[i] < s[j] <=> i < j
  <2> SUFFICES ASSUME NEW i \in 1 .. n, NEW j \in 1 .. n
               PROVE  s[i] < s[j] <=> i < j
    OBVIOUS
  <2>1. /\ i < j => s[i] < s[j]
        /\ j < i => s[j] < s[i]
    BY <1>0 DEF Increasing
  <2>2. s[i] \in Nat /\ s[j] \in Nat
    BY <1>0
  <2>3. i < j \/ j < i \/ i = j
    BY <1>0
  <2> QED
    BY <2>1, <2>2, <2>3
<1>4. ASSUME NEW k \in 1 .. n
      PROVE  Cardinality(Smaller(S, s[k])) = k - 1
  <2> DEFINE f == [i \in 1 .. k - 1 |-> s[i]]
             T == Smaller(S, s[k])
  <2>1. \A i \in 1 .. k - 1 : i \in 1 .. n /\ i < k
    BY <1>0
  <2>2. f \in [1 .. k - 1 -> T]
    BY <1>1, <1>3, <2>1 DEF Smaller
  <2>3. \A i, j \in 1 .. k - 1 : f[i] = f[j] => i = j
    <3> SUFFICES ASSUME NEW i \in 1 .. k - 1, NEW j \in 1 .. k - 1, s[i] = s[j]
                 PROVE  i = j
      OBVIOUS
    <3>1. ~(i < j) /\ ~(j < i)
      BY <1>0, <1>3, <2>1
    <3> QED
      BY <1>0, <3>1
  <2>4. \A g \in T : \E i \in 1 .. k - 1 : f[i] = g
    <3> SUFFICES ASSUME NEW g \in T
                 PROVE  \E i \in 1 .. k - 1 : s[i] = g
      OBVIOUS
    <3>1. PICK i \in 1 .. n : s[i] = g
      BY <1>2 DEF Smaller
    <3>2. i < k
      BY <1>3, <3>1 DEF Smaller
    <3> QED
      BY <1>0, <3>1, <3>2
  <2> HIDE DEF f, T
  <2>5. f \in Bijection(1 .. k - 1, T)
    BY <2>2, <2>3, <2>4 DEF Bijection, Injection, Surjection, IsInjective
  <2>6. IsFiniteSet(1 .. k - 1) /\ Cardinality(1 .. k - 1) = k - 1
    <3>1. k - 1 \in Int /\ (1 > k - 1 => k - 1 = 0)
      BY <1>0
    <3>2. IsFiniteSet(1 .. k - 1)
      BY <3>1, FS_Interval
    <3>3. Cardinality(1 .. k - 1) = IF 1 > k - 1 THEN 0 ELSE (k - 1) - 1 + 1
      BY <3>1, FS_Interval
    <3> QED
      BY <3>1, <3>2, <3>3
  <2>7. Cardinality(T) = k - 1
    BY <2>5, <2>6, FS_Bijection DEF ExistsBijection
  <2> QED
    BY <2>7 DEF T
<1>5. Cardinality(S) = n
  <2>1. s \in Bijection(1 .. n, S)
    <3>1. s \in [1 .. n -> S]
      BY <1>0, <1>1
    <3>2. \A i, j \in 1 .. n : s[i] = s[j] => i = j
      <4> SUFFICES ASSUME NEW i \in 1 .. n, NEW j \in 1 .. n, s[i] = s[j]
                   PROVE  i = j
        OBVIOUS
      <4>1. ~(i < j) /\ ~(j < i)
        BY <1>0, <1>3
      <4> QED
        BY <1>0, <4>1
    <3> QED
      BY <1>2, <3>1, <3>2 DEF Bijection, Injection, Surjection, IsInjective
  <2>2. IsFiniteSet(1 .. n) /\ Cardinality(1 .. n) = n
    BY <1>0, FS_Interval
  <2> QED
    BY <2>1, <2>2, FS_Bijection DEF ExistsBijection
<1>6. \A k \in 1 .. n : s[k] = Sorted(S)[k]
  <2> SUFFICES ASSUME NEW k \in 1 .. n
               PROVE  s[k] = Sorted(S)[k]
    OBVIOUS
  <2>1. /\ Sorted(S)[k] \in S
        /\ Cardinality(Smaller(S, Sorted(S)[k])) = k - 1
    BY <1>5, SortedList
  <2>2. \A g, h \in S :
           Cardinality(Smaller(S, g)) = Cardinality(Smaller(S, h)) => g = h
    BY NumberRanks
  <2> QED
    BY <1>1, <1>4, <2>1, <2>2
<1>7. Sorted(S) \in Seq(Nat) /\ Len(Sorted(S)) = n
  <2>1. Sorted(S) \in Seq(S)
    BY SortedList
  <2> QED
    BY <1>5, <2>1, SortedList, SeqMonotonic
<1> QED
  BY <1>6, <1>7, SeqEqual

-----------------------------------------------------------------------------
(* The lists of the page.                                                  *)

\* s lists the numbers of S, in increasing order.
Lists(s, S) == s \in Seq(Nat) /\ Increasing(s) /\ ToSet(s) = S

\* The elements of a list, by their places.
LEMMA Elements ==
    ASSUME NEW T, NEW s \in Seq(T)
    PROVE  /\ DOMAIN s = 1 .. Len(s) /\ Len(s) \in Nat
           /\ ToSet(s) = {s[i] : i \in 1 .. Len(s)}
           /\ ToSet(s) \subseteq T
           /\ ToSet(<<>>) = {}
  BY DEF ToSet

\* A list that only has elements of T is a list over T.
LEMMA ListOver ==
    ASSUME NEW T, NEW U, NEW s \in Seq(U), ToSet(s) \subseteq T
    PROVE  s \in Seq(T)
<1>1. \A i \in 1 .. Len(s) : s[i] \in T
  BY Elements
<1>2. s \in [1 .. Len(s) -> T] /\ Len(s) \in Nat
  BY <1>1, LenProperties
<1> QED
  BY <1>2

\* What is kept of a list are its elements but those.
LEMMA WithoutElements ==
    ASSUME NEW T, NEW s \in Seq(T), NEW ids
    PROVE  /\ Without(s, ids) \in Seq(T)
           /\ ToSet(Without(s, ids)) = ToSet(s) \ ids
           /\ Increasing(s) /\ T \subseteq Nat => Increasing(Without(s, ids))
<1> DEFINE places == {i \in DOMAIN s : s[i] \notin ids}
           kept == Sorted(places)
           w == Without(s, ids)
<1>0. DOMAIN s = 1 .. Len(s) /\ Len(s) \in Nat /\ s \in [1 .. Len(s) -> T]
  BY LenProperties
<1>1. places \in SUBSET Nat /\ IsFiniteSet(places)
  <2>1. places \in SUBSET (1 .. Len(s))
    BY <1>0
  <2>2. IsFiniteSet(1 .. Len(s))
    BY <1>0, FS_Interval
  <2>3. 1 .. Len(s) \subseteq Nat
    BY <1>0
  <2> QED
    BY <2>1, <2>2, <2>3, FS_Subset
<1>2. kept \in Seq(places) /\ Increasing(kept) /\ ToSet(kept) = places
  BY <1>1, SortedList
<1>3. DOMAIN kept = 1 .. Len(kept) /\ Len(kept) \in Nat /\ kept \in [1 .. Len(kept) -> places]
  BY <1>2, LenProperties
<1>4. w = [k \in DOMAIN kept |-> s[kept[k]]]
  BY DEF Without
<1> HIDE DEF kept, w
<1>5. \A k \in 1 .. Len(kept) : kept[k] \in DOMAIN s /\ s[kept[k]] \in T /\ s[kept[k]] \notin ids
  BY <1>0, <1>3
<1>6. w \in [1 .. Len(kept) -> T] /\ DOMAIN w = 1 .. Len(kept)
  BY <1>3, <1>4, <1>5
<1>7. w \in Seq(T)
  BY <1>3, <1>6
<1>8. ToSet(w) \subseteq ToSet(s) \ ids
  <2> SUFFICES ASSUME NEW k \in 1 .. Len(kept)
               PROVE  w[k] \in ToSet(s) \ ids
    BY <1>6 DEF ToSet
  <2>1. w[k] = s[kept[k]]
    BY <1>3, <1>4
  <2> QED
    BY <1>5, <2>1 DEF ToSet
<1>9. ToSet(s) \ ids \subseteq ToSet(w)
  <2> SUFFICES ASSUME NEW i \in DOMAIN s, s[i] \notin ids
               PROVE  s[i] \in ToSet(w)
    BY DEF ToSet
  <2>1. i \in ToSet(kept)
    BY <1>2
  <2>2. PICK k \in DOMAIN kept : kept[k] = i
    BY <2>1 DEF ToSet
  <2>3. w[k] = s[i] /\ k \in DOMAIN w
    BY <1>3, <1>4, <1>6, <2>2
  <2> QED
    BY <2>3 DEF ToSet
<1>10. ASSUME Increasing(s), T \subseteq Nat
       PROVE  Increasing(w)
  <2> SUFFICES ASSUME NEW j \in 1 .. Len(kept), NEW k \in 1 .. Len(kept), j < k
               PROVE  w[j] < w[k]
    BY <1>6 DEF Increasing
  <2>1. kept[j] < kept[k]
    BY <1>2, <1>3 DEF Increasing
  <2>2. s[kept[j]] < s[kept[k]]
    BY <1>5, <1>10, <2>1 DEF Increasing
  <2> QED
    BY <1>3, <1>4, <2>2
<1> QED
  BY <1>7, <1>8, <1>9, <1>10 DEF w

\* What is kept of a list in order is in order.
LEMMA WithoutLists ==
    ASSUME NEW s, NEW S, Lists(s, S), NEW ids
    PROVE  Lists(Without(s, ids), S \ ids)
  BY WithoutElements DEF Lists

\* The elements of two lists, one after the other.
LEMMA ConcatElements ==
    ASSUME NEW T, NEW s \in Seq(T), NEW t \in Seq(T)
    PROVE  s \o t \in Seq(T) /\ ToSet(s \o t) = ToSet(s) \cup ToSet(t)
<1> DEFINE u == s \o t
<1>1. /\ u \in Seq(T) /\ Len(u) = Len(s) + Len(t)
      /\ \A i \in 1 .. Len(s) + Len(t) : u[i] = IF i <= Len(s) THEN s[i] ELSE t[i - Len(s)]
  BY ConcatProperties
<1> HIDE DEF u
<1>2. Len(s) \in Nat /\ Len(t) \in Nat
  BY LenProperties
<1>d. DOMAIN u = 1 .. Len(u)
  BY <1>1, LenProperties
<1>3. ToSet(u) \subseteq ToSet(s) \cup ToSet(t)
  <2> SUFFICES ASSUME NEW i \in 1 .. Len(u)
               PROVE  u[i] \in ToSet(s) \cup ToSet(t)
    BY <1>1, Elements
  <2>1. CASE i <= Len(s)
    <3>1. u[i] = s[i] /\ i \in 1 .. Len(s)
      BY <1>1, <1>2, <2>1
    <3> QED
      BY <3>1, Elements
  <2>2. CASE ~(i <= Len(s))
    <3>1. u[i] = t[i - Len(s)] /\ i - Len(s) \in 1 .. Len(t)
      BY <1>1, <1>2, <2>2
    <3> QED
      BY <3>1, Elements
  <2> QED
    BY <2>1, <2>2
<1>4. ToSet(s) \subseteq ToSet(u)
  <2> SUFFICES ASSUME NEW i \in 1 .. Len(s)
               PROVE  s[i] \in ToSet(u)
    BY Elements
  <2>1. i \in 1 .. Len(u) /\ u[i] = s[i]
    BY <1>1, <1>2
  <2> QED
    BY <1>d, <2>1 DEF ToSet
<1>5. ToSet(t) \subseteq ToSet(u)
  <2> SUFFICES ASSUME NEW i \in 1 .. Len(t)
               PROVE  t[i] \in ToSet(u)
    BY Elements
  <2> DEFINE j == i + Len(s)
  <2>1. j \in 1 .. Len(u) /\ j - Len(s) = i /\ ~(j <= Len(s))
    BY <1>1, <1>2
  <2> HIDE DEF j
  <2>2. u[j] = t[i]
    BY <1>1, <2>1
  <2> QED
    BY <1>d, <2>1, <2>2 DEF ToSet
<1> QED
  BY <1>1, <1>3, <1>4, <1>5 DEF u

\* Two lists in order, the second beyond the first, make one.
LEMMA ConcatLists ==
    ASSUME NEW s, NEW S, Lists(s, S), NEW t, NEW T, Lists(t, T),
           \A g \in S, h \in T : g < h
    PROVE  Lists(s \o t, S \cup T)
<1> DEFINE u == s \o t
<1>0. s \in Seq(Nat) /\ t \in Seq(Nat)
  BY DEF Lists
<1>1. /\ u \in Seq(Nat) /\ Len(u) = Len(s) + Len(t)
      /\ \A i \in 1 .. Len(s) + Len(t) : u[i] = IF i <= Len(s) THEN s[i] ELSE t[i - Len(s)]
  BY <1>0, ConcatProperties
<1>2. Len(s) \in Nat /\ Len(t) \in Nat
  BY <1>0, LenProperties
<1>3. ToSet(u) = S \cup T
  BY <1>0, ConcatElements DEF Lists
<1> HIDE DEF u
<1>4. DOMAIN s = 1 .. Len(s) /\ DOMAIN t = 1 .. Len(t) /\ DOMAIN u = 1 .. Len(u)
  BY <1>0, <1>1, LenProperties
<1>5. Increasing(u)
  <2> SUFFICES ASSUME NEW i \in 1 .. Len(u), NEW j \in 1 .. Len(u), i < j
               PROVE  u[i] < u[j]
    BY <1>4 DEF Increasing
  <2>1. CASE j <= Len(s)
    <3>1. u[i] = s[i] /\ u[j] = s[j] /\ i \in 1 .. Len(s) /\ j \in 1 .. Len(s)
      BY <1>1, <1>2, <2>1
    <3> QED
      BY <1>4, <3>1 DEF Increasing, Lists
  <2>2. CASE i <= Len(s) /\ ~(j <= Len(s))
    <3>1. /\ u[i] = s[i] /\ i \in 1 .. Len(s)
          /\ u[j] = t[j - Len(s)] /\ j - Len(s) \in 1 .. Len(t)
      BY <1>1, <1>2, <2>2
    <3>2. s[i] \in S /\ t[j - Len(s)] \in T
      BY <1>4, <3>1 DEF Lists, ToSet
    <3> QED
      BY <3>1, <3>2
  <2>3. CASE ~(i <= Len(s))
    <3>1. /\ u[i] = t[i - Len(s)] /\ i - Len(s) \in 1 .. Len(t)
          /\ u[j] = t[j - Len(s)] /\ j - Len(s) \in 1 .. Len(t)
          /\ i - Len(s) < j - Len(s)
      BY <1>1, <1>2, <2>3
    <3> QED
      BY <1>4, <3>1 DEF Increasing, Lists
  <2> QED
    BY <2>1, <2>2, <2>3
<1> QED
  BY <1>1, <1>3, <1>5 DEF Lists, u

\* The part of S beyond one token, up to the next one, or to the end without one.
Between(S, after, upTo) == {g \in S : after < g /\ (upTo = 0 \/ g <= upTo)}

\* A page lists what there is beyond its token up to the token it gives.
LEMMA PageLists ==
    ASSUME NEW S \in SUBSET Nat, IsFiniteSet(S), NEW after \in Nat, NEW limit \in Nat \ {0}
    PROVE  LET p == Page(S, after, limit)
           IN  /\ p \in Seq(S)
               /\ Token(p) = 0 \/ (Token(p) \in S /\ after < Token(p))
               /\ Lists(p, Between(S, after, Token(p)))
<1> DEFINE p == Page(S, after, limit)
           R == {g \in S : g > after}
           rest == Sorted(R)
           n == IF limit < Len(rest) THEN limit ELSE Len(rest)
<1>1. R \in SUBSET Nat /\ R \in SUBSET S /\ IsFiniteSet(R)
  BY FS_Subset
<1>2. rest \in Seq(R) /\ Increasing(rest) /\ ToSet(rest) = R
  BY <1>1, SortedList
<1>3. p = SubSeq(rest, 1, n)
  BY DEF Page
<1> HIDE DEF rest, p
<1>4. Len(rest) \in Nat /\ DOMAIN rest = 1 .. Len(rest)
  BY <1>2, LenProperties
<1>5. n \in 0 .. Len(rest) /\ (n = 0 <=> Len(rest) = 0) /\ n \in Int
  BY <1>4
<1> HIDE DEF n
<1>6. \A i \in 1 .. Len(rest) : rest[i] \in R
  BY <1>2, Elements
<1>7. p \in Seq(R) /\ Len(p) = n /\ \A i \in 1 .. n : p[i] = rest[i]
  <2>1. \A i \in 1 .. n : rest[i] \in R
    BY <1>4, <1>5, <1>6
  <2>2. /\ SubSeq(rest, 1, n) \in Seq(R)
        /\ Len(SubSeq(rest, 1, n)) = IF 1 <= n THEN n - 1 + 1 ELSE 0
        /\ \A i \in 1 .. n - 1 + 1 : SubSeq(rest, 1, n)[i] = rest[1 + i - 1]
    BY <1>5, <2>1, SubSeqProperties
  <2>3. n - 1 + 1 = n /\ (~(1 <= n) => n = 0) /\ \A i \in 1 .. n : 1 + i - 1 = i
    BY <1>4, <1>5
  <2> QED
    BY <1>3, <2>2, <2>3
<1>8. DOMAIN p = 1 .. n
  BY <1>7, LenProperties
<1>9. Increasing(p)
  <2> SUFFICES ASSUME NEW i \in 1 .. n, NEW j \in 1 .. n, i < j
               PROVE  p[i] < p[j]
    BY <1>8 DEF Increasing
  <2>1. i \in DOMAIN rest /\ j \in DOMAIN rest
    BY <1>4, <1>5
  <2> QED
    BY <1>2, <1>7, <2>1 DEF Increasing
<1>10. p \in Seq(S) /\ p \in Seq(Nat)
  BY <1>1, <1>7, SeqMonotonic
<1>11. CASE n = 0
  <2>1. R = {}
    <3>1. Len(rest) = 0
      BY <1>5, <1>11
    <3>2. DOMAIN rest = {}
      BY <1>4, <3>1
    <3> QED
      BY <1>2, <3>2 DEF ToSet
  <2>2. p = <<>>
    BY <1>7, <1>11, EmptySeq
  <2>3. Token(p) = 0 /\ ToSet(p) = {}
    BY <2>2 DEF Token, ToSet
  <2>4. Between(S, after, 0) = {}
    BY <2>1 DEF Between
  <2> QED
    BY <1>9, <1>10, <2>3, <2>4 DEF p, Lists
<1>12. CASE n # 0
  <2>0. n \in 1 .. n
    BY <1>4, <1>5, <1>12
  <2>1. p # <<>>
    BY <1>7, <1>12
  <2>2. Token(p) = rest[n]
    BY <1>7, <2>0, <2>1 DEF Token
  <2>3. rest[n] \in R
    BY <1>4, <1>5, <1>6, <2>0
  <2>4. Token(p) \in S /\ after < Token(p) /\ Token(p) # 0
    BY <2>2, <2>3
  <2>5. ToSet(p) = {p[i] : i \in 1 .. n}
    BY <1>7, Elements
  <2>6. \A g \in R : g \in ToSet(p) <=> g <= rest[n]
    <3> SUFFICES ASSUME NEW g \in R
                 PROVE  g \in ToSet(p) <=> g <= rest[n]
      OBVIOUS
    <3>1. PICK i \in 1 .. Len(rest) : rest[i] = g
      BY <1>2, Elements
    <3>2. g \in Nat /\ rest[n] \in Nat
      BY <1>1, <2>3
    <3>3. CASE i <= n
      <4>1. i \in 1 .. n
        BY <1>5, <3>3
      <4>2. p[i] = g
        BY <1>7, <3>1, <4>1
      <4>3. i < n => rest[i] < rest[n]
        BY <1>2, <1>4, <1>5, <2>0 DEF Increasing
      <4>4. g <= rest[n]
        BY <3>1, <3>2, <3>3, <4>3, <1>5
      <4> QED
        BY <2>5, <4>1, <4>2, <4>4
    <3>4. CASE ~(i <= n)
      <4>1. n < i /\ n \in DOMAIN rest
        BY <1>4, <1>5, <2>0, <3>4
      <4>2. rest[n] < g
        BY <1>2, <1>4, <3>1, <4>1 DEF Increasing
      <4>3. \A j \in 1 .. n : p[j] <= rest[n]
        <5> SUFFICES ASSUME NEW j \in 1 .. n
                     PROVE  p[j] <= rest[n]
          OBVIOUS
        <5>1. p[j] = rest[j] /\ j \in DOMAIN rest
          BY <1>4, <1>5, <1>7
        <5>2. j < n => rest[j] < rest[n]
          BY <1>2, <4>1, <5>1 DEF Increasing
        <5>3. rest[j] \in Nat
          BY <1>1, <1>4, <1>6, <5>1
        <5> QED
          BY <1>5, <3>2, <5>1, <5>2, <5>3
      <4>4. ~(g <= rest[n])
        BY <3>2, <4>2
      <4> QED
        BY <2>5, <4>3, <4>4
    <3> QED
      BY <3>3, <3>4
  <2>7. ToSet(p) \subseteq R
    BY <1>7, Elements
  <2>8. ToSet(p) = Between(S, after, Token(p))
    BY <2>2, <2>4, <2>6, <2>7 DEF Between
  <2> QED
    BY <1>9, <1>10, <2>4, <2>8 DEF p, Lists
<1> QED
  BY <1>11, <1>12

-----------------------------------------------------------------------------
(* The galleries page: types.                                              *)

Entries == {Free} \cup Loads \cup Mores \cup Requests

\* The galleries are finitely many numbers, and no page is Unread.
LEMMA GalleryFacts ==
    /\ Galleries \subseteq Nat /\ IsFiniteSet(Galleries) /\ 0 \notin Galleries
    /\ Galleries \subseteq 0 .. MaxGalleries
    /\ Unread \notin Pages /\ <<>> \in Pages
<1>1. IsFiniteSet(Galleries)
  BY MaxGalleriesAssumption, FS_Interval DEF Galleries
<1> QED
  BY <1>1, MaxGalleriesAssumption, UnreadAssumption DEF Galleries, Pages

\* A call is of the kind it says.
LEMMA EntryKinds ==
    ASSUME NEW e \in Entries
    PROVE  /\ e.kind = "load" => e \in Loads
           /\ e.kind \in {"moreMy", "moreAvailable"} => e \in Mores
           /\ e.kind \in Commands => e \in Requests
           /\ e = Free => e.kind = "none"
  BY DEF Entries, Loads, Mores, Requests, Commands, Free

\* The token of a page is 0 or a gallery.
LEMMA TokenType ==
    ASSUME NEW p \in Pages
    PROVE  Token(p) \in 0 .. MaxGalleries
<1>1. CASE p = <<>>
  BY <1>1, MaxGalleriesAssumption DEF Token
<1>2. CASE p # <<>>
  <2>1. Len(p) \in 1 .. Len(p)
    BY <1>2, EmptySeq DEF Pages
  <2>2. p[Len(p)] \in Galleries
    BY <2>1, ElementOfSeq DEF Pages
  <2> QED
    BY <1>2, <2>2, GalleryFacts DEF Token
<1> QED
  BY <1>1, <1>2

\* The tables of the server hold galleries.
Tables == joined \subseteq galleries /\ galleries \subseteq used /\ used \subseteq Galleries

\* What the listings answer.
LEMMA PageFacts ==
    ASSUME Tables, NEW after \in Nat
    PROVE  /\ MyPage(after) \in Pages /\ AvailablePage(after) \in Pages
           /\ Lists(MyPage(after), Between(joined, after, Token(MyPage(after))))
           /\ Token(MyPage(after)) = 0 \/ after < Token(MyPage(after))
           /\ Lists(AvailablePage(after),
                    Between(galleries, after, Token(AvailablePage(after))))
           /\ Token(AvailablePage(after)) = 0 \/ after < Token(AvailablePage(after))
<1>1. /\ joined \in SUBSET Galleries /\ galleries \in SUBSET Galleries
      /\ joined \in SUBSET Nat /\ galleries \in SUBSET Nat
  BY GalleryFacts DEF Tables
<1>2. IsFiniteSet(joined) /\ IsFiniteSet(galleries)
  BY <1>1, GalleryFacts, FS_Subset
<1>3. MyPageSize \in Nat \ {0} /\ AvailablePageSize \in Nat \ {0}
  BY PageSizesAssumption
<1>4. MyPage(after) \in Seq(joined) /\ AvailablePage(after) \in Seq(galleries)
  BY <1>1, <1>2, <1>3, PageLists DEF MyPage, AvailablePage
<1>5. MyPage(after) \in Pages /\ AvailablePage(after) \in Pages
  BY <1>1, <1>4, SeqMonotonic DEF Pages
<1> QED
  BY <1>1, <1>2, <1>3, <1>5, PageLists DEF MyPage, AvailablePage

\* The store has its type after every change of a list.
LEMMA ListTypes ==
    ASSUME NEW s \in Pages, NEW t \in Pages, NEW ids
    PROVE  s \o t \in Pages /\ Without(s, ids) \in Pages
  BY ConcatElements, WithoutElements DEF Pages

\* The first state has its types.
LEMMA InitTypes == Init => TypeOK
<1> SUFFICES ASSUME Init
             PROVE  TypeOK
  OBVIOUS
<1>1. store \in States
  BY GalleryFacts, MaxGalleriesAssumption DEF Init, States
<1>2. call \in [Calls -> {Free} \cup Loads \cup Mores \cup Requests]
  BY DEF Init
<1> QED
  BY <1>1, <1>2 DEF Init, TypeOK

\* A step of a call changes its own entry only.
OneCall(c, e) == call' = [call EXCEPT ![c] = e]

\* An entry may become any other one.
LEMMA CallTypes ==
    ASSUME TypeOK, NEW c \in Calls, NEW e \in Entries, OneCall(c, e)
    PROVE  /\ call' \in [Calls -> {Free} \cup Loads \cup Mores \cup Requests]
           /\ call'[c] = e /\ \A d \in Calls \ {c} : call'[d] = call[d]
  BY DEF TypeOK, OneCall, Entries

\* The answers the server puts into the entries.
LEMMA AnswerTypes ==
    ASSUME TypeOK, NEW c \in Calls
    PROVE  /\ Serve(c) => \E e \in Requests :
                             OneCall(c, e) /\ e.kind = call[c].kind
                               /\ e.gallery = call[c].gallery
           /\ ReadMine(c) => \E e \in Loads :
                             OneCall(c, e) /\ e.mine = MyPage(0) /\ e.all = call[c].all
           /\ ReadAll(c) => \E e \in Loads :
                             OneCall(c, e) /\ e.all = AvailablePage(0) /\ e.mine = call[c].mine
           /\ ReadMore(c) => \E e \in Mores :
                             /\ OneCall(c, e) /\ e.kind = call[c].kind
                             /\ e.token = call[c].token
                             /\ e.page = IF e.kind = "moreMy" THEN MyPage(e.token)
                                                              ELSE AvailablePage(e.token)
<1>1. call[c] \in Entries /\ Tables
  BY DEF TypeOK, Entries, Tables
<1>2. ASSUME Serve(c)
      PROVE  \E e \in Requests : /\ OneCall(c, e) /\ e.kind = call[c].kind
                                 /\ e.gallery = call[c].gallery
  <2> DEFINE e == [call[c] EXCEPT !.done = TRUE]
  <2>1. call[c] \in Requests
    BY <1>1, <1>2, EntryKinds DEF Serve
  <2>2. e \in Requests /\ e.kind = call[c].kind /\ e.gallery = call[c].gallery
    BY <2>1 DEF Requests
  <2>3. OneCall(c, e)
    BY <1>2 DEF Serve, OneCall
  <2> QED
    BY <2>2, <2>3
<1>3. ASSUME ReadMine(c)
      PROVE  \E e \in Loads : /\ OneCall(c, e) /\ e.mine = MyPage(0)
                              /\ e.all = call[c].all
  <2> DEFINE e == [call[c] EXCEPT !.mine = MyPage(0)]
  <2>1. call[c] \in Loads
    BY <1>1, <1>3, EntryKinds DEF ReadMine
  <2>2. MyPage(0) \in Pages
    BY <1>1, PageFacts
  <2>3. e \in Loads /\ e.mine = MyPage(0) /\ e.all = call[c].all
    BY <2>1, <2>2 DEF Loads
  <2>4. OneCall(c, e)
    BY <1>3 DEF ReadMine, OneCall
  <2> QED
    BY <2>3, <2>4
<1>4. ASSUME ReadAll(c)
      PROVE  \E e \in Loads : /\ OneCall(c, e) /\ e.all = AvailablePage(0)
                              /\ e.mine = call[c].mine
  <2> DEFINE e == [call[c] EXCEPT !.all = AvailablePage(0)]
  <2>1. call[c] \in Loads
    BY <1>1, <1>4, EntryKinds DEF ReadAll
  <2>2. AvailablePage(0) \in Pages
    BY <1>1, PageFacts
  <2>3. e \in Loads /\ e.all = AvailablePage(0) /\ e.mine = call[c].mine
    BY <2>1, <2>2 DEF Loads
  <2>4. OneCall(c, e)
    BY <1>4 DEF ReadAll, OneCall
  <2> QED
    BY <2>3, <2>4
<1>5. ASSUME ReadMore(c)
      PROVE  \E e \in Mores : /\ OneCall(c, e) /\ e.kind = call[c].kind
                              /\ e.token = call[c].token
                              /\ e.page = IF e.kind = "moreMy" THEN MyPage(e.token)
                                                               ELSE AvailablePage(e.token)
  <2> DEFINE page == IF call[c].kind = "moreMy" THEN MyPage(call[c].token)
                                                ELSE AvailablePage(call[c].token)
             e == [call[c] EXCEPT !.page = page]
  <2>1. call[c] \in Mores
    BY <1>1, <1>5, EntryKinds DEF ReadMore, More, Running
  <2>2. page \in Pages
    <3>1. call[c].token \in Nat
      BY <2>1, GalleryFacts DEF Mores
    <3> QED
      BY <1>1, <3>1, PageFacts
  <2>3. OneCall(c, e)
    BY <1>5 DEF ReadMore, OneCall
  <2> HIDE DEF page
  <2>4. /\ e \in Mores /\ e.kind = call[c].kind /\ e.token = call[c].token
        /\ e.page = page
    BY <2>1, <2>2 DEF Mores
  <2> QED
    BY <2>3, <2>4 DEF page
<1> QED
  BY <1>2, <1>3, <1>4, <1>5

\* A step of the page leaves the entry it says, and the store it says.
LEMMA PageTypes ==
    ASSUME TypeOK, NEW c \in Calls
    PROVE  /\ Mount(c) \/ Succeeds(c) =>
                 /\ store' \in States
                 /\ \E e \in Loads : OneCall(c, e) /\ e.mine = Unread /\ e.all = Unread
           /\ Loaded(c) \/ LoadFails(c) \/ MoreMy(c) \/ MoreAvailable(c)
                 \/ MoreFails(c) \/ Fails(c) =>
                 store' \in States /\ OneCall(c, Free)
           /\ LoadMoreMy(c) =>
                 /\ store' \in States
                 /\ \E e \in Mores : /\ OneCall(c, e) /\ e.kind = "moreMy"
                                     /\ e.token = store.myNext /\ e.page = Unread
           /\ LoadMoreAvailable(c) =>
                 /\ store' \in States
                 /\ \E e \in Mores : /\ OneCall(c, e) /\ e.kind = "moreAvailable"
                                     /\ e.token = store.availableNext /\ e.page = Unread
           /\ \A kind \in Commands : Command(c, kind) =>
                 /\ store' \in States
                 /\ \E e \in Requests : OneCall(c, e) /\ e.kind = kind
<1>1. call[c] \in Entries /\ store \in States
  BY DEF TypeOK, Entries
<1>2. ASSUME Mount(c) \/ Succeeds(c)
      PROVE  /\ store' \in States
             /\ \E e \in Loads : OneCall(c, e) /\ e.mine = Unread /\ e.all = Unread
  <2> DEFINE e == [kind |-> "load", mine |-> Unread, all |-> Unread]
  <2>1. LoadStarts(c)
    BY <1>2 DEF Mount, Succeeds
  <2>2. store' \in States
    BY <1>1, <2>1 DEF LoadStarts, States
  <2>3. e \in Loads /\ OneCall(c, e)
    BY <2>1 DEF LoadStarts, Loads, OneCall
  <2> QED
    BY <2>2, <2>3
<1>3. ASSUME LoadMoreMy(c)
      PROVE  /\ store' \in States
             /\ \E e \in Mores : /\ OneCall(c, e) /\ e.kind = "moreMy"
                                 /\ e.token = store.myNext /\ e.page = Unread
  <2> DEFINE e == [kind |-> "moreMy", token |-> store.myNext, page |-> Unread]
  <2>1. store' \in States
    BY <1>1, <1>3 DEF LoadMoreMy, States
  <2>2. store.myNext \in Galleries
    BY <1>1, <1>3, MaxGalleriesAssumption DEF LoadMoreMy, States, Galleries
  <2>3. e \in Mores /\ OneCall(c, e)
    BY <1>3, <2>2 DEF LoadMoreMy, Mores, OneCall
  <2> QED
    BY <2>1, <2>3
<1>4. ASSUME LoadMoreAvailable(c)
      PROVE  /\ store' \in States
             /\ \E e \in Mores : /\ OneCall(c, e) /\ e.kind = "moreAvailable"
                                 /\ e.token = store.availableNext /\ e.page = Unread
  <2> DEFINE e == [kind |-> "moreAvailable", token |-> store.availableNext, page |-> Unread]
  <2>1. store' \in States
    BY <1>1, <1>4 DEF LoadMoreAvailable, States
  <2>2. store.availableNext \in Galleries
    BY <1>1, <1>4, MaxGalleriesAssumption DEF LoadMoreAvailable, States, Galleries
  <2>3. e \in Mores /\ OneCall(c, e)
    BY <1>4, <2>2 DEF LoadMoreAvailable, Mores, OneCall
  <2> QED
    BY <2>1, <2>3
<1>5. ASSUME NEW kind \in Commands, Command(c, kind)
      PROVE  /\ store' \in States
             /\ \E e \in Requests : OneCall(c, e) /\ e.kind = kind
  <2>1. store' \in States
    BY <1>1, <1>5 DEF Command, States
  <2>2. ToSet(store.my) \subseteq Galleries /\ ToSet(store.available) \subseteq Galleries
    BY <1>1, Elements DEF States, Pages
  <2>3. Offered(kind) \subseteq Galleries
    BY <2>2, OwnedAssumption DEF Offered, Commands
  <2>4. PICK g \in Offered(kind) :
             call' = [call EXCEPT ![c] = [kind |-> kind, gallery |-> g, done |-> FALSE]]
    BY <1>5 DEF Command
  <2> DEFINE e == [kind |-> kind, gallery |-> g, done |-> FALSE]
  <2>5. e \in Requests /\ OneCall(c, e)
    BY <2>3, <2>4 DEF Requests, OneCall
  <2> QED
    BY <2>1, <2>5
<1>6. ASSUME Loaded(c)
      PROVE  store' \in States
  <2>1. call[c].mine \in Pages /\ call[c].all \in Pages
    BY <1>1, <1>6, EntryKinds DEF Loaded, Loads
  <2>2. Without(call[c].all, ToSet(call[c].mine)) \in Pages
    BY <2>1, ListTypes
  <2>3. /\ Token(call[c].mine) \in 0 .. MaxGalleries
        /\ Token(call[c].all) \in 0 .. MaxGalleries
    BY <2>1, TokenType
  <2> QED
    BY <1>6, <2>1, <2>2, <2>3 DEF Loaded, States
<1>7. ASSUME MoreMy(c)
      PROVE  store' \in States
  <2>1. call[c].page \in Pages
    BY <1>1, <1>7, EntryKinds DEF MoreMy, Mores
  <2>2. store.my \in Pages /\ store.available \in Pages
    BY <1>1 DEF States
  <2>3. /\ store.my \o call[c].page \in Pages
        /\ Without(store.available, ToSet(call[c].page)) \in Pages
        /\ Token(call[c].page) \in 0 .. MaxGalleries
    BY <2>1, <2>2, ListTypes, TokenType
  <2> QED
    BY <1>1, <1>7, <2>3 DEF MoreMy, States
<1>8. ASSUME MoreAvailable(c)
      PROVE  store' \in States
  <2>1. call[c].page \in Pages
    BY <1>1, <1>8, EntryKinds DEF MoreAvailable, Mores
  <2>2. store.my \in Pages /\ store.available \in Pages
    BY <1>1 DEF States
  <2>3. /\ Without(call[c].page, ToSet(store.my)) \in Pages
        /\ Token(call[c].page) \in 0 .. MaxGalleries
    BY <2>1, <2>2, ListTypes, TokenType
  <2>4. store.available \o Without(call[c].page, ToSet(store.my)) \in Pages
    BY <2>2, <2>3, ListTypes
  <2> QED
    BY <1>1, <1>8, <2>3, <2>4 DEF MoreAvailable, States
<1>9. ASSUME LoadFails(c) \/ MoreFails(c) \/ Fails(c)
      PROVE  store' \in States
  BY <1>1, <1>9 DEF LoadFails, MoreFails, Fails, States
<1>10. Loaded(c) \/ LoadFails(c) \/ MoreMy(c) \/ MoreAvailable(c)
          \/ MoreFails(c) \/ Fails(c) => OneCall(c, Free)
  BY DEF Loaded, LoadFails, MoreMy, MoreAvailable, MoreFails, Fails, Ends, OneCall
<1> QED
  BY <1>2, <1>3, <1>4, <1>5, <1>6, <1>7, <1>8, <1>9, <1>10

\* Tables that change stay tables.
LEMMA TableTypes ==
    ASSUME TypeOK
    PROVE  /\ \A g \in Changing : Elsewhere(g) => Tables'
           /\ \A c \in Calls : Serve(c) => Tables'
<1> USE DEF Tables, Create, Delete
<1>1. ASSUME NEW g \in Changing, Elsewhere(g)
      PROVE  Tables'
  BY <1>1, OwnedAssumption DEF TypeOK, Elsewhere
<1>2. ASSUME NEW c \in Calls, Serve(c)
      PROVE  Tables'
  <2> DEFINE g == call[c].gallery
  <2>1. g \in Galleries
    BY <1>2, EntryKinds DEF TypeOK, Serve, Requests, Entries
  <2>2. \/ Create(g) \/ Delete(g) \/ UNCHANGED server
        \/ g \in galleries /\ joined' = joined \cup {g} /\ UNCHANGED <<galleries, used>>
        \/ joined' = joined \ {g} /\ UNCHANGED <<galleries, used>>
    BY <1>2 DEF Serve, Commands
  <2> QED
    BY <2>1, <2>2 DEF TypeOK, server
<1> QED
  BY <1>1, <1>2

\* The steps of a call that leave the tables alone.
Quiet(c) ==
    \/ ReadMine(c) \/ ReadAll(c) \/ ReadMore(c) \/ Mount(c) \/ Succeeds(c)
    \/ Loaded(c) \/ LoadFails(c) \/ MoreMy(c) \/ MoreAvailable(c) \/ MoreFails(c)
    \/ Fails(c) \/ LoadMoreMy(c) \/ LoadMoreAvailable(c)
    \/ \E kind \in Commands : Command(c, kind)

\* A step is one of another user, of the server for a command, or a quiet one.
LEMMA StepCases ==
    ASSUME [Next]_vars
    PROVE  \/ \E g \in Changing : Elsewhere(g)
           \/ \E c \in Calls : Serve(c) \/ (Quiet(c) /\ UNCHANGED server)
           \/ UNCHANGED vars
  BY DEF Next, Quiet, ReadMine, ReadAll, ReadMore, Mount, Succeeds, Loaded, LoadFails,
         MoreMy, MoreAvailable, MoreFails, Fails, LoadMoreMy, LoadMoreAvailable, Command

\* A quiet step changes the entry of its call only.
LEMMA QuietTypes ==
    ASSUME TypeOK, NEW c \in Calls, Quiet(c)
    PROVE  store' \in States /\ \E e \in Entries : OneCall(c, e)
<1>1. CASE ReadMine(c) \/ ReadAll(c) \/ ReadMore(c)
  <2>1. store' \in States
    BY <1>1 DEF TypeOK, ReadMine, ReadAll, ReadMore
  <2> QED
    BY <1>1, <2>1, AnswerTypes DEF Entries
<1>2. CASE ~(ReadMine(c) \/ ReadAll(c) \/ ReadMore(c))
  BY <1>2, PageTypes DEF Quiet, Entries
<1> QED
  BY <1>1, <1>2

\* Histories keep their types.
LEMMA HistoryTypes ==
    ASSUME TypeOK, [Next]_vars
    PROVE  stale' \subseteq Calls /\ fresh' \in BOOLEAN
<1>1. CASE \E g \in Changing : Elsewhere(g)
  BY <1>1 DEF TypeOK, Elsewhere, Changed, Running
<1>2. ASSUME NEW c \in Calls, Serve(c)
      PROVE  stale' \subseteq Calls /\ fresh' \in BOOLEAN
  BY <1>2 DEF TypeOK, Serve, Changed, Running
<1>3. ASSUME NEW c \in Calls, Quiet(c)
      PROVE  stale' \subseteq Calls /\ fresh' \in BOOLEAN
  BY <1>3 DEF TypeOK, Quiet, ReadMine, ReadAll, ReadMore, Mount, Succeeds, Loaded,
              LoadFails, MoreMy, MoreAvailable, MoreFails, Fails, LoadMoreMy,
              LoadMoreAvailable, Command, Ends
<1>4. CASE UNCHANGED vars
  BY <1>4 DEF TypeOK, vars
<1> QED
  BY <1>1, <1>2, <1>3, <1>4, StepCases

\* Every step preserves the types.
LEMMA NextTypes == TypeOK /\ [Next]_vars => TypeOK'
<1> SUFFICES ASSUME TypeOK, [Next]_vars
             PROVE  TypeOK'
  OBVIOUS
<1>1. CASE \E g \in Changing : Elsewhere(g)
  <2>1. Tables'
    BY <1>1, TableTypes
  <2>2. UNCHANGED <<store, call>>
    BY <1>1 DEF Elsewhere
  <2> QED
    BY <2>1, <2>2, HistoryTypes DEF TypeOK, Tables
<1>2. ASSUME NEW c \in Calls, Serve(c)
      PROVE  TypeOK'
  <2>1. Tables'
    BY <1>2, TableTypes
  <2>2. UNCHANGED store
    BY <1>2 DEF Serve
  <2>3. \E e \in Entries : OneCall(c, e)
    BY <1>2, AnswerTypes DEF Entries
  <2>4. call' \in [Calls -> {Free} \cup Loads \cup Mores \cup Requests]
    BY <2>3, CallTypes
  <2> QED
    BY <2>1, <2>2, <2>4, HistoryTypes DEF TypeOK, Tables
<1>3. ASSUME NEW c \in Calls, Quiet(c), UNCHANGED server
      PROVE  TypeOK'
  <2>1. store' \in States /\ \E e \in Entries : OneCall(c, e)
    BY <1>3, QuietTypes
  <2>2. call' \in [Calls -> {Free} \cup Loads \cup Mores \cup Requests]
    BY <2>1, CallTypes
  <2> QED
    BY <1>3, <2>1, <2>2, HistoryTypes DEF TypeOK, server
<1>4. CASE UNCHANGED vars
  BY <1>4 DEF TypeOK, vars
<1> QED
  BY <1>1, <1>2, <1>3, <1>4, StepCases

\* The state of the page and of the server keeps its types.
THEOREM TypesCorrect == Spec => []TypeOK
<1> QED
  BY InitTypes, NextTypes, PTL DEF Spec

-----------------------------------------------------------------------------
(* The galleries page: cards and spinners.                                 *)

\* Every step keeps the two lists apart.
LEMMA NextDisjoint == TypeOK /\ CardsDisjoint /\ [Next]_vars => CardsDisjoint'
<1> SUFFICES ASSUME TypeOK, CardsDisjoint, [Next]_vars
             PROVE  CardsDisjoint'
  OBVIOUS
<1> USE DEF CardsDisjoint
<1>0. store \in States /\ store.my \in Pages /\ store.available \in Pages
  BY DEF TypeOK, States
<1>1. CASE store'.my = store.my /\ store'.available = store.available
  BY <1>1
<1>2. ASSUME NEW c \in Calls, Loaded(c)
      PROVE  CardsDisjoint'
  <2>1. call[c].mine \in Pages /\ call[c].all \in Pages
    BY <1>2, EntryKinds DEF TypeOK, Entries, Loaded, Loads
  <2>2. /\ store'.my = call[c].mine
        /\ store'.available = Without(call[c].all, ToSet(call[c].mine))
    BY <1>2 DEF Loaded
  <2> QED
    BY <2>1, <2>2, WithoutElements DEF Pages
<1>3. ASSUME NEW c \in Calls, MoreMy(c)
      PROVE  CardsDisjoint'
  <2>1. call[c].page \in Pages
    BY <1>3, EntryKinds DEF TypeOK, Entries, MoreMy, Mores
  <2>2. /\ store'.my = store.my \o call[c].page
        /\ store'.available = Without(store.available, ToSet(call[c].page))
    BY <1>0, <1>3 DEF MoreMy, States
  <2>3. /\ ToSet(store'.my) = ToSet(store.my) \cup ToSet(call[c].page)
        /\ ToSet(store'.available) = ToSet(store.available) \ ToSet(call[c].page)
    BY <1>0, <2>1, <2>2, ConcatElements, WithoutElements DEF Pages
  <2> QED
    BY <2>3
<1>4. ASSUME NEW c \in Calls, MoreAvailable(c)
      PROVE  CardsDisjoint'
  <2> DEFINE more == Without(call[c].page, ToSet(store.my))
  <2>1. call[c].page \in Pages
    BY <1>4, EntryKinds DEF TypeOK, Entries, MoreAvailable, Mores
  <2>2. store'.my = store.my /\ store'.available = store.available \o more
    BY <1>0, <1>4 DEF MoreAvailable, States
  <2>3. more \in Pages /\ ToSet(more) = ToSet(call[c].page) \ ToSet(store.my)
    BY <2>1, WithoutElements DEF Pages
  <2> HIDE DEF more
  <2>4. ToSet(store'.available) = ToSet(store.available) \cup ToSet(more)
    BY <1>0, <2>2, <2>3, ConcatElements DEF Pages
  <2> QED
    BY <2>2, <2>3, <2>4
<1>5. ASSUME NEW c \in Calls, Quiet(c), ~Loaded(c), ~MoreMy(c), ~MoreAvailable(c)
      PROVE  store'.my = store.my /\ store'.available = store.available
  BY <1>0, <1>5 DEF Quiet, ReadMine, ReadAll, ReadMore, Mount, Succeeds, LoadStarts,
      LoadFails, MoreFails, Fails, LoadMoreMy, LoadMoreAvailable, Command, States
<1>6. CASE \/ \E g \in Changing : Elsewhere(g)
           \/ \E c \in Calls : Serve(c)
           \/ UNCHANGED vars
  BY <1>6, <1>1 DEF Elsewhere, Serve, vars
<1> QED
  BY <1>1, <1>2, <1>3, <1>4, <1>5, <1>6, StepCases

\* No gallery is offered to be joined that is listed as joined, whatever overlaps.
THEOREM CardsAlwaysDisjoint == Spec => []CardsDisjoint
<1>1. Init => CardsDisjoint
  BY DEF Init, CardsDisjoint, ToSet
<1> QED
  BY <1>1, NextDisjoint, TypesCorrect, PTL DEF Spec

\* Other entries than that of c stay as they are.
OthersKept(c) == \A d \in Calls : d # c => call'[d] = call[d]

\* Every step leaves each spinner a call that will stop it.
LEMMA NextSpinners == TypeOK /\ SpinnersHaveCalls /\ [Next]_vars => SpinnersHaveCalls'
<1> SUFFICES ASSUME TypeOK, SpinnersHaveCalls, [Next]_vars
             PROVE  SpinnersHaveCalls'
  OBVIOUS
<1> USE DEF SpinnersHaveCalls, Running
<1>0. store \in States
  BY DEF TypeOK
<1>a. ASSUME NEW c \in Calls, NEW e, OneCall(c, e)
      PROVE  call'[c] = e /\ OthersKept(c)
  BY <1>a DEF TypeOK, OneCall, OthersKept
<1>f. Free.kind = "none"
  BY DEF Free
<1>1. ASSUME UNCHANGED store, NEW c \in Calls, NEW e, OneCall(c, e), e.kind = call[c].kind
      PROVE  SpinnersHaveCalls'
  BY <1>1, <1>a DEF OthersKept
<1>2. ASSUME NEW c \in Calls, Serve(c) \/ ReadMine(c) \/ ReadAll(c) \/ ReadMore(c)
      PROVE  SpinnersHaveCalls'
  <2>1. UNCHANGED store
    BY <1>2 DEF Serve, ReadMine, ReadAll, ReadMore
  <2>2. \E e : OneCall(c, e) /\ e.kind = call[c].kind
    <3>1. \A e \in Loads : e.kind = "load"
      BY DEF Loads
    <3>2. CASE ReadMine(c) \/ ReadAll(c)
      BY <3>1, <3>2, AnswerTypes DEF ReadMine, ReadAll
    <3> QED
      BY <1>2, <3>2, AnswerTypes
  <2> QED
    BY <1>1, <2>1, <2>2
<1>3. ASSUME NEW c \in Calls, Mount(c) \/ Succeeds(c)
      PROVE  SpinnersHaveCalls'
  <2>1. PICK e \in Loads : OneCall(c, e)
    BY <1>3, PageTypes
  <2>2. call'[c].kind = "load" /\ OthersKept(c)
    BY <1>a, <2>1 DEF Loads
  <2>3. /\ store'.moreMy = store.moreMy /\ store'.moreAvailable = store.moreAvailable
        /\ call[c].kind \notin {"moreMy", "moreAvailable"}
    BY <1>0, <1>3, <1>f DEF Mount, Succeeds, LoadStarts, States, Commands
  <2> QED
    BY <2>2, <2>3 DEF OthersKept
<1>4. ASSUME NEW c \in Calls, Loaded(c)
      PROVE  SpinnersHaveCalls'
  BY <1>4 DEF Loaded
<1>5. ASSUME NEW c \in Calls, LoadFails(c)
      PROVE  SpinnersHaveCalls'
  <2>1. OneCall(c, Free)
    BY <1>5, PageTypes
  <2>2. /\ store'.moreMy = store.moreMy /\ store'.moreAvailable = store.moreAvailable
        /\ store'.loading = FALSE /\ call[c].kind = "load"
    BY <1>0, <1>5 DEF LoadFails, States
  <2> QED
    BY <1>a, <2>1, <2>2 DEF OthersKept
<1>6. ASSUME NEW c \in Calls, LoadMoreMy(c)
      PROVE  SpinnersHaveCalls'
  <2>1. PICK e \in Mores : OneCall(c, e) /\ e.kind = "moreMy"
    BY <1>6, PageTypes
  <2>2. /\ store'.moreAvailable = store.moreAvailable /\ store'.loading = store.loading
        /\ call[c].kind = "none"
    BY <1>0, <1>6, <1>f DEF LoadMoreMy, States
  <2> QED
    BY <1>a, <2>1, <2>2 DEF OthersKept
<1>7. ASSUME NEW c \in Calls, LoadMoreAvailable(c)
      PROVE  SpinnersHaveCalls'
  <2>1. PICK e \in Mores : OneCall(c, e) /\ e.kind = "moreAvailable"
    BY <1>7, PageTypes
  <2>2. /\ store'.moreMy = store.moreMy /\ store'.loading = store.loading
        /\ call[c].kind = "none"
    BY <1>0, <1>7, <1>f DEF LoadMoreAvailable, States
  <2> QED
    BY <1>a, <2>1, <2>2 DEF OthersKept
<1>8. ASSUME NEW c \in Calls, MoreMy(c) \/ (MoreFails(c) /\ call[c].kind = "moreMy")
      PROVE  SpinnersHaveCalls'
  <2>1. OneCall(c, Free)
    BY <1>8, PageTypes
  <2>2. /\ store'.moreAvailable = store.moreAvailable /\ store'.loading = store.loading
        /\ store'.moreMy = FALSE /\ call[c].kind = "moreMy"
    BY <1>0, <1>8 DEF MoreMy, MoreFails, States
  <2> QED
    BY <1>a, <2>1, <2>2 DEF OthersKept
<1>9. ASSUME NEW c \in Calls,
             MoreAvailable(c) \/ (MoreFails(c) /\ call[c].kind # "moreMy")
      PROVE  SpinnersHaveCalls'
  <2>1. OneCall(c, Free)
    BY <1>9, PageTypes
  <2>2. /\ store'.moreMy = store.moreMy /\ store'.loading = store.loading
        /\ store'.moreAvailable = FALSE /\ call[c].kind = "moreAvailable"
    BY <1>0, <1>9 DEF MoreAvailable, MoreFails, States, More
  <2> QED
    BY <1>a, <2>1, <2>2 DEF OthersKept
<1>10. ASSUME NEW c \in Calls, NEW kind \in Commands, Command(c, kind)
       PROVE  SpinnersHaveCalls'
  <2>1. PICK e \in Requests : OneCall(c, e) /\ e.kind = kind
    BY <1>10, PageTypes
  <2>2. /\ store'.moreMy = store.moreMy /\ store'.moreAvailable = store.moreAvailable
        /\ store'.loading => store.loading \/ kind = "create"
        /\ call[c].kind = "none"
    BY <1>0, <1>10, <1>f DEF Command, States
  <2> QED
    BY <1>a, <2>1, <2>2 DEF OthersKept
<1>11. ASSUME NEW c \in Calls, Fails(c)
       PROVE  SpinnersHaveCalls'
  <2>1. OneCall(c, Free)
    BY <1>11, PageTypes
  <2>2. /\ store'.moreMy = store.moreMy /\ store'.moreAvailable = store.moreAvailable
        /\ store'.loading => store.loading /\ call[c].kind # "create"
        /\ call[c].kind \in Commands
    BY <1>0, <1>11 DEF Fails, States
  <2> QED
    BY <1>a, <2>1, <2>2 DEF OthersKept, Commands
<1>12. CASE \/ \E g \in Changing : Elsewhere(g)
            \/ UNCHANGED vars
  BY <1>12 DEF Elsewhere, vars
<1> QED
  BY <1>2, <1>3, <1>4, <1>5, <1>6, <1>7, <1>8, <1>9, <1>10, <1>11, <1>12, StepCases
  DEF Quiet

\* What is shown as loading is loading.
THEOREM SpinnersAlwaysHaveCalls == Spec => []SpinnersHaveCalls
<1>1. Init => SpinnersHaveCalls
  BY DEF Init, SpinnersHaveCalls
<1> QED
  BY <1>1, NextSpinners, TypesCorrect, PTL DEF Spec

-----------------------------------------------------------------------------
(* The galleries page: complete listings.                                  *)
(*                                                                         *)
(* Lists that are fresh hold what the server has up to their tokens.  That *)
(* is so after a load because the answers of a load nothing has overtaken  *)
(* are those the server would give now, and it stays so because then at    *)
(* most one page of each list is under way, for the token the store has.   *)

LoadCurrent(e) == e.kind = "load" => /\ e.mine \in {Unread, MyPage(0)}
                                     /\ e.all \in {Unread, AvailablePage(0)}

LoadsCurrent == \A c \in Calls \ stale : LoadCurrent(call[c])

MoreCurrent(e) ==
    /\ e.kind = "moreMy" => /\ store.moreMy /\ e.token = store.myNext
                            /\ e.page \in {Unread, MyPage(store.myNext)}
    /\ e.kind = "moreAvailable" => /\ store.moreAvailable /\ e.token = store.availableNext
                                   /\ e.page \in {Unread, AvailablePage(store.availableNext)}

MoresCurrent ==
    fresh => /\ \A c \in Calls : MoreCurrent(call[c])
             /\ \A c, d \in Running("moreMy") : c = d
             /\ \A c, d \in Running("moreAvailable") : c = d

ListsCurrent ==
    fresh => /\ Lists(store.my, Between(joined, 0, store.myNext))
             /\ Lists(store.available,
                      Between(galleries, 0, store.availableNext) \ ToSet(store.my))

PagingInv == LoadsCurrent /\ MoresCurrent /\ ListsCurrent

\* Nothing is fresh at first.
LEMMA InitPaging == Init => PagingInv
  BY DEF Init, PagingInv, LoadsCurrent, LoadCurrent, MoresCurrent, ListsCurrent, Free

\* A change of the tables: the lists are not fresh, and the loads that have read
\* something are stale.
LEMMA ChangedPaging ==
    ASSUME Changed,
           \A c \in Calls : \/ call'[c] = call[c]
                            \/ call'[c].kind # "load"
    PROVE  PagingInv'
<1>1. fresh' = FALSE
  BY DEF Changed
<1>2. ASSUME NEW c \in Calls, c \notin stale', call'[c].kind = "load"
      PROVE  call'[c].mine = Unread /\ call'[c].all = Unread
  <2>1. call'[c] = call[c] /\ c \in Running("load")
    BY <1>2 DEF Running
  <2> QED
    BY <1>2, <2>1 DEF Changed
<1>3. LoadsCurrent'
  BY <1>2 DEF LoadsCurrent, LoadCurrent
<1> QED
  BY <1>1, <1>3 DEF PagingInv, MoresCurrent, ListsCurrent

\* Without a change of the tables the server's pages are the same.
LEMMA SamePages ==
    ASSUME UNCHANGED server
    PROVE  /\ (MyPage(0))' = MyPage(0) /\ (AvailablePage(0))' = AvailablePage(0)
           /\ (MyPage(store.myNext))' = MyPage(store'.myNext)
           /\ (AvailablePage(store.availableNext))' = AvailablePage(store'.availableNext)
           /\ \A e : (LoadCurrent(e))' <=> LoadCurrent(e)
<1>1. joined' = joined /\ galleries' = galleries
  BY DEF server
<1> QED
  BY <1>1 DEF MyPage, AvailablePage, LoadCurrent

\* When one entry becomes current, all loads stay current.
LEMMA LoadsStep ==
    ASSUME TypeOK, PagingInv, UNCHANGED server, NEW c \in Calls, NEW e, OneCall(c, e),
           LoadCurrent(e), stale' = stale \/ (stale' = stale \ {c})
    PROVE  LoadsCurrent'
<1>1. call'[c] = e /\ \A d \in Calls : d # c => call'[d] = call[d]
  BY DEF TypeOK, OneCall
<1>2. \A d \in Calls \ stale' : LoadCurrent(call'[d])
  BY <1>1 DEF PagingInv, LoadsCurrent
<1> QED
  BY <1>2, SamePages DEF LoadsCurrent

\* When one entry that is not a page becomes one that is not a page either, the
\* pages under way stay current.
LEMMA MoresStep ==
    ASSUME TypeOK, PagingInv, UNCHANGED server, NEW c \in Calls, NEW e, OneCall(c, e),
           call[c].kind \notin {"moreMy", "moreAvailable"},
           e.kind \notin {"moreMy", "moreAvailable"},
           fresh' => fresh,
           store'.moreMy = store.moreMy, store'.moreAvailable = store.moreAvailable,
           store'.myNext = store.myNext, store'.availableNext = store.availableNext
    PROVE  MoresCurrent'
<1> SUFFICES ASSUME fresh'
             PROVE  MoresCurrent'
  BY DEF MoresCurrent
<1>1. call'[c] = e /\ \A d \in Calls : d # c => call'[d] = call[d]
  BY DEF TypeOK, OneCall
<1>2. \A d \in Calls : MoreCurrent(call[d])
  BY DEF PagingInv, MoresCurrent
<1>3. \A d \in Calls : MoreCurrent(call'[d])
  BY <1>1, <1>2 DEF MoreCurrent
<1>4. \A d \in Calls : (MoreCurrent(call[d]))'
  BY <1>3, SamePages DEF MoreCurrent
<1>5. /\ Running("moreMy")' = Running("moreMy")
      /\ Running("moreAvailable")' = Running("moreAvailable")
  BY <1>1 DEF Running
<1> QED
  BY <1>4, <1>5 DEF PagingInv, MoresCurrent

\* When neither tables nor lists nor tokens change, the lists stay current.
LEMMA ListsStep ==
    ASSUME PagingInv, UNCHANGED server, fresh' => fresh,
           store'.my = store.my, store'.available = store.available,
           store'.myNext = store.myNext, store'.availableNext = store.availableNext
    PROVE  ListsCurrent'
<1>1. joined' = joined /\ galleries' = galleries
  BY DEF server
<1> QED
  BY <1>1 DEF PagingInv, ListsCurrent

\* Steps of the server for a command.
LEMMA ServePaging ==
    ASSUME TypeOK, PagingInv, NEW c \in Calls, Serve(c)
    PROVE  PagingInv'
<1>1. PICK e \in Requests : OneCall(c, e) /\ e.kind = call[c].kind
  BY AnswerTypes
<1>2. call[c].kind \in Commands
  BY DEF Serve
<1>3. e.kind \notin {"load", "moreMy", "moreAvailable"}
  BY <1>1, <1>2 DEF Commands
<1>4. call'[c] = e /\ \A d \in Calls : d # c => call'[d] = call[d]
  BY <1>1 DEF TypeOK, OneCall
<1>5. CASE <<galleries', joined'>> = <<galleries, joined>>
  <2>1. UNCHANGED <<stale, fresh, store, galleries, joined>>
    BY <1>5 DEF Serve
  <2>2. \A d \in Calls : \/ call'[d] = call[d]
                         \/ call'[d].kind \notin {"load", "moreMy", "moreAvailable"}
    BY <1>3, <1>4
  <2>3. /\ Running("moreMy")' = Running("moreMy")
        /\ Running("moreAvailable")' = Running("moreAvailable")
    BY <1>1, <1>4 DEF Running
  <2>4. ListsCurrent'
    BY <2>1 DEF PagingInv, ListsCurrent
  <2>5. LoadsCurrent'
    <3>1. \A d \in Calls \ stale : LoadCurrent(call'[d])
      BY <2>2 DEF PagingInv, LoadsCurrent, LoadCurrent
    <3> QED
      BY <2>1, <3>1 DEF LoadsCurrent, LoadCurrent, MyPage, AvailablePage
  <2>6. MoresCurrent'
    <3>1. fresh => \A d \in Calls : MoreCurrent(call'[d])
      BY <2>2 DEF PagingInv, MoresCurrent, MoreCurrent
    <3> QED
      BY <2>1, <2>3, <3>1 DEF PagingInv, MoresCurrent, MoreCurrent, MyPage, AvailablePage
  <2> QED
    BY <2>4, <2>5, <2>6 DEF PagingInv
<1>6. CASE <<galleries', joined'>> # <<galleries, joined>>
  <2>1. Changed
    BY <1>6 DEF Serve
  <2> QED
    BY <1>3, <1>4, <2>1, ChangedPaging
<1> QED
  BY <1>5, <1>6

\* The answers of a load.
LEMMA ReadPaging ==
    ASSUME TypeOK, PagingInv, NEW c \in Calls, ReadMine(c) \/ ReadAll(c)
    PROVE  PagingInv'
<1>1. UNCHANGED <<server, store, stale, fresh>> /\ call[c].kind = "load"
  BY DEF ReadMine, ReadAll
<1>2. PICK e \in Loads : /\ OneCall(c, e)
                         /\ e.mine \in {call[c].mine, MyPage(0)}
                         /\ e.all \in {call[c].all, AvailablePage(0)}
  BY AnswerTypes
<1>3. e.kind = "load"
  BY DEF Loads
<1>4. c \notin stale => LoadCurrent(e)
  BY <1>1, <1>2, <1>3 DEF PagingInv, LoadsCurrent, LoadCurrent
<1>5. LoadsCurrent'
  <2>1. call'[c] = e /\ \A d \in Calls : d # c => call'[d] = call[d]
    BY <1>2 DEF TypeOK, OneCall
  <2>2. \A d \in Calls \ stale : LoadCurrent(call'[d])
    BY <1>4, <2>1 DEF PagingInv, LoadsCurrent
  <2> QED
    BY <1>1, <2>2, SamePages DEF LoadsCurrent
<1>6. MoresCurrent'
  BY <1>1, <1>2, <1>3, MoresStep
<1>7. ListsCurrent'
  BY <1>1, ListsStep
<1> QED
  BY <1>5, <1>6, <1>7 DEF PagingInv

\* The answer of a page.
LEMMA ReadMorePaging ==
    ASSUME TypeOK, PagingInv, NEW c \in Calls, ReadMore(c)
    PROVE  PagingInv'
<1>1. UNCHANGED <<server, store, stale, fresh>>
  BY DEF ReadMore
<1>2. PICK e \in Mores : /\ OneCall(c, e) /\ e.kind = call[c].kind
                         /\ e.token = call[c].token
                         /\ e.page = IF e.kind = "moreMy" THEN MyPage(e.token)
                                                          ELSE AvailablePage(e.token)
  BY AnswerTypes
<1>3. e.kind \in {"moreMy", "moreAvailable"}
  BY DEF Mores
<1>4. LoadsCurrent'
  BY <1>1, <1>2, <1>3, LoadsStep DEF LoadCurrent
<1>5. MoresCurrent'
  <2> SUFFICES ASSUME fresh'
               PROVE  MoresCurrent'
    BY DEF MoresCurrent
  <2>1. call'[c] = e /\ \A d \in Calls : d # c => call'[d] = call[d]
    BY <1>2 DEF TypeOK, OneCall
  <2>2. \A d \in Calls : MoreCurrent(call[d])
    BY <1>1 DEF PagingInv, MoresCurrent
  <2>3. MoreCurrent(e)
    BY <1>2, <2>2 DEF MoreCurrent
  <2>4. \A d \in Calls : (MoreCurrent(call[d]))'
    BY <1>1, <2>1, <2>2, <2>3, SamePages DEF MoreCurrent
  <2>5. /\ Running("moreMy")' = Running("moreMy")
        /\ Running("moreAvailable")' = Running("moreAvailable")
    BY <1>2, <2>1 DEF Running
  <2> QED
    BY <1>1, <2>4, <2>5 DEF PagingInv, MoresCurrent
<1>6. ListsCurrent'
  BY <1>1, ListsStep
<1> QED
  BY <1>4, <1>5, <1>6 DEF PagingInv

\* Steps that leave lists, tokens and the pages under way alone.
LEMMA OtherPaging ==
    ASSUME TypeOK, PagingInv, UNCHANGED server, NEW c \in Calls,
           \/ Mount(c) \/ Succeeds(c) \/ LoadFails(c) \/ Fails(c)
           \/ \E kind \in Commands : Command(c, kind)
    PROVE  PagingInv'
<1>1. /\ store'.my = store.my /\ store'.available = store.available
      /\ store'.myNext = store.myNext /\ store'.availableNext = store.availableNext
      /\ store'.moreMy = store.moreMy /\ store'.moreAvailable = store.moreAvailable
      /\ fresh' = fresh
  BY DEF TypeOK, States, Mount, Succeeds, LoadStarts, LoadFails, Fails, Command
<1>2. call[c].kind \notin {"moreMy", "moreAvailable"}
  BY DEF Mount, Succeeds, LoadFails, Fails, Command, Commands, Free
<1>3. stale' = stale \/ stale' = stale \ {c}
  BY DEF Mount, Succeeds, LoadFails, Fails, Command, Ends
<1>4. \E e : /\ OneCall(c, e) /\ LoadCurrent(e)
             /\ e.kind \notin {"moreMy", "moreAvailable"}
  <2>1. CASE Mount(c) \/ Succeeds(c)
    <3>1. PICK e \in Loads : OneCall(c, e) /\ e.mine = Unread /\ e.all = Unread
      BY <2>1, PageTypes
    <3>2. LoadCurrent(e) /\ e.kind = "load"
      BY <3>1 DEF LoadCurrent, Loads
    <3> QED
      BY <3>1, <3>2
  <2>2. CASE LoadFails(c) \/ Fails(c)
    BY <2>2, PageTypes DEF LoadCurrent, Free
  <2>3. ASSUME NEW kind \in Commands, Command(c, kind)
        PROVE  \E e : /\ OneCall(c, e) /\ LoadCurrent(e)
                      /\ e.kind \notin {"moreMy", "moreAvailable"}
    <3>1. PICK e \in Requests : OneCall(c, e) /\ e.kind = kind
      BY <2>3, PageTypes
    <3>2. LoadCurrent(e) /\ e.kind \notin {"moreMy", "moreAvailable"}
      BY <3>1 DEF LoadCurrent, Commands
    <3> QED
      BY <3>1, <3>2
  <2> QED
    BY <2>1, <2>2, <2>3
<1>5. PICK e : /\ OneCall(c, e) /\ LoadCurrent(e)
               /\ e.kind \notin {"moreMy", "moreAvailable"}
  BY <1>4
<1>6. LoadsCurrent'
  BY <1>3, <1>5, LoadsStep
<1>7. MoresCurrent'
  BY <1>1, <1>2, <1>5, MoresStep
<1>8. ListsCurrent'
  BY <1>1, ListsStep
<1> QED
  BY <1>6, <1>7, <1>8 DEF PagingInv

\* The lists of a load that nothing has overtaken are what the server has.
LEMMA LoadedPaging ==
    ASSUME TypeOK, PagingInv, UNCHANGED server, NEW c \in Calls, Loaded(c)
    PROVE  PagingInv'
<1> DEFINE mine == call[c].mine
           all == call[c].all
<1>1. OneCall(c, Free) /\ stale' = stale \ {c}
  BY PageTypes DEF Loaded, Ends
<1>2. LoadsCurrent'
  BY <1>1, LoadsStep DEF LoadCurrent, Free
<1>3. CASE ~fresh'
  BY <1>2, <1>3 DEF PagingInv, MoresCurrent, ListsCurrent
<1>4. CASE fresh'
  <2>1. c \notin stale /\ More = {}
    BY <1>4 DEF Loaded
  <2>2. mine = MyPage(0) /\ all = AvailablePage(0)
    BY <2>1 DEF PagingInv, LoadsCurrent, LoadCurrent, Loaded
  <2>3. /\ store'.my = mine /\ store'.available = Without(all, ToSet(mine))
        /\ store'.myNext = Token(mine) /\ store'.availableNext = Token(all)
    BY DEF Loaded
  <2>4. call'[c] = Free /\ \A d \in Calls : d # c => call'[d] = call[d]
    BY <1>1 DEF TypeOK, OneCall
  <2>5. \A d \in Calls : call'[d].kind \notin {"moreMy", "moreAvailable"}
    BY <2>1, <2>4 DEF More, Running, Free
  <2>6. MoresCurrent'
    BY <2>5 DEF MoresCurrent, MoreCurrent, Running
  <2>7. Tables
    BY DEF TypeOK, Tables
  <2>8. /\ Lists(mine, Between(joined, 0, Token(mine)))
        /\ Lists(all, Between(galleries, 0, Token(all)))
    BY <2>2, <2>7, PageFacts
  <2>9. Lists(Without(all, ToSet(mine)), Between(galleries, 0, Token(all)) \ ToSet(mine))
    BY <2>8, WithoutLists
  <2>10. ListsCurrent'
    BY <2>3, <2>8, <2>9 DEF ListsCurrent, server
  <2> QED
    BY <1>2, <2>6, <2>10 DEF PagingInv
<1> QED
  BY <1>3, <1>4

\* A button is pressed while no page of its list is under way.
LEMMA LoadMorePaging ==
    ASSUME TypeOK, PagingInv, UNCHANGED server, NEW c \in Calls,
           LoadMoreMy(c) \/ LoadMoreAvailable(c)
    PROVE  PagingInv'
<1>1. UNCHANGED <<stale, fresh>> /\ call[c].kind = "none"
  BY DEF LoadMoreMy, LoadMoreAvailable, Free
<1>2. /\ store'.my = store.my /\ store'.available = store.available
      /\ store'.myNext = store.myNext /\ store'.availableNext = store.availableNext
      /\ store.moreMy => store'.moreMy
      /\ store.moreAvailable => store'.moreAvailable
      /\ LoadMoreMy(c) => store'.moreMy /\ ~store.moreMy
      /\ LoadMoreAvailable(c) => store'.moreAvailable /\ ~store.moreAvailable
  BY DEF TypeOK, States, LoadMoreMy, LoadMoreAvailable
<1>3. PICK e \in Mores :
         /\ OneCall(c, e) /\ e.page = Unread
         /\ \/ LoadMoreMy(c) /\ e.kind = "moreMy" /\ e.token = store.myNext
            \/ /\ LoadMoreAvailable(c) /\ e.kind = "moreAvailable"
               /\ e.token = store.availableNext
  BY PageTypes
<1>4. LoadsCurrent'
  BY <1>1, <1>3, LoadsStep DEF LoadCurrent
<1>5. ListsCurrent'
  BY <1>1, <1>2, ListsStep
<1>6. MoresCurrent'
  <2> SUFFICES ASSUME fresh'
               PROVE  MoresCurrent'
    BY DEF MoresCurrent
  <2>1. call'[c] = e /\ \A d \in Calls : d # c => call'[d] = call[d]
    BY <1>3 DEF TypeOK, OneCall
  <2>2. \A d \in Calls : MoreCurrent(call[d])
    BY <1>1 DEF PagingInv, MoresCurrent
  <2>3. \A d \in Calls : d # c => (MoreCurrent(call[d]))'
    BY <1>2, <2>1, <2>2, SamePages DEF MoreCurrent
  <2>4. (MoreCurrent(call[c]))'
    BY <1>2, <1>3, <2>1 DEF MoreCurrent
  <2>5. /\ LoadMoreMy(c) => Running("moreMy") = {}
        /\ LoadMoreAvailable(c) => Running("moreAvailable") = {}
    BY <1>2, <2>2 DEF MoreCurrent, Running
  <2>6. /\ \A d, f \in Running("moreMy") : d = f
        /\ \A d, f \in Running("moreAvailable") : d = f
    BY <1>1 DEF PagingInv, MoresCurrent
  <2>7. CASE e.kind = "moreMy"
    <3>1. /\ Running("moreMy")' = {c}
          /\ Running("moreAvailable")' = Running("moreAvailable")
      BY <1>1, <1>3, <2>1, <2>5, <2>7 DEF Running
    <3> QED
      BY <2>3, <2>4, <2>6, <3>1 DEF MoresCurrent
  <2>8. CASE e.kind = "moreAvailable"
    <3>1. /\ Running("moreAvailable")' = {c}
          /\ Running("moreMy")' = Running("moreMy")
      BY <1>1, <1>3, <2>1, <2>5, <2>8 DEF Running
    <3> QED
      BY <2>3, <2>4, <2>6, <3>1 DEF MoresCurrent
  <2> QED
    BY <1>3, <2>7, <2>8
<1> QED
  BY <1>4, <1>5, <1>6 DEF PagingInv

\* The end of a page of one list leaves the pages of the other as they are.
LEMMA MoreEnds ==
    ASSUME TypeOK, PagingInv, UNCHANGED server, NEW c \in Calls, OneCall(c, Free),
           fresh,
           \/ /\ call[c].kind = "moreMy"
              /\ store'.availableNext = store.availableNext
              /\ store'.moreAvailable = store.moreAvailable
           \/ /\ call[c].kind = "moreAvailable"
              /\ store'.myNext = store.myNext
              /\ store'.moreMy = store.moreMy
    PROVE  MoresCurrent'
<1>1. call'[c] = Free /\ \A d \in Calls : d # c => call'[d] = call[d]
  BY DEF TypeOK, OneCall
<1>2. /\ \A d \in Calls : MoreCurrent(call[d])
      /\ \A d, f \in Running("moreMy") : d = f
      /\ \A d, f \in Running("moreAvailable") : d = f
  BY DEF PagingInv, MoresCurrent
<1>3. Free.kind = "none"
  BY DEF Free
<1>4. CASE call[c].kind = "moreMy"
  <2>1. /\ store'.availableNext = store.availableNext
        /\ store'.moreAvailable = store.moreAvailable
    BY <1>4
  <2>2. Running("moreMy")' = {} /\ Running("moreAvailable")' = Running("moreAvailable")
    BY <1>1, <1>2, <1>3, <1>4 DEF Running
  <2>3. \A d \in Calls : (MoreCurrent(call[d]))'
    <3> SUFFICES ASSUME NEW d \in Calls
                 PROVE  (MoreCurrent(call[d]))'
      OBVIOUS
    <3>1. call'[d].kind # "moreMy"
      BY <2>2 DEF Running
    <3>2. call'[d].kind = "moreAvailable" => call'[d] = call[d]
      BY <1>1, <1>3
    <3> QED
      BY <1>2, <2>1, <3>1, <3>2, SamePages DEF MoreCurrent
  <2> QED
    BY <1>2, <2>2, <2>3 DEF MoresCurrent
<1>5. CASE call[c].kind = "moreAvailable"
  <2>1. store'.myNext = store.myNext /\ store'.moreMy = store.moreMy
    BY <1>5
  <2>2. Running("moreAvailable")' = {} /\ Running("moreMy")' = Running("moreMy")
    BY <1>1, <1>2, <1>3, <1>5 DEF Running
  <2>3. \A d \in Calls : (MoreCurrent(call[d]))'
    <3> SUFFICES ASSUME NEW d \in Calls
                 PROVE  (MoreCurrent(call[d]))'
      OBVIOUS
    <3>1. call'[d].kind # "moreAvailable"
      BY <2>2 DEF Running
    <3>2. call'[d].kind = "moreMy" => call'[d] = call[d]
      BY <1>1, <1>3
    <3> QED
      BY <1>2, <2>1, <3>1, <3>2, SamePages DEF MoreCurrent
  <2> QED
    BY <1>2, <2>2, <2>3 DEF MoresCurrent
<1> QED
  BY <1>4, <1>5

\* A page extends what is listed, from the token on.
LEMMA BetweenGrows ==
    ASSUME NEW S \in SUBSET Nat, NEW t \in Nat \ {0}, NEW u \in Nat, u = 0 \/ t < u
    PROVE  /\ Between(S, 0, u) = Between(S, 0, t) \cup Between(S, t, u)
           /\ \A g \in Between(S, 0, t), h \in Between(S, t, u) : g < h
<1>1. \A g \in S : g \in Nat
  OBVIOUS
<1>2. \A g \in S : (0 < g /\ (u = 0 \/ g <= u))
                   <=> (0 < g /\ (t = 0 \/ g <= t)) \/ (t < g /\ (u = 0 \/ g <= u))
  BY <1>1
<1>3. \A g, h \in S : g <= t /\ t < h => g < h
  BY <1>1
<1> QED
  BY <1>1, <1>2, <1>3 DEF Between

\* A page of the user's galleries.
LEMMA MoreMyPaging ==
    ASSUME TypeOK, PagingInv, UNCHANGED server, NEW c \in Calls, MoreMy(c)
    PROVE  PagingInv'
<1> DEFINE page == call[c].page
           t == store.myNext
<1>1. OneCall(c, Free) /\ stale' = stale \ {c} /\ fresh' = fresh
  BY PageTypes DEF MoreMy, Ends
<1>2. LoadsCurrent'
  BY <1>1, LoadsStep DEF LoadCurrent, Free
<1>3. CASE ~fresh'
  BY <1>2, <1>3 DEF PagingInv, MoresCurrent, ListsCurrent
<1>4. CASE fresh'
  <2>1. /\ call[c].kind = "moreMy" /\ page # Unread
        /\ store'.my = store.my \o page
        /\ store'.available = Without(store.available, ToSet(page))
        /\ store'.myNext = Token(page)
        /\ store'.availableNext = store.availableNext
        /\ store'.moreAvailable = store.moreAvailable
    BY DEF MoreMy, TypeOK, States
  <2>2. MoreCurrent(call[c])
    BY <1>1, <1>4 DEF PagingInv, MoresCurrent
  <2>3. page = MyPage(t) /\ call[c].token = t
    BY <2>1, <2>2 DEF MoreCurrent
  <2>4. call[c] \in Mores
    BY <2>1, EntryKinds DEF TypeOK, Entries
  <2>5. t \in Nat \ {0}
    BY <2>3, <2>4, GalleryFacts DEF Mores
  <2>6. Tables /\ joined \in SUBSET Nat
    BY GalleryFacts DEF TypeOK, Tables
  <2>7. /\ page \in Pages /\ Lists(page, Between(joined, t, Token(page)))
        /\ Token(page) = 0 \/ t < Token(page)
    BY <2>3, <2>5, <2>6, PageFacts
  <2>8. Token(page) \in Nat
    BY <2>7, TokenType, MaxGalleriesAssumption
  <2>9. /\ Lists(store.my, Between(joined, 0, t))
        /\ Lists(store.available,
                 Between(galleries, 0, store.availableNext) \ ToSet(store.my))
    BY <1>1, <1>4 DEF PagingInv, ListsCurrent
  <2> HIDE DEF page, t
  <2>10. Lists(store.my \o page, Between(joined, 0, Token(page)))
    <3>1. /\ Between(joined, 0, Token(page))
                 = Between(joined, 0, t) \cup Between(joined, t, Token(page))
          /\ \A g \in Between(joined, 0, t), h \in Between(joined, t, Token(page)) : g < h
      BY <2>5, <2>6, <2>7, <2>8, BetweenGrows
    <3>2. Lists(store.my \o page,
                Between(joined, 0, t) \cup Between(joined, t, Token(page)))
      BY <2>7, <2>9, <3>1, ConcatLists
    <3> QED
      BY <3>1, <3>2
  <2>11. ToSet(store.my \o page) = ToSet(store.my) \cup ToSet(page)
    BY <2>7, <2>9, ConcatElements DEF Lists
  <2>12. Lists(Without(store.available, ToSet(page)),
               (Between(galleries, 0, store.availableNext) \ ToSet(store.my)) \ ToSet(page))
    BY <2>9, WithoutLists
  <2>13. Lists(Without(store.available, ToSet(page)),
               Between(galleries, 0, store.availableNext) \ ToSet(store.my \o page))
    <3>1. (Between(galleries, 0, store.availableNext) \ ToSet(store.my)) \ ToSet(page)
             = Between(galleries, 0, store.availableNext) \ ToSet(store.my \o page)
      BY <2>11
    <3> QED
      BY <2>12, <3>1
  <2>14. ListsCurrent'
    BY <2>1, <2>10, <2>13 DEF ListsCurrent, server, page
  <2>15. MoresCurrent'
    BY <1>1, <1>4, <2>1, MoreEnds
  <2> QED
    BY <1>2, <2>14, <2>15 DEF PagingInv
<1> QED
  BY <1>3, <1>4

\* A page of all galleries.
LEMMA MoreAvailablePaging ==
    ASSUME TypeOK, PagingInv, UNCHANGED server, NEW c \in Calls, MoreAvailable(c)
    PROVE  PagingInv'
<1> DEFINE page == call[c].page
           t == store.availableNext
           mine == ToSet(store.my)
           more == Without(page, mine)
<1>1. OneCall(c, Free) /\ stale' = stale \ {c} /\ fresh' = fresh
  BY PageTypes DEF MoreAvailable, Ends
<1>2. LoadsCurrent'
  BY <1>1, LoadsStep DEF LoadCurrent, Free
<1>3. CASE ~fresh'
  BY <1>2, <1>3 DEF PagingInv, MoresCurrent, ListsCurrent
<1>4. CASE fresh'
  <2>1. /\ call[c].kind = "moreAvailable" /\ page # Unread
        /\ store'.my = store.my
        /\ store'.available = store.available \o more
        /\ store'.myNext = store.myNext
        /\ store'.availableNext = Token(page)
        /\ store'.moreMy = store.moreMy
    BY DEF MoreAvailable, TypeOK, States
  <2>2. MoreCurrent(call[c])
    BY <1>1, <1>4 DEF PagingInv, MoresCurrent
  <2>3. page = AvailablePage(t) /\ call[c].token = t
    BY <2>1, <2>2 DEF MoreCurrent
  <2>4. call[c] \in Mores
    BY <2>1, EntryKinds DEF TypeOK, Entries
  <2>5. t \in Nat \ {0}
    BY <2>3, <2>4, GalleryFacts DEF Mores
  <2>6. Tables /\ galleries \in SUBSET Nat
    BY GalleryFacts DEF TypeOK, Tables
  <2>7. /\ page \in Pages /\ Lists(page, Between(galleries, t, Token(page)))
        /\ Token(page) = 0 \/ t < Token(page)
    BY <2>3, <2>5, <2>6, PageFacts
  <2>8. Token(page) \in Nat
    BY <2>7, TokenType, MaxGalleriesAssumption
  <2>9. /\ Lists(store.my, Between(joined, 0, store.myNext))
        /\ Lists(store.available, Between(galleries, 0, t) \ mine)
    BY <1>1, <1>4 DEF PagingInv, ListsCurrent
  <2>10. Lists(more, Between(galleries, t, Token(page)) \ mine)
    BY <2>7, WithoutLists
  <2> HIDE DEF page, t, mine, more
  <2>11. /\ Between(galleries, 0, Token(page))
               = Between(galleries, 0, t) \cup Between(galleries, t, Token(page))
         /\ \A g \in Between(galleries, 0, t),
               h \in Between(galleries, t, Token(page)) : g < h
    BY <2>5, <2>6, <2>7, <2>8, BetweenGrows
  <2>12. Lists(store.available \o more,
               (Between(galleries, 0, t) \ mine)
                  \cup (Between(galleries, t, Token(page)) \ mine))
    BY <2>9, <2>10, <2>11, ConcatLists
  <2>13. (Between(galleries, 0, t) \ mine) \cup (Between(galleries, t, Token(page)) \ mine)
            = Between(galleries, 0, Token(page)) \ mine
    BY <2>11
  <2>14. Lists(store.available \o more, Between(galleries, 0, Token(page)) \ mine)
    BY <2>12, <2>13
  <2>15. ListsCurrent'
    BY <2>1, <2>9, <2>14 DEF ListsCurrent, server, mine
  <2>16. MoresCurrent'
    BY <1>1, <1>4, <2>1, MoreEnds
  <2> QED
    BY <1>2, <2>15, <2>16 DEF PagingInv
<1> QED
  BY <1>3, <1>4

\* A page that fails leaves its button as it was before.
LEMMA MoreFailsPaging ==
    ASSUME TypeOK, PagingInv, UNCHANGED server, NEW c \in Calls, MoreFails(c)
    PROVE  PagingInv'
<1>1. OneCall(c, Free) /\ stale' = stale \ {c} /\ fresh' = fresh
  BY PageTypes DEF MoreFails, Ends
<1>2. LoadsCurrent'
  BY <1>1, LoadsStep DEF LoadCurrent, Free
<1>3. /\ store'.my = store.my /\ store'.available = store.available
      /\ store'.myNext = store.myNext /\ store'.availableNext = store.availableNext
      /\ \/ call[c].kind = "moreMy" /\ store'.moreAvailable = store.moreAvailable
         \/ call[c].kind = "moreAvailable" /\ store'.moreMy = store.moreMy
  BY DEF MoreFails, TypeOK, States, More, Running
<1>4. ListsCurrent'
  BY <1>1, <1>3, ListsStep
<1>5. MoresCurrent'
  <2>1. CASE ~fresh
    BY <1>1, <2>1 DEF MoresCurrent
  <2>2. CASE fresh
    BY <1>1, <1>3, <2>2, MoreEnds
  <2> QED
    BY <2>1, <2>2
<1> QED
  BY <1>2, <1>4, <1>5 DEF PagingInv

\* Every step preserves the invariant.
LEMMA NextPaging == TypeOK /\ PagingInv /\ [Next]_vars => PagingInv'
<1> SUFFICES ASSUME TypeOK, PagingInv, [Next]_vars
             PROVE  PagingInv'
  OBVIOUS
<1>1. CASE \E g \in Changing : Elsewhere(g)
  BY <1>1, ChangedPaging DEF Elsewhere
<1>2. ASSUME NEW c \in Calls, Quiet(c), UNCHANGED server
      PROVE  PagingInv'
  BY <1>2, ReadPaging, ReadMorePaging, OtherPaging, LoadedPaging, LoadMorePaging,
     MoreMyPaging, MoreAvailablePaging, MoreFailsPaging DEF Quiet
<1>3. CASE UNCHANGED vars
  BY <1>3 DEF vars, PagingInv, LoadsCurrent, LoadCurrent, MoresCurrent, MoreCurrent,
              ListsCurrent, Running, MyPage, AvailablePage
<1> QED
  BY <1>1, <1>2, <1>3, ServePaging, StepCases

\* Once both lists have no more pages they are complete, in order and without
\* repetitions, unless something has changed since they were loaded.
THEOREM AlwaysPagedToTheEnd == Spec => []PagedToTheEnd
<1>1. TypeOK /\ PagingInv => PagedToTheEnd
  <2> SUFFICES ASSUME TypeOK, PagingInv, fresh, store.myNext = 0, store.availableNext = 0
               PROVE  store.my = Sorted(joined) /\ store.available = Sorted(galleries \ joined)
    BY DEF PagedToTheEnd
  <2>1. /\ joined \in SUBSET Galleries /\ galleries \in SUBSET Galleries
        /\ galleries \ joined \in SUBSET Galleries
    BY DEF TypeOK
  <2>2. IsFiniteSet(joined) /\ IsFiniteSet(galleries \ joined)
    BY <2>1, GalleryFacts, FS_Subset
  <2>3. /\ joined \in SUBSET Nat /\ galleries \ joined \in SUBSET Nat
        /\ Between(joined, 0, 0) = joined /\ Between(galleries, 0, 0) = galleries
    <3>1. \A g \in Galleries : 0 < g /\ g \in Nat
      BY MaxGalleriesAssumption DEF Galleries
    <3> QED
      BY <2>1, <3>1 DEF Between
  <2>4. Lists(store.my, joined)
    BY <2>3 DEF PagingInv, ListsCurrent
  <2>5. Lists(store.available, galleries \ joined)
    BY <2>3, <2>4 DEF PagingInv, ListsCurrent, Lists
  <2> QED
    BY <2>2, <2>3, <2>4, <2>5, SortedOnly DEF Lists
<1> QED
  BY <1>1, InitPaging, NextPaging, TypesCorrect, PTL DEF Spec

-----------------------------------------------------------------------------
(* The upload listing: the order of the photos.                            *)

\* The instance's copies of the library's operators are the library's.
LEMMA SameLibrary ==
    ASSUME NEW S
    PROVE  /\ Listing!Cardinality(S) = Cardinality(S)
           /\ Listing!ToSet(S) = ToSet(S)
           /\ Listing!Reverse(S) = Reverse(S)
           /\ Listing!IsInjective(S) = IsInjective(S)
<1>1. Listing!Cardinality(S) = Cardinality(S)
  BY DEF Listing!Cardinality, Cardinality
<1>2. Listing!ToSet(S) = ToSet(S)
  BY DEF Listing!ToSet, ToSet
<1>3. Listing!Reverse(S) = Reverse(S)
  BY DEF Listing!Reverse, Reverse
<1>4. Listing!IsInjective(S) = IsInjective(S)
  BY DEF Listing!IsInjective, IsInjective
<1> QED
  BY <1>1, <1>2, <1>3, <1>4

\* The types, without the bound on the photos.
ListingTypes ==
    /\ repository \in {"postgres", "memory"}
    /\ saved \in Seq(Nat) /\ IsInjective(saved)
    /\ at \in {"idle", "count", "find", "done"}
    /\ offset \in Nat
    /\ total \in Nat
    /\ got \in Seq(Nat)
    /\ first \subseteq Listing!rows
    /\ raced \in BOOLEAN

Count == Cardinality(Listing!rows)

\* As many records as have been saved, each of them once.
LEMMA RowsFacts ==
    ASSUME ListingTypes
    PROVE  /\ IsFiniteSet(Listing!rows) /\ Count = Len(saved) /\ Count \in Nat
           /\ Listing!rows \in SUBSET Nat
           /\ DOMAIN saved = 1 .. Count /\ saved \in [1 .. Count -> Listing!rows]
           /\ \A p \in Listing!rows : \E i \in 1 .. Count : saved[i] = p
<1>1. /\ DOMAIN saved = 1 .. Len(saved) /\ Len(saved) \in Nat
      /\ saved \in [1 .. Len(saved) -> Nat]
  BY LenProperties DEF ListingTypes
<1>2. Listing!rows = {saved[i] : i \in 1 .. Len(saved)}
  BY <1>1, SameLibrary DEF Listing!rows, ToSet
<1>3. saved \in [1 .. Len(saved) -> Listing!rows] /\ Listing!rows \in SUBSET Nat
  BY <1>1, <1>2
<1>4. saved \in Bijection(1 .. Len(saved), Listing!rows)
  BY <1>1, <1>2, <1>3 DEF Bijection, Injection, Surjection, IsInjective, ListingTypes
<1>5. IsFiniteSet(1 .. Len(saved)) /\ Cardinality(1 .. Len(saved)) = Len(saved)
  BY <1>1, FS_Interval
<1>6. IsFiniteSet(Listing!rows) /\ Count = Len(saved)
  BY <1>4, <1>5, FS_Bijection DEF ExistsBijection, Count
<1> QED
  BY <1>1, <1>2, <1>3, <1>6

Later(S, p) == {q \in S : q > p}

\* The ranks by time: the number of later records.
LEMMA TimeRanks ==
    ASSUME NEW S \in SUBSET Nat, IsFiniteSet(S)
    PROVE  /\ \A p \in S : Cardinality(Later(S, p)) \in 0 .. Cardinality(S) - 1
           /\ \A p, q \in S : Cardinality(Later(S, p)) = Cardinality(Later(S, q)) => p = q
           /\ \A k \in 1 .. Cardinality(S) : \E p \in S : Cardinality(Later(S, p)) = k - 1
<1> DEFINE before == [p \in S |-> Later(S, p)]
<1>1. before \in [S -> SUBSET S]
  BY DEF Later
<1>2. \A p \in S : before[p] = Later(S, p)
  OBVIOUS
<1>n. \A p \in S : p \in Int
  OBVIOUS
<1>3. \A p \in S : p \notin before[p]
  BY <1>n DEF Later
<1>4. ASSUME NEW p \in S, NEW q \in S, p > q
      PROVE  p \in before[q] /\ before[p] \subseteq before[q]
  <2>1. p \in Later(S, q)
    BY <1>4 DEF Later
  <2>2. \A x \in S : x > p => x > q
    BY <1>n, <1>4
  <2>3. Later(S, p) \subseteq Later(S, q)
    BY <2>2 DEF Later
  <2> QED
    BY <2>1, <2>3
<1>5. \A p, q \in S : p # q => p > q \/ q > p
  BY <1>n
<1> HIDE DEF before
<1>6. \A p, q \in S : p # q => \/ p \in before[q] /\ before[p] \subseteq before[q]
                               \/ q \in before[p] /\ before[q] \subseteq before[p]
  BY <1>4, <1>5
<1>7. /\ \A p \in S : Cardinality(before[p]) \in 0 .. Cardinality(S) - 1
      /\ \A p, q \in S : Cardinality(before[p]) = Cardinality(before[q]) => p = q
      /\ \A k \in 1 .. Cardinality(S) : \E p \in S : Cardinality(before[p]) = k - 1
  BY <1>1, <1>3, <1>6, Ranks
<1> QED
  BY <1>2, <1>7

\* ORDER BY uploaded_at DESC lists the records, each at the place its rank says.
Ranked ==
    /\ Listing!ByTime \in [1 .. Count -> Listing!rows]
    /\ \A k \in 1 .. Count : Cardinality(Later(Listing!rows, Listing!ByTime[k])) = k - 1

LEMMA ByTimeFacts == ListingTypes => Ranked
<1> SUFFICES ASSUME ListingTypes
             PROVE  Ranked
  OBVIOUS
<1>1. IsFiniteSet(Listing!rows) /\ Listing!rows \in SUBSET Nat
  BY RowsFacts
<1>c. Listing!Cardinality(Listing!rows) = Count
  BY SameLibrary DEF Count
<1> DEFINE Rank(p) == Listing!Cardinality({q \in Listing!rows : q > p})
<1>r. \A p : Rank(p) = Cardinality(Later(Listing!rows, p))
  BY SameLibrary DEF Later
<1>2. Listing!ByTime = [k \in 1 .. Count |-> CHOOSE p \in Listing!rows : Rank(p) = k - 1]
  BY <1>c DEF Listing!ByTime
<1> HIDE DEF Rank
<1>3. ASSUME NEW k \in 1 .. Count
      PROVE  /\ Listing!ByTime[k] \in Listing!rows
             /\ Cardinality(Later(Listing!rows, Listing!ByTime[k])) = k - 1
  <2>1. \E p \in Listing!rows : Cardinality(Later(Listing!rows, p)) = k - 1
    BY <1>1, TimeRanks DEF Count
  <2>2. \E p \in Listing!rows : Rank(p) = k - 1
    BY <1>r, <2>1
  <2>3. Listing!ByTime[k] = CHOOSE p \in Listing!rows : Rank(p) = k - 1
    BY <1>2
  <2>4. Listing!ByTime[k] \in Listing!rows /\ Rank(Listing!ByTime[k]) = k - 1
    BY <2>2, <2>3
  <2> QED
    BY <1>r, <2>4
<1> QED
  BY <1>2, <1>3 DEF Ranked

\* In either order every record has one place.
LEMMA OrderFacts ==
    ASSUME ListingTypes
    PROVE  /\ Listing!MostRecentFirst \in [1 .. Count -> Listing!rows]
           /\ Listing!MostRecentFirst \in Seq(Listing!rows)
           /\ Len(Listing!MostRecentFirst) = Count
           /\ \A p \in Listing!rows : \E k \in 1 .. Count : Listing!MostRecentFirst[k] = p
<1> DEFINE m == Listing!MostRecentFirst
<1>0. Count \in Nat
  BY RowsFacts
<1>1. CASE repository = "memory"
  <2>1. m = [i \in 1 .. Count |-> saved[(Count - i) + 1]]
    BY <1>1, RowsFacts, SameLibrary DEF Listing!MostRecentFirst, Listing!Backwards, Reverse
  <2>2. \A i \in 1 .. Count : (Count - i) + 1 \in 1 .. Count
                              /\ (Count - ((Count - i) + 1)) + 1 = i
    BY <1>0
  <2>3. m \in [1 .. Count -> Listing!rows]
    BY <2>1, <2>2, RowsFacts
  <2>4. ASSUME NEW p \in Listing!rows
        PROVE  \E k \in 1 .. Count : m[k] = p
    <3>1. PICK i \in 1 .. Count : saved[i] = p
      BY RowsFacts
    <3> DEFINE k == (Count - i) + 1
    <3>2. k \in 1 .. Count /\ (Count - k) + 1 = i
      BY <2>2
    <3> HIDE DEF k
    <3>3. m[k] = p
      BY <2>1, <3>1, <3>2
    <3> QED
      BY <3>2, <3>3
  <2>5. m \in Seq(Listing!rows) /\ Len(m) = Count
    BY <1>0, <2>3
  <2> QED
    BY <2>3, <2>4, <2>5
<1>2. CASE repository # "memory"
  <2>1. m = Listing!ByTime
    BY <1>2 DEF Listing!MostRecentFirst
  <2>2. m \in [1 .. Count -> Listing!rows]
    BY <2>1, ByTimeFacts DEF Ranked
  <2>3. ASSUME NEW p \in Listing!rows
        PROVE  \E k \in 1 .. Count : m[k] = p
    <3> DEFINE r == Cardinality(Later(Listing!rows, p))
    <3>1. r \in 0 .. Count - 1
      BY RowsFacts, TimeRanks DEF Count
    <3> DEFINE k == r + 1
    <3>2. k \in 1 .. Count /\ k - 1 = r
      BY <1>0, <3>1
    <3>3. m[k] \in Listing!rows /\ Cardinality(Later(Listing!rows, m[k])) = r
      BY <2>1, <3>2, ByTimeFacts DEF Ranked
    <3>4. \A q \in Listing!rows :
             Cardinality(Later(Listing!rows, q)) = Cardinality(Later(Listing!rows, p)) => q = p
      BY RowsFacts, TimeRanks
    <3>5. m[k] = p
      BY <3>3, <3>4
    <3> QED
      BY <3>2, <3>5
  <2>4. m \in Seq(Listing!rows) /\ Len(m) = Count
    BY <1>0, <2>2
  <2> QED
    BY <2>2, <2>3, <2>4
<1> QED
  BY <1>1, <1>2

\* A record saved meanwhile moves the others back, if at all.
LEMMA SaveShifts ==
    ASSUME ListingTypes, ListingTypes', NEW p \in Nat, Listing!Save(p)
    PROVE  /\ Listing!rows' = Listing!rows \cup {p} /\ p \notin Listing!rows
           /\ Count' = Count + 1
           /\ \A k \in 1 .. Count' : (Listing!MostRecentFirst)'[k] # p =>
                 \E j \in 1 .. Count :
                    j <= k /\ Listing!MostRecentFirst[j] = (Listing!MostRecentFirst)'[k]
<1> DEFINE m == Listing!MostRecentFirst
           n == (Listing!MostRecentFirst)'
<1>0. /\ Count \in Nat /\ Len(saved) = Count /\ saved \in [1 .. Count -> Listing!rows]
      /\ IsFiniteSet(Listing!rows) /\ Listing!rows \in SUBSET Nat
  BY RowsFacts
<1>1. /\ saved' \in Seq(Nat) /\ Len(saved') = Count + 1
      /\ \A i \in 1 .. Count : saved'[i] = saved[i]
      /\ saved'[Count + 1] = p
      /\ p \notin Listing!rows /\ repository' = repository
  BY <1>0, AppendProperties DEF Listing!Save, Listing!Indexed, ListingTypes
<1>2. Listing!rows' = Listing!rows \cup {p}
  <2>1. DOMAIN saved' = 1 .. Count + 1 /\ DOMAIN saved = 1 .. Count
    BY <1>0, <1>1, LenProperties
  <2>2. \A i \in 1 .. Count + 1 : i \in 1 .. Count \/ i = Count + 1
    BY <1>0
  <2>3. \A i \in 1 .. Count : i \in 1 .. Count + 1
    BY <1>0
  <2>4. Count + 1 \in 1 .. Count + 1
    BY <1>0
  <2>5. Listing!rows' = {saved'[i] : i \in 1 .. Count + 1}
    BY <2>1, SameLibrary DEF Listing!rows, ToSet
  <2>6. Listing!rows = {saved[i] : i \in 1 .. Count}
    BY <2>1, SameLibrary DEF Listing!rows, ToSet
  <2> QED
    BY <1>1, <2>2, <2>3, <2>4, <2>5, <2>6
<1>3. Count' = Count + 1
  BY <1>0, <1>1, <1>2, FS_AddElement DEF Count
<1>4. ASSUME NEW k \in 1 .. Count', n[k] # p
      PROVE  \E j \in 1 .. Count : j <= k /\ m[j] = n[k]
  <2>1. CASE repository = "memory"
    <3>1. /\ n = [i \in 1 .. Count + 1 |-> saved'[((Count + 1) - i) + 1]]
          /\ m = [i \in 1 .. Count |-> saved[(Count - i) + 1]]
      <4>1. n = Reverse(saved')
        <5>1. n = Listing!Reverse(saved')
          BY <1>1, <2>1 DEF Listing!MostRecentFirst, Listing!Backwards
        <5> QED
          BY <5>1, SameLibrary
      <4>2. m = Reverse(saved)
        BY <2>1, SameLibrary DEF Listing!MostRecentFirst, Listing!Backwards
      <4> QED
        BY <1>0, <1>1, <4>1, <4>2 DEF Reverse
    <3>2. n[k] = saved'[((Count + 1) - k) + 1]
      BY <1>3, <3>1
    <3>3. k # 1
      <4>1. k = 1 => ((Count + 1) - k) + 1 = Count + 1
        BY <1>0
      <4> QED
        BY <1>1, <1>4, <3>2, <4>1
    <3> DEFINE j == k - 1
               i == (Count - j) + 1
    <3>4. /\ j \in 1 .. Count /\ j <= k
          /\ i \in 1 .. Count /\ ((Count + 1) - k) + 1 = i
      BY <1>0, <1>3, <3>3
    <3>5. m[j] = saved[i]
      BY <3>1, <3>4
    <3> HIDE DEF i, j
    <3>6. n[k] = saved[i]
      BY <1>1, <3>2, <3>4
    <3> QED
      BY <3>4, <3>5, <3>6
  <2>2. CASE repository # "memory"
    <3>1. n = (Listing!ByTime)' /\ m = Listing!ByTime
      BY <1>1, <2>2 DEF Listing!MostRecentFirst
    <3>2. /\ n \in [1 .. Count' -> Listing!rows']
          /\ \A i \in 1 .. Count' : Cardinality(Later(Listing!rows', n[i])) = i - 1
      <4>1. ListingTypes' => Ranked'
        BY ByTimeFacts, PTL
      <4> QED
        BY <3>1, <4>1 DEF Ranked
    <3>3. n[k] \in Listing!rows
      BY <1>2, <1>4, <3>2
    <3> DEFINE q == n[k]
               L == Later(Listing!rows, q)
               N == Later(Listing!rows', q)
               r == Cardinality(L)
    <3>4. r \in 0 .. Count - 1
      BY <1>0, <3>3, TimeRanks DEF Count
    <3>5. Cardinality(N) = k - 1
      BY <3>2
    <3>6. L \in SUBSET N /\ IsFiniteSet(N)
      <4>1. IsFiniteSet(Listing!rows')
        BY <1>0, <1>2, FS_AddElement
      <4> QED
        BY <1>2, <4>1, FS_Subset DEF Later
    <3>7. r <= k - 1
      BY <3>5, <3>6, FS_Subset
    <3>8. PICK j \in 1 .. Count : m[j] = q
      BY <3>3, OrderFacts
    <3>9. Cardinality(Later(Listing!rows, m[j])) = j - 1
      BY <3>1, ByTimeFacts DEF Ranked
    <3>10. j - 1 = r
      BY <3>8, <3>9
    <3>11. j <= k
      BY <1>0, <1>3, <3>4, <3>7, <3>10
    <3> QED
      BY <3>8, <3>11
  <2> QED
    BY <2>1, <2>2
<1> QED
  BY <1>1, <1>2, <1>3, <1>4

-----------------------------------------------------------------------------
(* The upload listing: its pages.                                          *)

\* Without an upload neither the records nor their order change.
LEMMA SameOrder ==
    ASSUME UNCHANGED <<repository, saved>>
    PROVE  /\ Listing!rows' = Listing!rows /\ Count' = Count
           /\ (Listing!MostRecentFirst)' = Listing!MostRecentFirst
<1>1. Listing!rows' = Listing!rows
  BY DEF Listing!rows
<1> QED
  BY <1>1 DEF Count, Listing!MostRecentFirst, Listing!Backwards, Listing!ByTime

\* The first state has its types.
LEMMA InitListingTypes == Listing!Init => ListingTypes
<1>1. <<>> \in Seq(Nat) /\ DOMAIN <<>> = {}
  BY EmptySeq, LenProperties
<1> SUFFICES ASSUME Listing!Init
             PROVE  ListingTypes
  OBVIOUS
<1>2. saved = <<>> /\ got = <<>> /\ first = {}
  BY DEF Listing!Init
<1>3. IsInjective(saved)
  BY <1>1, <1>2 DEF IsInjective
<1>4. /\ repository \in {"postgres", "memory"} /\ at = "idle" /\ offset = 0 /\ total = 0
      /\ raced = FALSE
  BY DEF Listing!Init
<1> QED
  BY <1>1, <1>2, <1>3, <1>4 DEF ListingTypes

\* A page of a list, from an offset within it.
LEMMA PageOfList ==
    ASSUME PageSize \in Nat, NEW T, NEW s \in Seq(T), NEW from \in 0 .. Len(s)
    PROVE  \E last \in from .. Len(s) :
              /\ Listing!Page(s, from) \in Seq(T)
              /\ Len(Listing!Page(s, from)) = last - from
              /\ \A i \in 1 .. last - from : Listing!Page(s, from)[i] = s[from + i]
              /\ last = Len(s) \/ last = from + PageSize
<1> DEFINE last == IF from + PageSize < Len(s) THEN from + PageSize ELSE Len(s)
           page == Listing!Page(s, from)
<1>0. Len(s) \in Nat
  BY LenProperties
<1>1. last \in from .. Len(s) /\ (last = Len(s) \/ last = from + PageSize)
  BY <1>0
<1>2. page = SubSeq(s, from + 1, last)
  BY DEF Listing!Page
<1> HIDE DEF last
<1>3. /\ from + 1 \in Int /\ last \in Int
      /\ \A i \in from + 1 .. last : i \in 1 .. Len(s)
  BY <1>0, <1>1
<1>4. \A i \in from + 1 .. last : s[i] \in T
  BY <1>3, ElementOfSeq
<1>5. /\ SubSeq(s, from + 1, last) \in Seq(T)
      /\ Len(SubSeq(s, from + 1, last))
            = IF from + 1 <= last THEN last - (from + 1) + 1 ELSE 0
      /\ \A i \in 1 .. last - (from + 1) + 1 :
            SubSeq(s, from + 1, last)[i] = s[(from + 1) + i - 1]
  BY <1>3, <1>4, SubSeqProperties
<1>6. /\ last - (from + 1) + 1 = last - from
      /\ ~(from + 1 <= last) => last - from = 0
      /\ \A i \in 1 .. last - from : (from + 1) + i - 1 = from + i
  BY <1>1, <1>3
<1> QED
  BY <1>1, <1>2, <1>5, <1>6

\* An answer hands over the records from the offset to some place, and the client
\* goes on there if the count is larger.
LEMMA AnswerFacts ==
    ASSUME PageSize \in Nat, ListingTypes, offset <= Count, NEW n \in Nat,
           Listing!Answer(n)
    PROVE  /\ UNCHANGED <<repository, saved, first, raced>>
           /\ got' \in Seq(Nat)
           /\ \E last \in offset .. Count :
                 /\ Len(got') = Len(got) + (last - offset)
                 /\ \A i \in 1 .. Len(got) : got'[i] = got[i]
                 /\ \A i \in 1 .. last - offset :
                       got'[Len(got) + i] = Listing!MostRecentFirst[offset + i]
                 /\ \/ last < n /\ at' = "count" /\ offset' = last
                    \/ ~(last < n) /\ at' = "done" /\ offset' = offset
<1> DEFINE m == Listing!MostRecentFirst
           page == Listing!Page(m, offset)
<1>0. /\ m \in Seq(Listing!rows) /\ Len(m) = Count /\ Count \in Nat
      /\ Listing!rows \in SUBSET Nat
  BY OrderFacts, RowsFacts
<1>1. m \in Seq(Nat) /\ offset \in 0 .. Len(m) /\ offset \in Nat
  <2>1. m \in Seq(Nat)
    BY <1>0, SeqMonotonic
  <2>2. offset \in Nat
    BY DEF ListingTypes
  <2> HIDE DEF m
  <2> QED
    BY <1>0, <2>1, <2>2
<1>2. /\ UNCHANGED <<repository, saved, first, raced>> /\ got' = got \o page
      /\ \/ offset + Len(page) < n /\ at' = "count" /\ offset' = offset + Len(page)
         \/ ~(offset + Len(page) < n) /\ at' = "done" /\ offset' = offset
  BY DEF Listing!Answer, Listing!NextOffset, Listing!HasNext
<1> HIDE DEF m
<1>3. PICK last \in offset .. Len(m) :
         /\ page \in Seq(Nat) /\ Len(page) = last - offset
         /\ \A i \in 1 .. last - offset : page[i] = m[offset + i]
  BY <1>1, PageOfList
<1> HIDE DEF page
<1>4. offset + Len(page) = last /\ last \in offset .. Count
  BY <1>0, <1>1, <1>3
<1>5. got \in Seq(Nat) /\ Len(got) \in Nat
  BY LenProperties DEF ListingTypes
<1>6. /\ got' \in Seq(Nat) /\ Len(got') = Len(got) + (last - offset)
      /\ \A i \in 1 .. Len(got) + (last - offset) :
            got'[i] = IF i <= Len(got) THEN got[i] ELSE page[i - Len(got)]
  <2>1. /\ got \o page \in Seq(Nat) /\ Len(got \o page) = Len(got) + Len(page)
        /\ \A i \in 1 .. Len(got) + Len(page) :
              (got \o page)[i] = IF i <= Len(got) THEN got[i] ELSE page[i - Len(got)]
    BY <1>3, <1>5, ConcatProperties
  <2>2. Len(page) = last - offset
    BY <1>3
  <2> QED
    BY <1>2, <2>1, <2>2
<1>7. \A i \in 1 .. Len(got) : got'[i] = got[i]
  <2>1. \A i \in 1 .. Len(got) : i \in 1 .. Len(got) + (last - offset) /\ i <= Len(got)
    BY <1>1, <1>4, <1>5
  <2> QED
    BY <1>6, <2>1
<1>8. ASSUME NEW i \in 1 .. last - offset
      PROVE  got'[Len(got) + i] = m[offset + i]
  <2> DEFINE j == Len(got) + i
  <2>1. j \in 1 .. Len(got) + (last - offset) /\ ~(j <= Len(got)) /\ j - Len(got) = i
    BY <1>1, <1>4, <1>5
  <2> HIDE DEF j
  <2>2. got'[j] = page[i]
    BY <1>6, <2>1
  <2> QED
    BY <1>3, <2>2 DEF j
<1> QED
  BY <1>2, <1>4, <1>6, <1>7, <1>8 DEF m

\* Every step preserves the types.
LEMMA NextListingTypes ==
    ASSUME PageSize \in Nat, ListingTypes, at \in {"count", "find"} => offset <= Count,
           [Listing!Next]_(Listing!vars)
    PROVE  ListingTypes'
<1>1. ASSUME NEW p \in Listing!Photos, Listing!Save(p)
      PROVE  ListingTypes'
  <2>1. p \in Nat /\ saved' = Append(saved, p) /\ p \notin Listing!rows
    BY <1>1 DEF Listing!Save, Listing!Indexed, Listing!Photos
  <2>2. /\ saved' \in Seq(Nat) /\ Len(saved') = Len(saved) + 1 /\ Len(saved) \in Nat
        /\ \A i \in 1 .. Len(saved) : saved'[i] = saved[i]
        /\ saved'[Len(saved) + 1] = p
    BY <2>1, AppendProperties, LenProperties DEF ListingTypes
  <2>3. DOMAIN saved' = 1 .. Len(saved) + 1 /\ DOMAIN saved = 1 .. Len(saved)
    BY <2>2, LenProperties DEF ListingTypes
  <2>4. \A i \in 1 .. Len(saved) : saved[i] \in Listing!rows
    BY <2>3, SameLibrary DEF Listing!rows, ToSet
  <2>5. \A i \in 1 .. Len(saved) + 1 : i \in 1 .. Len(saved) \/ i = Len(saved) + 1
    BY <2>2
  <2>6. IsInjective(saved')
    <3> SUFFICES ASSUME NEW i \in 1 .. Len(saved) + 1, NEW j \in 1 .. Len(saved) + 1,
                        saved'[i] = saved'[j]
                 PROVE  i = j
      BY <2>3 DEF IsInjective
    <3>1. CASE i \in 1 .. Len(saved) /\ j \in 1 .. Len(saved)
      BY <2>2, <2>3, <3>1 DEF ListingTypes, IsInjective
    <3>2. CASE i = Len(saved) + 1 /\ j \in 1 .. Len(saved)
      BY <2>1, <2>2, <2>4, <3>2
    <3>3. CASE j = Len(saved) + 1 /\ i \in 1 .. Len(saved)
      BY <2>1, <2>2, <2>4, <3>3
    <3> QED
      BY <2>5, <3>1, <3>2, <3>3
  <2>7. Listing!rows \subseteq Listing!rows'
    <3>1. \A i \in 1 .. Len(saved) : i \in DOMAIN saved' /\ saved'[i] = saved[i]
      BY <2>2, <2>3
    <3> QED
      BY <2>3, <3>1, SameLibrary DEF Listing!rows, ToSet
  <2> QED
    BY <1>1, <2>2, <2>6, <2>7 DEF Listing!Save, ListingTypes
<1>2. CASE Listing!Ask
  BY <1>2, SameOrder DEF Listing!Ask, ListingTypes
<1>3. CASE Listing!Count
  <2>1. total' \in Nat
    BY <1>3, RowsFacts, SameLibrary DEF Listing!Count, Count
  <2> QED
    BY <1>3, <2>1, SameOrder DEF Listing!Count, ListingTypes
<1>4. ASSUME NEW n \in Nat, Listing!Answer(n), offset <= Count, total' \in Nat
      PROVE  ListingTypes'
  <2>1. /\ UNCHANGED <<repository, saved, first, raced>> /\ got' \in Seq(Nat)
        /\ at' \in {"count", "done"} /\ offset' \in Nat
    <3>1. Count \in Nat /\ offset \in Nat
      BY RowsFacts DEF ListingTypes
    <3>2. \A last \in offset .. Count : last \in Nat
      BY <3>1
    <3> QED
      BY <1>4, <3>1, <3>2, AnswerFacts
  <2> QED
    BY <1>4, <2>1, SameOrder DEF ListingTypes
<1>5. CASE Listing!Find
  BY <1>4, <1>5 DEF Listing!Find, ListingTypes
<1>6. CASE Listing!ListByGallery
  <2>1. total' \in Nat
    BY <1>6, RowsFacts, SameLibrary DEF Listing!ListByGallery, Count
  <2> QED
    BY <1>4, <1>6, <2>1 DEF Listing!ListByGallery
<1>7. CASE UNCHANGED Listing!vars
  BY <1>7, SameOrder DEF Listing!vars, ListingTypes
<1> QED
  BY <1>1, <1>2, <1>3, <1>5, <1>6, <1>7 DEF Listing!Next

-----------------------------------------------------------------------------
(* The upload listing: its invariants.                                     *)

\* Nothing has been asked for yet.
NotAsked == at = "idle" => got = <<>> /\ offset = 0

\* The offset is within the records, which are never deleted, and a count that no
\* upload has overtaken is right.
InRange ==
    /\ at \in {"count", "find"} => offset <= Count
    /\ at = "find" /\ ~raced => total = Count

\* While there are no uploads, what the client has is the beginning of the order.
Prefix ==
    /\ Len(got) <= Count
    /\ \A i \in 1 .. Len(got) : got[i] = Listing!MostRecentFirst[i]
    /\ at \in {"count", "find"} => offset = Len(got)
    /\ at = "find" => total = Count
    /\ at = "done" => Len(got) = Count

Tiling == at # "idle" /\ Listing!rows = first => Prefix

\* Whatever there was and is before the offset now has been sent.
Covered ==
    ~raced =>
        /\ at \in {"count", "find"} =>
             \A k \in 1 .. offset : Listing!MostRecentFirst[k] \in first =>
                 Listing!MostRecentFirst[k] \in ToSet(got)
        /\ at = "done" => first \subseteq ToSet(got)

ListingInv == ListingTypes /\ NotAsked /\ InRange /\ Tiling /\ Covered

\* The client has asked for nothing.
LEMMA InitListing == Listing!Init => ListingInv
<1> SUFFICES ASSUME Listing!Init
             PROVE  ListingInv
  OBVIOUS
<1>1. at = "idle" /\ got = <<>> /\ offset = 0
  BY DEF Listing!Init
<1> QED
  BY <1>1, InitListingTypes DEF ListingInv, NotAsked, InRange, Tiling, Covered

\* An upload saves a record: not all there is was there from the start any more, and
\* what was before the offset is now before it or at most one place behind.
LEMMA SaveListing ==
    ASSUME ListingInv, ListingTypes', NEW p \in Listing!Photos, Listing!Save(p)
    PROVE  ListingInv'
<1>0. p \in Nat /\ Count \in Nat /\ offset \in Nat
  BY RowsFacts DEF Listing!Photos, ListingInv, ListingTypes
<1>1. /\ Listing!rows' = Listing!rows \cup {p} /\ p \notin Listing!rows
      /\ Count' = Count + 1
      /\ \A k \in 1 .. Count' : (Listing!MostRecentFirst)'[k] # p =>
            \E j \in 1 .. Count :
               j <= k /\ Listing!MostRecentFirst[j] = (Listing!MostRecentFirst)'[k]
  BY <1>0, SaveShifts DEF ListingInv
<1>2. /\ UNCHANGED <<at, offset, total, got, first>>
      /\ raced' = (raced \/ at = "find")
  BY DEF Listing!Save
<1>3. first \subseteq Listing!rows
  BY DEF ListingInv, ListingTypes
<1>4. NotAsked'
  BY <1>2 DEF ListingInv, NotAsked
<1>5. InRange'
  <2>1. at' = "find" => raced'
    BY <1>2
  <2>2. at' \in {"count", "find"} => offset' <= Count'
    BY <1>0, <1>1, <1>2 DEF ListingInv, InRange
  <2> QED
    BY <2>1, <2>2 DEF InRange
<1>6. Tiling'
  BY <1>1, <1>2, <1>3 DEF Tiling
<1>7. Covered'
  <2> SUFFICES ASSUME ~raced'
               PROVE  Covered'
    BY DEF Covered
  <2>1. ~raced
    BY <1>2
  <2>2. ASSUME at' \in {"count", "find"}, NEW k \in 1 .. offset',
               (Listing!MostRecentFirst)'[k] \in first'
        PROVE  (Listing!MostRecentFirst)'[k] \in ToSet(got')
    <3>1. offset <= Count /\ offset' = offset /\ at' = at /\ got' = got
      BY <1>2, <2>2 DEF ListingInv, InRange
    <3>2. k \in 1 .. Count' /\ (Listing!MostRecentFirst)'[k] # p
      BY <1>0, <1>1, <1>2, <1>3, <2>2, <3>1
    <3>3. PICK j \in 1 .. Count :
             j <= k /\ Listing!MostRecentFirst[j] = (Listing!MostRecentFirst)'[k]
      BY <1>1, <3>2
    <3>4. j \in 1 .. offset
      BY <1>0, <2>2, <3>1, <3>3
    <3> QED
      BY <1>2, <2>1, <2>2, <3>1, <3>3, <3>4 DEF ListingInv, Covered
  <2>3. at' = "done" => first' \subseteq ToSet(got')
    BY <1>2, <2>1 DEF ListingInv, Covered
  <2> QED
    BY <2>2, <2>3 DEF Covered
<1> QED
  BY <1>4, <1>5, <1>6, <1>7 DEF ListingInv

\* The client asks for the first page.
LEMMA AskListing ==
    ASSUME ListingInv, ListingTypes', Listing!Ask
    PROVE  ListingInv'
<1>1. /\ got' = <<>> /\ offset' = 0 /\ at' = "count" /\ first' = Listing!rows
      /\ UNCHANGED <<repository, saved, raced>>
  BY DEF Listing!Ask, ListingInv, NotAsked
<1>2. Count' = Count /\ Count \in Nat
  BY <1>1, SameOrder, RowsFacts DEF ListingInv
<1>3. Len(got') = 0 /\ 1 .. 0 = {}
  BY <1>1
<1>4. NotAsked' /\ InRange'
  BY <1>1, <1>2 DEF NotAsked, InRange
<1>5. Tiling'
  BY <1>1, <1>2, <1>3 DEF Tiling, Prefix
<1>6. Covered'
  BY <1>1, <1>3 DEF Covered
<1> QED
  BY <1>4, <1>5, <1>6 DEF ListingInv

\* The COUNT of a page.
LEMMA CountListing ==
    ASSUME ListingInv, ListingTypes', Listing!Count
    PROVE  ListingInv'
<1>1. /\ at = "count" /\ at' = "find" /\ total' = Count
      /\ UNCHANGED <<repository, saved, offset, got, first, raced>>
  BY SameLibrary DEF Listing!Count, Count
<1>2. /\ Listing!rows' = Listing!rows /\ Count' = Count
      /\ (Listing!MostRecentFirst)' = Listing!MostRecentFirst
  BY <1>1, SameOrder
<1>3. NotAsked' /\ InRange'
  BY <1>1, <1>2 DEF ListingInv, NotAsked, InRange
<1>4. Tiling'
  BY <1>1, <1>2 DEF ListingInv, Tiling, Prefix
<1>5. Covered'
  BY <1>1, <1>2 DEF ListingInv, Covered
<1> QED
  BY <1>3, <1>4, <1>5 DEF ListingInv

\* The answer of a page whose count is right unless an upload has overtaken it.
LEMMA AnswerListing ==
    ASSUME PageSize \in Nat, ListingInv, ListingTypes', at \in {"count", "find"},
           NEW n \in Nat, Listing!Answer(n),
           ~raced \/ Listing!rows = first => n = Count
    PROVE  ListingInv'
<1> DEFINE m == Listing!MostRecentFirst
<1>0. /\ Count \in Nat /\ offset \in Nat /\ offset <= Count
      /\ got \in Seq(Nat) /\ Len(got) \in Nat /\ DOMAIN got = 1 .. Len(got)
  BY RowsFacts, LenProperties DEF ListingInv, InRange, ListingTypes
<1>1. /\ UNCHANGED <<repository, saved, first, raced>> /\ got' \in Seq(Nat)
  BY <1>0, AnswerFacts DEF ListingInv
<1>2. PICK last \in offset .. Count :
         /\ Len(got') = Len(got) + (last - offset)
         /\ \A i \in 1 .. Len(got) : got'[i] = got[i]
         /\ \A i \in 1 .. last - offset : got'[Len(got) + i] = m[offset + i]
         /\ \/ last < n /\ at' = "count" /\ offset' = last
            \/ ~(last < n) /\ at' = "done" /\ offset' = offset
  BY <1>0, AnswerFacts DEF ListingInv
<1>3. /\ Listing!rows' = Listing!rows /\ Count' = Count /\ (Listing!MostRecentFirst)' = m
  BY <1>1, SameOrder
<1>4. DOMAIN got' = 1 .. Len(got')
  BY <1>1, LenProperties
<1>5. /\ Listing!rows \in SUBSET Nat
      /\ \A q \in Listing!rows : \E k \in 1 .. Count : m[k] = q
  BY RowsFacts, OrderFacts DEF ListingInv
<1> HIDE DEF m
<1>6. ToSet(got) \subseteq ToSet(got')
  <2>1. \A i \in 1 .. Len(got) : i \in 1 .. Len(got')
    BY <1>0, <1>2
  <2> QED
    BY <1>0, <1>2, <1>4, <2>1 DEF ToSet
<1>7. ASSUME NEW k \in 1 .. last, ~(k <= offset)
      PROVE  m[k] \in ToSet(got')
  <2> DEFINE i == k - offset
             j == Len(got) + i
  <2>1. i \in 1 .. last - offset /\ offset + i = k /\ j \in 1 .. Len(got')
    BY <1>0, <1>2, <1>7
  <2> HIDE DEF i
  <2>2. got'[j] = m[k]
    BY <1>2, <2>1
  <2> HIDE DEF j
  <2> QED
    BY <1>4, <2>1, <2>2 DEF ToSet
<1>8. NotAsked' /\ InRange'
  <2>1. at' \in {"count", "done"} /\ (at' = "count" => offset' <= Count')
    BY <1>0, <1>2, <1>3
  <2> QED
    BY <2>1 DEF NotAsked, InRange
<1>9. Tiling'
  <2> SUFFICES ASSUME Listing!rows = first
               PROVE  Prefix'
    BY <1>1, <1>3 DEF Tiling
  <2>1. Prefix /\ n = Count /\ offset = Len(got)
    BY DEF ListingInv, Tiling, Prefix
  <2>2. Len(got') = last
    BY <1>0, <1>2, <2>1
  <2>3. ASSUME NEW i \in 1 .. last
        PROVE  got'[i] = m[i]
    <3>1. CASE i <= Len(got)
      <4>1. i \in 1 .. Len(got)
        BY <1>0, <3>1
      <4> QED
        BY <1>2, <2>1, <4>1 DEF Prefix, m
    <3>2. CASE ~(i <= Len(got))
      <4> DEFINE j == i - offset
      <4>1. j \in 1 .. last - offset /\ Len(got) + j = i /\ offset + j = i
        BY <1>0, <1>2, <2>1, <3>2
      <4> HIDE DEF j
      <4> QED
        BY <1>2, <4>1
    <3> QED
      BY <3>1, <3>2
  <2>4. /\ last <= Count
        /\ at' \in {"count", "done"}
        /\ at' = "count" => offset' = last
        /\ at' = "done" => last = Count
    BY <1>0, <1>2, <2>1
  <2> QED
    BY <1>3, <2>2, <2>3, <2>4 DEF Prefix
<1>10. Covered'
  <2> SUFFICES ASSUME ~raced
               PROVE  Covered'
    BY <1>1 DEF Covered
  <2>1. n = Count
    OBVIOUS
  <2>2. \A k \in 1 .. offset : m[k] \in first => m[k] \in ToSet(got')
    BY <1>6 DEF ListingInv, Covered, m
  <2>3. \A k \in 1 .. last : m[k] \in first => m[k] \in ToSet(got')
    <3> SUFFICES ASSUME NEW k \in 1 .. last, m[k] \in first
                 PROVE  m[k] \in ToSet(got')
      OBVIOUS
    <3>1. k <= offset => k \in 1 .. offset
      BY <1>0
    <3> QED
      BY <1>7, <2>2, <3>1
  <2>4. CASE last < n
    BY <1>1, <1>2, <1>3, <2>3, <2>4 DEF Covered
  <2>5. CASE ~(last < n)
    <3>1. last = Count
      BY <1>0, <1>2, <2>1, <2>5
    <3>2. first \subseteq ToSet(got')
      BY <1>5, <2>3, <3>1 DEF ListingInv, ListingTypes
    <3> QED
      BY <1>1, <1>2, <2>5, <3>2 DEF Covered
  <2> QED
    BY <2>4, <2>5
<1> QED
  BY <1>8, <1>9, <1>10 DEF ListingInv

\* Every step preserves the invariant.
LEMMA NextListing ==
    ASSUME PageSize \in Nat, ListingInv, [Listing!Next]_(Listing!vars)
    PROVE  ListingInv'
<1>1. ListingTypes'
  BY NextListingTypes DEF ListingInv, InRange
<1>2. CASE Listing!Find
  <2>1. /\ at = "find" /\ Listing!Answer(total) /\ total \in Nat
        /\ ~raced \/ Listing!rows = first => total = Count
    BY <1>2 DEF Listing!Find, ListingInv, ListingTypes, InRange, Tiling, Prefix
  <2> QED
    BY <1>1, <2>1, AnswerListing
<1>3. CASE Listing!ListByGallery
  <2>1. at = "count" /\ Listing!Answer(Count) /\ Count \in Nat
    BY <1>3, SameLibrary, RowsFacts DEF Listing!ListByGallery, ListingInv, Count
  <2> QED
    BY <1>1, <2>1, AnswerListing
<1>4. CASE UNCHANGED Listing!vars
  <2>1. /\ Listing!rows' = Listing!rows /\ Count' = Count
        /\ (Listing!MostRecentFirst)' = Listing!MostRecentFirst
    BY <1>4, SameOrder DEF Listing!vars
  <2>2. UNCHANGED <<at, offset, total, got, first, raced>>
    BY <1>4 DEF Listing!vars
  <2>3. NotAsked' /\ InRange'
    BY <2>1, <2>2 DEF ListingInv, NotAsked, InRange
  <2>4. Tiling'
    BY <2>1, <2>2 DEF ListingInv, Tiling, Prefix
  <2>5. Covered'
    BY <2>1, <2>2 DEF ListingInv, Covered
  <2> QED
    BY <1>1, <2>3, <2>4, <2>5 DEF ListingInv
<1> QED
  BY <1>1, <1>2, <1>3, <1>4, SaveListing, AskListing, CountListing DEF Listing!Next

\* The invariant holds, for any bound on the photos and any page size.
LEMMA ListingInvariant ==
    ASSUME Listing!BoundsAssumption
    PROVE  Listing!Spec => []ListingInv
<1>1. PageSize \in Nat
  BY DEF Listing!BoundsAssumption
<1>2. ListingInv /\ [Listing!Next]_(Listing!vars) => ListingInv'
  BY <1>1, NextListing
<1> QED
  BY <1>2, InitListing, PTL DEF Listing!Spec

\* Without uploads meanwhile the pages make up the gallery: every record once, most
\* recent first.
THEOREM PagesAlwaysTile ==
    ASSUME Listing!BoundsAssumption
    PROVE  Listing!Spec => []Listing!PagesTile
<1>1. ListingInv => Listing!PagesTile
  <2> SUFFICES ASSUME ListingInv, at = "done", Listing!rows = first
               PROVE  got = Listing!MostRecentFirst
    BY DEF Listing!PagesTile
  <2>1. /\ Len(got) = Count /\ \A i \in 1 .. Len(got) : got[i] = Listing!MostRecentFirst[i]
    BY DEF ListingInv, Tiling, Prefix
  <2>2. /\ Listing!MostRecentFirst \in Seq(Nat) /\ Len(Listing!MostRecentFirst) = Count
    BY OrderFacts, RowsFacts, SeqMonotonic DEF ListingInv
  <2>3. got \in Seq(Nat)
    BY DEF ListingInv, ListingTypes
  <2> QED
    BY <2>1, <2>2, <2>3, SeqEqual
<1> QED
  BY <1>1, ListingInvariant, PTL

\* No record that was there when the client began is passed over, unless one is saved
\* between the COUNT and the SELECT of a page.
THEOREM NoneEverSkipped ==
    ASSUME Listing!BoundsAssumption
    PROVE  Listing!Spec => []Listing!NoneSkipped
<1>1. ListingInv => Listing!NoneSkipped
  <2> SUFFICES ASSUME ListingInv, at = "done", ~raced, NEW p \in first
               PROVE  \E i \in DOMAIN got : got[i] = p
    BY DEF Listing!NoneSkipped
  <2>1. p \in ToSet(got)
    BY DEF ListingInv, Covered
  <2> QED
    BY <2>1 DEF ToSet
<1> QED
  BY <1>1, ListingInvariant, PTL

\* The repository in memory answers under its lock.
Locked == repository = "memory" => at # "find" /\ ~raced

LEMMA NextLocked == Locked /\ [Listing!Next]_(Listing!vars) => Locked'
<1> SUFFICES ASSUME Locked, [Listing!Next]_(Listing!vars)
             PROVE  Locked'
  OBVIOUS
<1>1. ASSUME NEW p \in Listing!Photos, Listing!Save(p)
      PROVE  Locked'
  BY <1>1 DEF Listing!Save, Locked
<1>2. CASE Listing!Ask
  BY <1>2 DEF Listing!Ask, Locked
<1>3. CASE Listing!Count
  BY <1>3 DEF Listing!Count, Locked
<1>4. CASE Listing!Find
  BY <1>4 DEF Listing!Find, Listing!Answer, Locked
<1>5. CASE Listing!ListByGallery
  BY <1>5 DEF Listing!ListByGallery, Listing!Answer, Locked
<1>6. CASE UNCHANGED Listing!vars
  BY <1>6 DEF Listing!vars, Locked
<1> QED
  BY <1>1, <1>2, <1>3, <1>4, <1>5, <1>6 DEF Listing!Next

\* With the repository in memory none is passed over, whatever is saved meanwhile.
THEOREM NoneSkippedInMemory ==
    ASSUME Listing!BoundsAssumption
    PROVE  Listing!Spec =>
              [](repository = "memory" /\ at = "done" =>
                    \A p \in first : \E i \in DOMAIN got : got[i] = p)
<1>1. Listing!Init => Locked
  BY DEF Listing!Init, Locked
<1>2. Listing!Spec => []Locked
  BY <1>1, NextLocked, PTL DEF Listing!Spec
<1>3. Locked /\ Listing!NoneSkipped =>
         (repository = "memory" /\ at = "done" =>
             \A p \in first : \E i \in DOMAIN got : got[i] = p)
  BY DEF Locked, Listing!NoneSkipped
<1> QED
  BY <1>2, <1>3, NoneEverSkipped, PTL
=============================================================================
