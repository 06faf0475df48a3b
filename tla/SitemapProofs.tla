---------------------------- MODULE SitemapProofs ----------------------------
(***************************************************************************)
(* Proofs about Sitemap, for any sites, any bound on the children of an    *)
(* index and any cap on the pages, negative ones included.                 *)
(***************************************************************************)
EXTENDS Sitemap, FiniteSetTheorems, SequenceTheorems, WellFoundedInduction, TLAPS

(* out has each of the first n elements of seq once, in the order in which   *)
(* they first occur.                                                         *)
Lists(out, seq, n) ==
  /\ out \in Seq(Url) /\ IsInjective(out)
  /\ ToSet(out) = {seq[i] : i \in 1..n}
  /\ \A k, l \in DOMAIN out, q \in 1..n :
       k < l /\ seq[q] = out[l] => \E p \in 1..(q - 1) : seq[p] = out[k]

(* The requests made are the first children of the root, in order.           *)
Requested ==
  /\ pc = "root" => read = <<>> /\ next = 1
  /\ pc # "root" =>
       /\ Len(read) = next
       /\ children = Considered(ChildrenOf(read[1].doc))
       /\ \A i \in 1..(next - 1) : read[i + 1].url = children[i]
       /\ read[1].doc.kind = "none" => pc = "done" /\ ordered = <<>>

(* Up to Return the pages so far are all that the documents list, after it   *)
(* their slice; it returns when it is through or has enough.                 *)
Gathered ==
  /\ pc = "children" => ordered = Listed
  /\ Discovered =>
       /\ ordered = Slice(Listed, maxUrls)
       /\ truncated <=> Len(Listed) > maxUrls
       /\ next > Len(children) \/ Len(Listed) >= maxUrls

IInv == TypeOK /\ Requested /\ Gathered

-----------------------------------------------------------------------------
(* A set of naturals that is not empty has a least element.                 *)
LEMMA Least ==
  ASSUME NEW T \in SUBSET Nat, T # {}
  PROVE  \E m \in T : \A k \in T : m <= k
<1> DEFINE R == {p \in Nat \X Nat : p[1] < p[2]}
<1>1. IsWellFoundedOn(R, Nat)
  BY NatLessThanWellFounded DEF OpToRel
<1> HIDE DEF R
<1>2. PICK m \in T : \A k \in T : <<k, m>> \notin R
  BY <1>1, WFMin
<1>3. \A k \in T : <<k, m>> \notin R => m <= k
  BY DEF R
<1> QED BY <1>2, <1>3

(* What holds of 0, and of n + 1 when it holds of n, holds of all naturals. *)
LEMMA Induction ==
  ASSUME NEW S, 0 \in S, \A n \in Nat : n \in S => n + 1 \in S
  PROVE  Nat \subseteq S
<1> SUFFICES ASSUME Nat \ S # {} PROVE FALSE
  OBVIOUS
<1>1. PICK m \in Nat \ S : \A k \in Nat \ S : m <= k
  BY Least
<1>2. m # 0
  BY <1>1
<1>3. m - 1 \in Nat /\ m - 1 \notin Nat \ S
  BY <1>1, <1>2
<1> QED BY <1>3

(* A set of places that is not empty has a greatest one. *)
LEMMA MaxIs ==
  ASSUME NEW n \in Nat, NEW s \in SUBSET (1..n), s # {}
  PROVE  Max(s) \in s /\ \A k \in s : k <= Max(s)
<1>1. PICK d \in {n - k : k \in s} : \A e \in {n - k : k \in s} : d <= e
  <2>1. \A k \in s : n - k \in Nat
    OBVIOUS
  <2>2. {n - k : k \in s} \in SUBSET Nat /\ {n - k : k \in s} # {}
    BY <2>1
  <2> QED BY <2>2, Least
<1>2. \E m \in s : \A k \in s : k <= m
  <2>1. PICK m \in s : d = n - m
    BY <1>1
  <2>2. ASSUME NEW k \in s PROVE k <= m
    <3>1. n - m <= n - k
      BY <1>1, <2>1
    <3> QED BY <3>1
  <2> QED BY <2>2
<1>3. PICK m \in s : \A k \in s : m >= k
  BY <1>2
<1> QED BY <1>3 DEF Max


-----------------------------------------------------------------------------
(* The places of a set in ascending order.                                   *)
LEMMA Ranking ==
  ASSUME NEW n \in Nat, NEW places \in SUBSET (1..n)
  PROVE  LET rank(i) == Cardinality({j \in places : j < i})
         IN  /\ Cardinality(places) \in Nat
             /\ \A i \in places : rank(i) \in 0..(Cardinality(places) - 1)
             /\ \A i, j \in places : i < j => rank(i) < rank(j)
             /\ \A k \in 1..Cardinality(places) : \E i \in places : rank(i) = k - 1
<1> DEFINE below(i) == {j \in places : j < i}
           rank(i) == Cardinality(below(i))
           N == Cardinality(places)
<1>0. \A i \in places : i \in Nat
  OBVIOUS
<1>1. IsFiniteSet(places) /\ N \in Nat
  <2>1. IsFiniteSet(1..n)
    BY FS_Interval
  <2>2. IsFiniteSet(places)
    BY <2>1, FS_Subset
  <2> QED BY <2>2, FS_CardinalityType
<1>2. ASSUME NEW i \in places
      PROVE  IsFiniteSet(below(i)) /\ rank(i) \in 0..(N - 1)
  <2>1. below(i) \in SUBSET places /\ below(i) # places
    OBVIOUS
  <2>2. IsFiniteSet(below(i)) /\ rank(i) <= N /\ rank(i) # N
    BY <1>1, <2>1, FS_Subset
  <2>3. rank(i) \in Nat
    BY <2>2, FS_CardinalityType
  <2> HIDE DEF rank, N
  <2> QED BY <1>1, <2>2, <2>3
<1>3. ASSUME NEW i \in places, NEW j \in places, i < j PROVE rank(i) < rank(j)
  <2>1. below(i) \in SUBSET below(j) /\ below(i) # below(j)
    <3>1. \A h \in places : h < i => h < j
      BY <1>0, <1>3
    <3>2. i \in below(j) /\ i \notin below(i)
      BY <1>0, <1>3
    <3> QED BY <3>1, <3>2
  <2>2. rank(i) <= rank(j) /\ rank(i) # rank(j)
    BY <1>2, <2>1, FS_Subset
  <2>3. rank(i) \in Int /\ rank(j) \in Int
    BY <1>2
  <2> HIDE DEF rank
  <2> QED BY <2>2, <2>3
<1>5. \A i \in places : rank(i) \in 0..(N - 1)
  BY <1>2
<1>6. \A i, j \in places : i < j => rank(i) < rank(j)
  BY <1>3
<1>4. \A k \in 1..N : \E i \in places : rank(i) = k - 1
  <2> HIDE DEF rank, N
  <2> DEFINE f == [i \in places |-> rank(i) + 1]
  <2>1. f \in [places -> 1..N]
    BY <1>1, <1>5
  <2>2. \A i, j \in places : f[i] = f[j] => i = j
    <3> SUFFICES ASSUME NEW i \in places, NEW j \in places, f[i] = f[j] PROVE i = j
      OBVIOUS
    <3>1. rank(i) = rank(j) /\ rank(i) \in Int
      BY <1>1, <1>5
    <3>2. ~(i < j) /\ ~(j < i)
      BY <3>1, <1>6
    <3> QED BY <3>2, <1>0
  <2>3. f \in Injection(places, 1..N)
    BY <2>1, <2>2 DEF Injection, IsInjective
  <2>4. IsFiniteSet(1..N) /\ Cardinality(1..N) = N
    BY <1>1, FS_Interval
  <2>5. f \in Surjection(places, 1..N)
    <3> HIDE DEF f
    <3> QED BY <2>3, <2>4, FS_Injection DEF N
  <2>6. ASSUME NEW k \in 1..N PROVE \E i \in places : rank(i) = k - 1
    <3>1. PICK i \in places : f[i] = k
      BY <2>5 DEF Surjection
    <3> QED BY <3>1, <1>1, <1>5
  <2> QED BY <2>6
<1> QED BY <1>1, <1>4, <1>5, <1>6

(* Where AtPlaces finds what it lists.                                       *)
LEMMA AtPlacesParts ==
  ASSUME NEW pages \in Seq(Url), NEW places \in SUBSET DOMAIN pages
  PROVE  LET N == Cardinality(places)
         IN  /\ N \in Nat
             /\ \E sel \in [1..N -> places] :
                  /\ AtPlaces(pages, places) = [k \in 1..N |-> pages[sel[k]]]
                  /\ \A k, l \in 1..N : k < l => sel[k] < sel[l]
                  /\ \A i \in places : \E k \in 1..N : sel[k] = i
<1> DEFINE N == Cardinality(places)
           rank(i) == Cardinality({j \in places : j < i})
           Sel(k) == CHOOSE i \in places : rank(i) = k - 1
           sel == [k \in 1..N |-> Sel(k)]
<1>1. places \in SUBSET (1..Len(pages)) /\ Len(pages) \in Nat
  OBVIOUS
<1>2. /\ N \in Nat
      /\ \A i \in places : rank(i) \in 0..(N - 1)
      /\ \A i, j \in places : i < j => rank(i) < rank(j)
      /\ \A k \in 1..N : \E i \in places : rank(i) = k - 1
  BY <1>1, Ranking
<1>3. AtPlaces(pages, places) = [k \in 1..N |-> pages[sel[k]]]
  BY DEF AtPlaces
<1>9. \A i \in places : i \in Nat
  BY <1>1
<1> HIDE DEF rank, N
<1>4. ASSUME NEW k \in 1..N PROVE sel[k] \in places /\ rank(sel[k]) = k - 1
  BY <1>2
<1>5. sel \in [1..N -> places]
  BY <1>4
<1>6. \A k \in 1..N : sel[k] \in places /\ rank(sel[k]) = k - 1
  BY <1>4
<1> HIDE DEF sel
<1>7. ASSUME NEW k \in 1..N, NEW l \in 1..N, k < l PROVE sel[k] < sel[l]
  <2>1. rank(sel[k]) < rank(sel[l])
    BY <1>6, <1>7
  <2>2. rank(sel[k]) \in Int /\ rank(sel[l]) \in Int /\ sel[k] \in Nat /\ sel[l] \in Nat
    BY <1>2, <1>5, <1>9
  <2>3. sel[l] < sel[k] => rank(sel[l]) < rank(sel[k])
    BY <1>2, <1>6
  <2>4. ~(sel[l] < sel[k]) /\ sel[l] # sel[k]
    BY <2>1, <2>2, <2>3
  <2> QED BY <2>2, <2>4
<1>8. ASSUME NEW i \in places PROVE \E k \in 1..N : sel[k] = i
  <2>1. rank(i) + 1 \in 1..N /\ rank(i) \in Nat
    BY <1>2
  <2> DEFINE k == rank(i) + 1
  <2>2. rank(sel[k]) = rank(i) /\ sel[k] \in places
    BY <1>6, <2>1
  <2>3. ~(sel[k] < i) /\ ~(i < sel[k])
    BY <1>2, <2>1, <2>2
  <2> QED BY <1>9, <2>1, <2>2, <2>3
<1> QED BY <1>2, <1>3, <1>5, <1>7, <1>8 DEF N

(* A list of pages as it stands.                                             *)
LEMMA AtAllPlaces ==
  ASSUME NEW pages \in Seq(Url) PROVE AtPlaces(pages, DOMAIN pages) = pages
<1> DEFINE n == Len(pages)
           N == Cardinality(DOMAIN pages)
<1>1. DOMAIN pages = 1..n /\ n \in Nat
  OBVIOUS
<1>2. N = n
  BY <1>1, FS_Interval
<1>3. PICK sel \in [1..N -> DOMAIN pages] :
        /\ AtPlaces(pages, DOMAIN pages) = [k \in 1..N |-> pages[sel[k]]]
        /\ \A k, l \in 1..N : k < l => sel[k] < sel[l]
        /\ \A i \in DOMAIN pages : \E k \in 1..N : sel[k] = i
  BY AtPlacesParts
<1> HIDE DEF N, n
<1>4. \A k \in 1..n : sel[k] \in 1..n
  BY <1>1, <1>2, <1>3
(* Nothing is passed over on the way up.                                     *)
<1> DEFINE Good == {m \in Nat : \A k \in 1..n : k <= m => sel[k] = k}
<1>5. 0 \in Good
  OBVIOUS
<1>6. ASSUME NEW m \in Nat, m \in Good PROVE m + 1 \in Good
  <2> SUFFICES ASSUME m + 1 \in 1..n PROVE sel[m + 1] = m + 1
    BY <1>6
  <2>1. PICK k \in 1..n : sel[k] = m + 1
    BY <1>1, <1>2, <1>3
  <2>2. ~(k <= m)
    BY <1>6, <2>1
  <2>3. \A j \in 1..m : sel[j] = j
    BY <1>6, <1>1
  <2>4. k = m + 1 \/ m + 1 < k
    BY <2>2, <1>1
  <2>5. ASSUME m + 1 < k PROVE FALSE
    <3>1. sel[m + 1] < m + 1
      BY <1>2, <1>3, <2>1, <2>5
    <3>2. sel[m + 1] \in 1..m
      BY <3>1, <1>4
    <3>3. sel[sel[m + 1]] = sel[m + 1]
      BY <2>3, <3>2
    <3>4. sel[m + 1] \in 1..N /\ m + 1 \in 1..N
      BY <3>2, <1>2, <1>4
    <3>5. sel[sel[m + 1]] < sel[m + 1]
      BY <1>3, <3>1, <3>4
    <3> QED BY <3>3, <3>5, <1>4
  <2> QED BY <2>1, <2>4, <2>5
<1> HIDE DEF Good
<1>7. n \in Good
  BY <1>1, <1>5, <1>6, Induction
<1>8. \A k \in 1..n : sel[k] = k
  BY <1>7, <1>1 DEF Good
<1>9. AtPlaces(pages, DOMAIN pages) = [k \in 1..n |-> pages[k]]
  BY <1>2, <1>3, <1>8
<1> QED BY <1>1, <1>9

(* What is at its first places is what a sequence lists.                     *)
LEMMA FirstPlacesList ==
  ASSUME NEW pages \in Seq(Url)
  PROVE  Lists(AtPlaces(pages, FirstPlaces(pages)), pages, Len(pages))
<1> DEFINE places == FirstPlaces(pages)
           out == AtPlaces(pages, places)
           N == Cardinality(places)
           n == Len(pages)
<1>1. DOMAIN pages = 1..n /\ n \in Nat
  OBVIOUS
<1>2. places \in SUBSET DOMAIN pages
  BY DEF FirstPlaces
<1>3. N \in Nat
  BY <1>2, AtPlacesParts
<1>4. PICK sel \in [1..N -> places] :
        /\ out = [k \in 1..N |-> pages[sel[k]]]
        /\ \A k, l \in 1..N : k < l => sel[k] < sel[l]
        /\ \A i \in places : \E k \in 1..N : sel[k] = i
  BY <1>2, AtPlacesParts
<1>5. \A i \in places : i \in 1..n /\ \A j \in 1..(i - 1) : pages[j] # pages[i]
  BY <1>1 DEF FirstPlaces
<1>6. ASSUME NEW q \in 1..n PROVE \E i \in places : pages[i] = pages[q]
  <2> DEFINE T == {i \in 1..n : pages[i] = pages[q]}
  <2>1. T \in SUBSET Nat /\ T # {}
    OBVIOUS
  <2>2. PICK m \in T : \A k \in T : m <= k
    BY <2>1, Least
  <2>3. \A j \in 1..(m - 1) : pages[j] # pages[m]
    <3>1. \A j \in 1..(m - 1) : j \in 1..n /\ ~(m <= j)
      BY <2>2
    <3> QED BY <2>2, <3>1
  <2>4. m \in places
    BY <1>1, <2>3 DEF FirstPlaces
  <2> QED BY <2>4
<1> HIDE DEF places, n, N, out
<1>7. DOMAIN out = 1..N /\ \A k \in 1..N : out[k] = pages[sel[k]] /\ sel[k] \in places
  BY <1>4
<1>8. out \in Seq(Url)
  <2>1. \A k \in 1..N : pages[sel[k]] \in Url
    BY <1>1, <1>5, <1>7
  <2> QED BY <2>1, <1>3, <1>4, SeqDef
<1>9. IsInjective(out)
  <2> SUFFICES ASSUME NEW k \in 1..N, NEW l \in 1..N, k < l PROVE out[k] # out[l]
    BY <1>3, <1>7 DEF IsInjective
  <2>1. sel[k] < sel[l] /\ sel[k] \in 1..n /\ sel[l] \in 1..n
    BY <1>4, <1>5
  <2>2. sel[k] \in 1..(sel[l] - 1)
    BY <2>1, <1>1
  <2> QED BY <2>2, <1>5, <1>7
<1>10. ToSet(out) = {pages[i] : i \in 1..n}
  <2>1. \A k \in 1..N : \E i \in 1..n : out[k] = pages[i]
    BY <1>5, <1>7
  <2>2. ASSUME NEW q \in 1..n PROVE \E k \in 1..N : out[k] = pages[q]
    <3>1. PICK i \in places : pages[i] = pages[q]
      BY <1>6
    <3>2. PICK k \in 1..N : sel[k] = i
      BY <1>4
    <3> QED BY <3>1, <3>2, <1>7
  <2>3. ToSet(out) = {out[k] : k \in 1..N}
    BY <1>7 DEF ToSet
  <2> QED BY <2>1, <2>2, <2>3
<1>11. ASSUME NEW k \in 1..N, NEW l \in 1..N, NEW q \in 1..n, k < l, pages[q] = out[l]
       PROVE  \E p \in 1..(q - 1) : pages[p] = out[k]
  <2>1. sel[k] < sel[l] /\ sel[k] \in 1..n /\ sel[l] \in 1..n
    BY <1>4, <1>5, <1>11
  <2>2. q \notin 1..(sel[l] - 1)
    BY <1>5, <1>7, <1>11
  <2>3. sel[k] \in 1..(q - 1)
    BY <2>1, <2>2, <1>1
  <2> QED BY <2>3, <1>7
<1> QED BY <1>7, <1>8, <1>9, <1>10, <1>11 DEF Lists, n, out, places

(* There is one such list.                                                   *)
LEMMA ListIsUnique ==
  ASSUME NEW seq, NEW n \in Nat, NEW a, NEW b, Lists(a, seq, n), Lists(b, seq, n)
  PROVE  a = b
<1> USE DEF Lists
<1>1. /\ a \in Seq(Url) /\ b \in Seq(Url) /\ ToSet(a) = ToSet(b)
      /\ IsInjective(a) /\ IsInjective(b)
      /\ DOMAIN a = 1..Len(a) /\ Len(a) \in Nat /\ DOMAIN b = 1..Len(b) /\ Len(b) \in Nat
  OBVIOUS
<1>16. ToSet(a) = {a[k] : k \in 1..Len(a)} /\ ToSet(b) = {b[k] : k \in 1..Len(b)}
  <2>1. \A s \in Seq(Url) : ToSet(s) = {s[k] : k \in 1..Len(s)}
    BY DEF ToSet
  <2> QED BY <1>1, <2>1
<1>17. ToSet(a) = ToSet(b) /\ ToSet(a) = {seq[i] : i \in 1..n}
  OBVIOUS
<1>2. \A k \in 1..Len(a) : \E l \in 1..Len(b) : b[l] = a[k]
  <2> TAKE k \in 1..Len(a)
  <2>1. a[k] \in ToSet(a)
    BY <1>16
  <2> HIDE DEF Lists
  <2> QED BY <2>1, <1>16, <1>17
<1>3. \A k \in 1..Len(b) : \E l \in 1..Len(a) : a[l] = b[k]
  <2> TAKE k \in 1..Len(b)
  <2>1. b[k] \in ToSet(b)
    BY <1>16
  <2> HIDE DEF Lists
  <2> QED BY <2>1, <1>16, <1>17
<1>4. \A k, l \in 1..Len(a) : a[k] = a[l] => k = l
  BY <1>1 DEF IsInjective
<1>5. \A k, l \in 1..Len(b) : b[k] = b[l] => k = l
  BY <1>1 DEF IsInjective
<1>6. \A k \in 1..Len(a) : \E q \in 1..n : seq[q] = a[k]
  <2> TAKE k \in 1..Len(a)
  <2>1. a[k] \in ToSet(a)
    BY <1>16
  <2> HIDE DEF Lists
  <2> QED BY <2>1, <1>16, <1>17
<1>7. \A k, l \in 1..Len(a), q \in 1..n :
        k < l /\ seq[q] = a[l] => \E p \in 1..(q - 1) : seq[p] = a[k]
  BY <1>1
<1>8. \A k, l \in 1..Len(b), q \in 1..n :
        k < l /\ seq[q] = b[l] => \E p \in 1..(q - 1) : seq[p] = b[k]
  BY <1>1
<1> HIDE DEF Lists
<1> DEFINE Good == {m \in Nat : \A k \in 1..m : k \in 1..Len(a) /\ k \in 1..Len(b) => a[k] = b[k]}
<1>9. 0 \in Good
  OBVIOUS
<1>10. ASSUME NEW m \in Nat, m \in Good PROVE m + 1 \in Good
  <2> DEFINE k == m + 1
  <2> SUFFICES ASSUME k \in 1..Len(a), k \in 1..Len(b), a[k] # b[k] PROVE FALSE
    BY <1>10
  <2>1. \A i \in 1..m : i \in 1..Len(a) /\ i \in 1..Len(b) /\ a[i] = b[i]
    BY <1>1, <1>10
  <2>2. PICK l \in 1..Len(b) : b[l] = a[k]
    BY <1>2
  <2>3. PICK j \in 1..Len(a) : a[j] = b[k]
    BY <1>3
  <2>4. l \notin 1..m /\ l # k
    BY <2>1, <2>2, <1>4
  <2>5. j \notin 1..m /\ j # k
    BY <2>1, <2>3, <1>5
  <2>6. k < l /\ k < j
    BY <2>4, <2>5, <1>1
  <2> DEFINE T == {q \in 1..n : seq[q] = a[k]}
  <2>7. T \in SUBSET Nat /\ T # {}
    BY <1>6
  <2>8. PICK q \in T : \A p \in T : q <= p
    BY <2>7, Least
  <2>9. PICK p \in 1..(q - 1) : seq[p] = b[k]
    BY <1>8, <2>2, <2>6, <2>8
  <2>10. p \in 1..n /\ p < q
    BY <2>8, <2>9
  <2>11. PICK r \in 1..(p - 1) : seq[r] = a[k]
    BY <1>7, <2>3, <2>6, <2>9, <2>10
  <2>12. r \in T /\ r < q
    BY <2>10, <2>11, <2>8
  <2> QED BY <2>8, <2>12
<1> HIDE DEF Good
<1>11. \A m \in Nat : m \in Good
  BY <1>9, <1>10, Induction
<1>12. \A k \in 1..Len(a) : k \in 1..Len(b) => a[k] = b[k]
  <2> TAKE k \in 1..Len(a)
  <2>1. k \in Good /\ k \in 1..k
    BY <1>1, <1>11
  <2> QED BY <2>1 DEF Good
<1>13. ~(Len(b) < Len(a))
  <2> SUFFICES ASSUME Len(b) < Len(a) PROVE FALSE
    OBVIOUS
  <2>1. Len(a) \in 1..Len(a)
    BY <1>1
  <2>2. PICK l \in 1..Len(b) : b[l] = a[Len(a)]
    BY <1>2, <2>1
  <2>3. l \in 1..Len(a) /\ a[l] = a[Len(a)]
    BY <1>1, <1>12, <2>2
  <2> QED BY <2>1, <2>3, <1>1, <1>4
<1>14. ~(Len(a) < Len(b))
  <2> SUFFICES ASSUME Len(a) < Len(b) PROVE FALSE
    OBVIOUS
  <2>1. Len(b) \in 1..Len(b)
    BY <1>1
  <2>2. PICK l \in 1..Len(a) : a[l] = b[Len(b)]
    BY <1>3, <2>1
  <2>3. l \in 1..Len(b) /\ b[l] = b[Len(b)]
    BY <1>1, <1>12, <2>2
  <2> QED BY <2>1, <2>3, <1>1, <1>5
<1>15. Len(a) = Len(b)
  <2>1. Len(a) \in Nat /\ Len(b) \in Nat
    BY <1>1
  <2> QED BY <2>1, <1>13, <1>14
<1> QED BY <1>1, <1>12, <1>15, SeqEqual

(* One more element, which may be a repetition.                              *)
LEMMA ListMore ==
  ASSUME NEW seq, NEW n \in Nat, NEW out, Lists(out, seq, n), seq[n + 1] \in Url
  PROVE  Lists(IF Contains(out, seq[n + 1]) THEN out ELSE Append(out, seq[n + 1]), seq, n + 1)
<1> DEFINE e == seq[n + 1]
           m == Len(out)
<1>1. /\ out \in Seq(Url) /\ IsInjective(out) /\ DOMAIN out = 1..m /\ m \in Nat
      /\ ToSet(out) = {seq[i] : i \in 1..n}
  BY DEF Lists
<1>2. \A k, l \in 1..m, q \in 1..n :
        k < l /\ seq[q] = out[l] => \E p \in 1..(q - 1) : seq[p] = out[k]
  BY <1>1 DEF Lists
<1>3. {seq[i] : i \in 1..(n + 1)} = {seq[i] : i \in 1..n} \cup {e}
  <2>1. 1..(n + 1) = 1..n \cup {n + 1}
    OBVIOUS
  <2> QED BY <2>1
<1>4. \A q \in 1..(n + 1) : q \in 1..n \/ q = n + 1
  OBVIOUS
<1>5. \A k \in 1..m : \E p \in 1..n : seq[p] = out[k]
  BY <1>1 DEF ToSet
<1> HIDE DEF m
<1>6. CASE Contains(out, e)
  <2>1. ToSet(out) = {seq[i] : i \in 1..(n + 1)}
    BY <1>1, <1>3, <1>6 DEF Contains, ToSet
  <2>2. ASSUME NEW k \in 1..m, NEW l \in 1..m, k < l, seq[n + 1] = out[l]
        PROVE  \E p \in 1..n : seq[p] = out[k]
    BY <1>5
  <2>3. \A k, l \in 1..m, q \in 1..(n + 1) :
          k < l /\ seq[q] = out[l] => \E p \in 1..(q - 1) : seq[p] = out[k]
    BY <1>2, <1>4, <2>2
  <2> QED BY <1>1, <1>6, <2>1, <2>3 DEF Lists
<1>7. CASE ~Contains(out, e)
  <2> DEFINE new == Append(out, e)
  <2>1. /\ new \in Seq(Url) /\ DOMAIN new = 1..(m + 1)
        /\ new[m + 1] = e /\ \A k \in 1..m : new[k] = out[k]
    BY <1>1 DEF m
  <2> HIDE DEF new
  <2>2. \A k \in 1..m : out[k] # e
    BY <1>1, <1>7 DEF Contains
  <2>3. \A k \in 1..(m + 1) : k \in 1..m \/ k = m + 1
    BY <1>1
  <2>4. IsInjective(new)
    <3>1. \A k, l \in 1..m : out[k] = out[l] => k = l
      BY <1>1 DEF IsInjective
    <3> QED BY <2>1, <2>2, <2>3, <3>1 DEF IsInjective
  <2>5. ToSet(new) = ToSet(out) \cup {e}
    <3>1. ToSet(new) = {new[k] : k \in 1..(m + 1)} /\ ToSet(out) = {out[k] : k \in 1..m}
      BY <1>1, <2>1 DEF ToSet
    <3>2. m + 1 \in 1..(m + 1) /\ \A k \in 1..m : k \in 1..(m + 1)
      BY <1>1
    <3> QED BY <2>1, <2>3, <3>1, <3>2
  <2>6. \A q \in 1..n : seq[q] # e
    BY <1>1, <2>2 DEF ToSet
  <2>7. ASSUME NEW k \in 1..(m + 1), NEW l \in 1..(m + 1), NEW q \in 1..(n + 1),
               k < l, seq[q] = new[l]
        PROVE  \E p \in 1..(q - 1) : seq[p] = new[k]
    <3>1. k \in 1..m /\ new[k] = out[k]
      BY <1>1, <2>1, <2>3, <2>7
    <3>2. CASE l \in 1..m
      <4>1. q \in 1..n
        BY <1>4, <2>1, <2>2, <2>7, <3>2
      <4> QED BY <4>1, <3>1, <3>2, <2>1, <2>7, <1>2
    <3>3. CASE l = m + 1
      <4>1. q = n + 1
        BY <1>4, <2>1, <2>6, <2>7, <3>3
      <4> QED BY <4>1, <3>1, <1>5
    <3> QED BY <2>3, <3>2, <3>3
  <2> QED BY <1>3, <1>1, <1>7, <2>1, <2>4, <2>5, <2>7 DEF Lists, new
<1> QED BY <1>6, <1>7

-----------------------------------------------------------------------------
(* The inner loop of discover_sitemap_urls, as the fold sees it: `kept` of    *)
(* the places in s of a sequence.                                            *)
Loop(base, seq, kept) ==
  kept = [s \in SUBSET DOMAIN seq |->
            IF s = {} THEN base
            ELSE LET k == kept[s \ {Max(s)}]
                     e == seq[Max(s)]
                 IN  IF Contains(k, e) THEN k ELSE Append(k, e)]

(* There is such a loop over any sequence. *)
LEMMA LoopExists ==
  ASSUME NEW base, NEW seq \in Seq(Url)
  PROVE  \E kept : Loop(base, seq, kept)
<1> DEFINE Step(k, e) == IF Contains(k, e) THEN k ELSE Append(k, e)
           Upto(n, f) == f = [s \in SUBSET (1..n) |->
                               IF s = {} THEN base ELSE Step(f[s \ {Max(s)}], seq[Max(s)])]
           Good == {n \in Nat : \E f : Upto(n, f)}
<1>1. 0 \in Good
  <2> DEFINE f == [s \in SUBSET (1..0) |-> base]
  <2>1. \A s \in SUBSET (1..0) : s = {}
    OBVIOUS
  <2>2. Upto(0, f)
    BY <2>1
  <2> QED BY <2>2
<1>2. ASSUME NEW n \in Nat, n \in Good PROVE n + 1 \in Good
  <2>1. PICK f : Upto(n, f)
    BY <1>2
  <2> DEFINE g == [s \in SUBSET (1..(n + 1)) |->
                     IF n + 1 \in s THEN Step(f[s \ {n + 1}], seq[n + 1]) ELSE f[s]]
  <2>2. ASSUME NEW s \in SUBSET (1..(n + 1))
        PROVE  g[s] = IF s = {} THEN base ELSE Step(g[s \ {Max(s)}], seq[Max(s)])
    <3>1. CASE n + 1 \in s
      <4>1. Max(s) = n + 1
        <5>1. n + 1 \in Nat /\ s # {}
          BY <3>1
        <5>2. Max(s) \in s /\ \A k \in s : k <= Max(s)
          BY <5>1, MaxIs
        <5>3. Max(s) \in 1..(n + 1) /\ n + 1 <= Max(s)
          BY <3>1, <5>2
        <5> QED BY <5>3
      <4>2. s \ {n + 1} \in SUBSET (1..n)
        OBVIOUS
      <4>3. g[s \ {n + 1}] = f[s \ {n + 1}]
        BY <4>2
      <4> QED BY <3>1, <4>1, <4>3
    <3>2. CASE n + 1 \notin s
      <4>1. s \in SUBSET (1..n) /\ g[s] = f[s]
        BY <3>2
      <4>2. CASE s = {}
        BY <4>1, <4>2, <2>1
      <4>3. CASE s # {}
        <5>1. f[s] = Step(f[s \ {Max(s)}], seq[Max(s)])
          BY <4>1, <4>3, <2>1
        <5>2. s \ {Max(s)} \in SUBSET (1..(n + 1)) /\ n + 1 \notin s \ {Max(s)}
          BY <3>2
        <5>3. g[s \ {Max(s)}] = f[s \ {Max(s)}]
          BY <5>2
        <5> QED BY <4>1, <4>3, <5>1, <5>3
      <4> QED BY <4>2, <4>3
    <3> QED BY <3>1, <3>2
  <2>3. Upto(n + 1, g)
    BY <2>2
  <2> HIDE DEF Upto, g
  <2> QED BY <2>3
<1> HIDE DEF Good
<1>3. Nat \subseteq Good
  BY <1>1, <1>2, Induction
<1>4. PICK f : Upto(Len(seq), f)
  <2> HIDE DEF Upto
  <2>1. Len(seq) \in Good
    BY <1>3
  <2> QED BY <2>1 DEF Good
<1>5. DOMAIN seq = 1..Len(seq)
  OBVIOUS
<1>6. Loop(base, seq, f)
  BY <1>4, <1>5 DEF Loop
<1> QED BY <1>6

(* The loop goes on with the list it is given.                               *)
LEMMA WithNewLists ==
  ASSUME NEW pages \in Seq(Url), NEW more \in Seq(Url), NEW out,
         Lists(out, pages, Len(pages))
  PROVE  Lists(WithNew(out, more), pages \o more, Len(pages \o more))
<1> DEFINE Step(k, e) == IF Contains(k, e) THEN k ELSE Append(k, e)
           all == pages \o more
           m == Len(pages)
<1>1. PICK kept0 : Loop(out, more, kept0)
  BY LoopExists
<1> DEFINE kept == CHOOSE f : Loop(out, more, f)
<1>2. Loop(out, more, kept)
  BY <1>1
<1>3. WithNew(out, more) = kept[DOMAIN more]
  BY DEF WithNew, FoldLeft, MapThenFoldSet, Loop
<1> HIDE DEF kept
<1>4. /\ DOMAIN more = 1..Len(more) /\ Len(more) \in Nat /\ m \in Nat
      /\ all \in Seq(Url) /\ Len(all) = m + Len(more)
      /\ \A i \in 1..m : all[i] = pages[i]
      /\ \A i \in 1..Len(more) : all[m + i] = more[i] /\ more[i] \in Url
  OBVIOUS
<1> HIDE DEF all, m
<1> DEFINE Good == {n \in Nat : n <= Len(more) => Lists(kept[1..n], all, m + n)}
<1>5. 0 \in Good
  <2>1. kept[{}] = out /\ 1..0 = {} /\ m + 0 = m
    BY <1>2, <1>4 DEF Loop
  <2>2. {all[i] : i \in 1..m} = {pages[i] : i \in 1..m}
    BY <1>4
  <2>3. \A q \in 1..m : \A p \in 1..(q - 1) : p \in 1..m
    BY <1>4
  <2>4. Lists(out, pages, m)
    BY DEF m
  <2>5. ASSUME NEW k \in DOMAIN out, NEW l \in DOMAIN out, NEW q \in 1..m,
               k < l, all[q] = out[l]
        PROVE  \E p \in 1..(q - 1) : all[p] = out[k]
    <3>1. pages[q] = out[l]
      BY <1>4, <2>5
    <3>2. PICK p \in 1..(q - 1) : pages[p] = out[k]
      BY <2>4, <2>5, <3>1 DEF Lists
    <3> QED BY <1>4, <2>3, <3>2
  <2>6. Lists(out, all, m)
    BY <2>2, <2>4, <2>5 DEF Lists
  <2> QED BY <2>1, <2>6
<1>6. ASSUME NEW n \in Nat, n \in Good PROVE n + 1 \in Good
  <2> SUFFICES ASSUME n + 1 <= Len(more) PROVE Lists(kept[1..(n + 1)], all, m + (n + 1))
    OBVIOUS
  <2>1. Lists(kept[1..n], all, m + n)
    BY <1>4, <1>6
  <2>2. Max(1..(n + 1)) = n + 1
    <3>1. n + 1 \in Nat /\ n + 1 \in 1..(n + 1)
      OBVIOUS
    <3>2. Max(1..(n + 1)) \in 1..(n + 1) /\ \A k \in 1..(n + 1) : k <= Max(1..(n + 1))
      BY <3>1, MaxIs
    <3>3. n + 1 <= Max(1..(n + 1))
      BY <3>2
    <3> QED BY <3>2, <3>3
  <2>3. 1..(n + 1) \in SUBSET DOMAIN more /\ 1..(n + 1) # {} /\ (1..(n + 1)) \ {n + 1} = 1..n
    <3>1. n + 1 \in 1..(n + 1)
      OBVIOUS
    <3>2. (1..(n + 1)) \ {n + 1} = 1..n
      OBVIOUS
    <3>3. 1..(n + 1) \subseteq 1..Len(more)
      BY <1>4
    <3> QED BY <3>1, <3>2, <3>3, <1>4
  <2>4. kept[1..(n + 1)] = Step(kept[1..n], more[n + 1])
    BY <1>2, <2>2, <2>3 DEF Loop
  <2>5. all[(m + n) + 1] = more[n + 1] /\ more[n + 1] \in Url
        /\ m + n \in Nat /\ (m + n) + 1 = m + (n + 1)
    <3>1. n + 1 \in 1..Len(more)
      BY <1>4
    <3>2. (m + n) + 1 = m + (n + 1) /\ m + n \in Nat
      BY <1>4
    <3> QED BY <1>4, <3>1, <3>2
  <2>6. Lists(Step(kept[1..n], all[(m + n) + 1]), all, (m + n) + 1)
    BY <2>1, <2>5, ListMore
  <2> QED BY <2>4, <2>5, <2>6
<1> HIDE DEF Good
<1>7. Len(more) \in Good
  BY <1>4, <1>5, <1>6, Induction
<1>8. Lists(kept[1..Len(more)], all, m + Len(more))
  BY <1>7, <1>4 DEF Good
<1> QED BY <1>3, <1>4, <1>8 DEF all

(* One more document after those read.                                       *)
LEMMA FlattenAppends ==
  ASSUME NEW S, NEW seqs \in Seq(Seq(S)), NEW last \in Seq(S)
  PROVE  /\ FlattenSeq(seqs) \in Seq(S)
         /\ FlattenSeq(Append(seqs, last)) = FlattenSeq(seqs) \o last
<1> DEFINE n == Len(seqs)
           more == Append(seqs, last)
           Upto(s, m, f) == f = [i \in 1..m |-> IF i = 1 THEN s[i] ELSE f[i - 1] \o s[i]]
           Good == {m \in Nat : \E f : Upto(more, m, f)}
<1>1. 0 \in Good
  <2> DEFINE f == [i \in 1..0 |-> <<>>]
  <2>1. \A i \in 1..0 : FALSE
    OBVIOUS
  <2>2. Upto(more, 0, f)
    BY <2>1
  <2> HIDE DEF Upto, f
  <2> QED BY <2>2
<1>2. ASSUME NEW m \in Nat, m \in Good PROVE m + 1 \in Good
  <2> HIDE DEF more
  <2>1. PICK f : Upto(more, m, f)
    BY <1>2
  <2> DEFINE g == [i \in 1..(m + 1) |->
                     IF i <= m THEN f[i] ELSE IF i = 1 THEN more[i] ELSE f[i - 1] \o more[i]]
  <2>2. ASSUME NEW i \in 1..(m + 1)
        PROVE  g[i] = IF i = 1 THEN more[i] ELSE g[i - 1] \o more[i]
    <3>1. i # 1 => g[i - 1] = f[i - 1]
      OBVIOUS
    <3>2. i <= m => f[i] = IF i = 1 THEN more[i] ELSE f[i - 1] \o more[i]
      <4>1. i <= m => i \in 1..m
        OBVIOUS
      <4> QED BY <2>1, <4>1
    <3> QED BY <3>1, <3>2
  <2>3. Upto(more, m + 1, g)
    BY <2>2
  <2> HIDE DEF Upto, g
  <2> QED BY <2>3
<1>3. /\ n \in Nat /\ Len(more) = n + 1 /\ more[n + 1] = last
      /\ \A i \in 1..n : more[i] = seqs[i] /\ seqs[i] \in Seq(S)
  OBVIOUS
<1> HIDE DEF more
<1>4. PICK f0 : Upto(more, n + 1, f0)
  <2> HIDE DEF Upto, Good
  <2>1. n + 1 \in Good
    BY <1>1, <1>2, <1>3, Induction
  <2> QED BY <2>1 DEF Good
<1>5. PICK h0 : Upto(seqs, n, h0)
  <2> DEFINE h == [i \in 1..n |-> f0[i]]
  <2>1. ASSUME NEW i \in 1..n PROVE h[i] = IF i = 1 THEN seqs[i] ELSE h[i - 1] \o seqs[i]
    <3>1. f0[i] = IF i = 1 THEN more[i] ELSE f0[i - 1] \o more[i]
      <4>1. i \in 1..(n + 1)
        BY <1>3
      <4> QED BY <1>4, <4>1
    <3> QED BY <1>3, <3>1
  <2>2. Upto(seqs, n, h)
    BY <2>1
  <2> HIDE DEF Upto, h
  <2> QED BY <2>2
<1> DEFINE F == CHOOSE f : Upto(more, n + 1, f)
           H == CHOOSE f : Upto(seqs, n, f)
<1>6. Upto(more, n + 1, F) /\ Upto(seqs, n, H)
  BY <1>4, <1>5
<1>7. FlattenSeq(more) = F[n + 1]
  BY <1>3 DEF FlattenSeq
<1>8. FlattenSeq(seqs) = IF n = 0 THEN seqs ELSE H[n]
  BY DEF FlattenSeq
<1> HIDE DEF F, H, Good
<1>9. \A i \in 1..(n + 1) : F[i] = IF i = 1 THEN more[i] ELSE F[i - 1] \o more[i]
  BY <1>6
<1>10. \A i \in 1..n : H[i] = IF i = 1 THEN seqs[i] ELSE H[i - 1] \o seqs[i]
  BY <1>6
<1> HIDE DEF Upto
<1> DEFINE Same == {m \in Nat : m \in 1..n => F[m] = H[m] /\ H[m] \in Seq(S)}
<1>11. 0 \in Same
  OBVIOUS
<1>12. ASSUME NEW m \in Nat, m \in Same PROVE m + 1 \in Same
  <2> SUFFICES ASSUME m + 1 \in 1..n PROVE F[m + 1] = H[m + 1] /\ H[m + 1] \in Seq(S)
    OBVIOUS
  <2>1. m + 1 \in 1..(n + 1) /\ (m + 1) - 1 = m /\ more[m + 1] = seqs[m + 1] /\ seqs[m + 1] \in Seq(S)
    BY <1>3
  <2>2. m # 0 => F[m] = H[m] /\ H[m] \in Seq(S)
    BY <1>12
  <2>3. F[m + 1] = IF m + 1 = 1 THEN seqs[m + 1] ELSE F[m] \o seqs[m + 1]
    BY <1>9, <2>1
  <2>4. H[m + 1] = IF m + 1 = 1 THEN seqs[m + 1] ELSE H[m] \o seqs[m + 1]
    BY <1>10, <2>1
  <2> QED BY <2>1, <2>2, <2>3, <2>4
<1> HIDE DEF Same
<1>13. n \in Same
  BY <1>3, <1>11, <1>12, Induction
<1>14. n # 0 => F[n] = H[n] /\ H[n] \in Seq(S)
  BY <1>3, <1>13 DEF Same
<1>15. F[n + 1] = IF n = 0 THEN last ELSE F[n] \o last
  <2>1. n + 1 \in 1..(n + 1) /\ (n + 1) - 1 = n /\ (n + 1 = 1 <=> n = 0)
    BY <1>3
  <2> QED BY <1>3, <1>9, <2>1
<1>16. n = 0 => seqs = <<>> /\ seqs \o last = last
  OBVIOUS
<1>17. FlattenSeq(more) = FlattenSeq(seqs) \o last
  BY <1>7, <1>8, <1>14, <1>15, <1>16
<1>18. FlattenSeq(seqs) \in Seq(S)
  BY <1>8, <1>14, <1>16, EmptySeq
<1> QED BY <1>17, <1>18 DEF more

-----------------------------------------------------------------------------
(* seq[:n] of Python.                                                        *)
LEMMA SliceParts ==
  ASSUME NEW S, NEW seq \in Seq(S), NEW n \in Int
  PROVE  /\ Slice(seq, n) \in Seq(S)
         /\ n >= 0 => /\ Len(Slice(seq, n)) = IF n < Len(seq) THEN n ELSE Len(seq)
                      /\ \A i \in 1..Len(Slice(seq, n)) : Slice(seq, n)[i] = seq[i]
<1> DEFINE stop == IF n >= 0 THEN n ELSE Len(seq) + n
           last == IF stop < Len(seq) THEN stop ELSE Len(seq)
<1>1. Slice(seq, n) = SubSeq(seq, 1, last)
  BY DEF Slice
<1>2. last \in Int /\ last <= Len(seq) /\ (n >= 0 => last = IF n < Len(seq) THEN n ELSE Len(seq))
  OBVIOUS
<1> HIDE DEF last
<1>3. \A i \in 1..last : seq[i] \in S
  BY <1>2
<1>4. /\ SubSeq(seq, 1, last) \in Seq(S)
      /\ Len(SubSeq(seq, 1, last)) = IF 1 <= last THEN (last - 1) + 1 ELSE 0
      /\ \A i \in 1..((last - 1) + 1) : SubSeq(seq, 1, last)[i] = seq[(1 + i) - 1]
  BY <1>2, <1>3, SubSeqProperties
<1>5. (last - 1) + 1 = last /\ \A i \in 1..last : (1 + i) - 1 = i
  BY <1>2
<1>6. n >= 0 => /\ last >= 0 /\ Len(SubSeq(seq, 1, last)) = last
                /\ \A i \in 1..last : SubSeq(seq, 1, last)[i] = seq[i]
  BY <1>2, <1>4, <1>5
<1> QED BY <1>1, <1>2, <1>4, <1>6

Reading == [url : Url, doc : Document]

(* The pages of the documents read, and of one more.                         *)
LEMMA PagesGrow ==
  ASSUME NEW r \in Seq(Reading), NEW more \in Reading
  PROVE  LET pages(s) == FlattenSeq([i \in DOMAIN s |-> PagesOf(s[i].doc)])
         IN  /\ pages(r) \in Seq(Url) /\ PagesOf(more.doc) \in Seq(Url)
             /\ pages(Append(r, more)) = pages(r) \o PagesOf(more.doc)
<1> DEFINE seqs(s) == [i \in DOMAIN s |-> PagesOf(s[i].doc)]
           n == Len(r)
           last == PagesOf(more.doc)
<1>1. ASSUME NEW x \in Reading PROVE PagesOf(x.doc) \in Seq(Url)
  BY EmptySeq DEF PagesOf, Reading, Document
<1>2. DOMAIN r = 1..n /\ n \in Nat /\ \A i \in 1..n : r[i] \in Reading
  OBVIOUS
<1>3. /\ DOMAIN Append(r, more) = 1..(n + 1) /\ Append(r, more)[n + 1] = more
      /\ \A i \in 1..n : Append(r, more)[i] = r[i]
  OBVIOUS
<1> HIDE DEF n
<1>4. seqs(r) \in [1..n -> Seq(Url)]
  BY <1>1, <1>2
<1>5. seqs(r) \in Seq(Seq(Url)) /\ Len(seqs(r)) = n
  <2> HIDE DEF seqs
  <2> QED BY <1>2, <1>4, SeqDef
<1>6. last \in Seq(Url)
  BY <1>1
<1>7. seqs(Append(r, more)) = Append(seqs(r), last)
  <2> DEFINE a == seqs(Append(r, more))
             b == Append(seqs(r), last)
  <2>1. a \in [1..(n + 1) -> Seq(Url)]
    <3>1. \A i \in 1..(n + 1) : Append(r, more)[i] \in Reading
      BY <1>2, <1>3
    <3> QED BY <1>1, <1>3, <3>1
  <2>2. a \in Seq(Seq(Url)) /\ Len(a) = n + 1
    <3> HIDE DEF a
    <3> QED BY <1>2, <2>1, SeqDef
  <2>3. /\ b \in Seq(Seq(Url)) /\ Len(b) = n + 1 /\ b[n + 1] = last
        /\ \A i \in 1..n : b[i] = seqs(r)[i]
    <3> HIDE DEF seqs, last
    <3> QED BY <1>5, <1>6, AppendProperties
  <2>4. \A i \in 1..n : a[i] = seqs(r)[i]
    BY <1>2, <1>3
  <2>5. a[n + 1] = last
    BY <1>2, <1>3
  <2> HIDE DEF a, b, seqs, last
  <2>6. \A i \in 1..(n + 1) : a[i] = b[i]
    BY <1>2, <2>3, <2>4, <2>5
  <2>7. a = b
    BY <2>2, <2>3, <2>6, SeqEqual
  <2> QED BY <2>7 DEF a, b
<1> HIDE DEF seqs, last
<1>8. FlattenSeq(seqs(r)) \in Seq(Url)
      /\ FlattenSeq(seqs(Append(r, more))) = FlattenSeq(seqs(r)) \o last
  BY <1>5, <1>6, <1>7, FlattenAppends
<1> QED BY <1>6, <1>8 DEF seqs, last

(* What a document adds to the pages.                                        *)
LEMMA RequestAdds ==
  ASSUME TypeOK, NEW url \in Url, NEW doc, Request(url, doc)
  PROVE  /\ doc \in Document /\ read' \in Seq(Reading)
         /\ Len(read') = Len(read) + 1 /\ read'[Len(read) + 1] = [url |-> url, doc |-> doc]
         /\ \A i \in 1..Len(read) : read'[i] = read[i]
         /\ AllPages \in Seq(Url) /\ PagesOf(doc) \in Seq(Url)
         /\ AllPages' = AllPages \o PagesOf(doc)
<1> DEFINE more == [url |-> url, doc |-> doc]
<1>1. doc \in Document /\ more \in Reading /\ more.doc = doc
  BY DocumentsAssumption DEF Request, Reading
<1>2. read \in Seq(Reading) /\ read' = Append(read, more)
  BY DEF TypeOK, Reading, Request
<1>3. /\ AllPages \in Seq(Url) /\ PagesOf(doc) \in Seq(Url)
      /\ AllPages' = AllPages \o PagesOf(doc)
  <2> HIDE DEF more
  <2> QED BY <1>1, <1>2, PagesGrow DEF AllPages
<1> HIDE DEF more
<1>4. /\ read' \in Seq(Reading) /\ Len(read') = Len(read) + 1
      /\ read'[Len(read) + 1] = more /\ \A i \in 1..Len(read) : read'[i] = read[i]
  BY <1>1, <1>2
<1> QED BY <1>1, <1>3, <1>4 DEF more

(* What is listed so far are pages.                                          *)
LEMMA ListedType ==
  ASSUME read \in Seq(Reading) PROVE Listed \in Seq(Url)
<1>1. AllPages \in Seq(Url)
  <2> DEFINE more == [url |-> Root, doc |-> Nothing]
  <2>1. more \in Reading
    BY DocumentsAssumption, EmptySeq DEF Reading, Document, Nothing
  <2> HIDE DEF more
  <2> QED BY <2>1, PagesGrow DEF AllPages
<1>2. AtPlaces(AllPages, FirstPlaces(AllPages)) \in Seq(Url)
  BY <1>1, FirstPlacesList DEF Lists
<1> QED BY <1>1, <1>2, AtAllPlaces DEF Listed

-----------------------------------------------------------------------------
(* Before the first request.                                                 *)
LEMMA InitKeeps == Init => IInv
<1> SUFFICES ASSUME Init PROVE IInv
  OBVIOUS
<1> USE DEF Init
<1>1. TypeOK
  <2>1. <<>> \in Seq(Url) /\ Len(<<>>) = 0 /\ <<>> \in Seq([url : Url, doc : Document])
    BY EmptySeq
  <2>2. 0 <= MaxChildSitemaps /\ 1 \in 1..(0 + 1)
    BY CapsAssumption
  <2> QED BY <2>1, <2>2 DEF TypeOK
<1>2. Requested /\ Gathered
  BY DEF Requested, Gathered, Discovered
<1> QED BY <1>1, <1>2 DEF IInv

(* The root alone: its pages as they stand, or no pages and its children.    *)
LEMMA FetchRootKeeps == ASSUME IInv, FetchRoot PROVE IInv'
<1> USE DEF IInv
<1>1. PICK doc \in DocumentsAt[Root] :
        /\ Request(Root, doc)
        /\ pc' = CASE doc.kind = "none" -> "done"
                   [] doc.kind = "malformed" -> "error"
                   [] OTHER -> "children"
        /\ ordered' = PagesOf(doc)
        /\ children' = Considered(ChildrenOf(doc))
  BY DEF FetchRoot
<1>2. pc = "root" /\ read = <<>> /\ next = 1 /\ UNCHANGED <<maxUrls, next, truncated>>
  BY DEF FetchRoot, Requested
<1>3. Root \in Url /\ doc \in Document
  BY DocumentsAssumption
<1>4. /\ read' \in Seq(Reading) /\ Len(read') = 1
      /\ read'[1] = [url |-> Root, doc |-> doc]
      /\ AllPages \in Seq(Url) /\ PagesOf(doc) \in Seq(Url)
      /\ AllPages' = AllPages \o PagesOf(doc)
  BY <1>1, <1>2, <1>3, RequestAdds
<1>5. AllPages' = PagesOf(doc)
  <2>1. AllPages = <<>>
    BY <1>2 DEF AllPages, FlattenSeq
  <2> QED BY <1>4, <2>1, ConcatEmptySeq
<1>6. read'[1].doc = doc
  BY <1>4
<1>7. pc' \in {"done", "error", "children"} /\ (pc' = "done" <=> doc.kind = "none")
      /\ (pc' = "children" => doc.kind \in {"urlset", "index"})
  BY <1>1, <1>3 DEF Document
<1>8. TypeOK'
  <2>1. ChildrenOf(doc) \in Seq(Url)
    BY <1>3, EmptySeq DEF ChildrenOf, Document
  <2>2. children' \in Seq(Url) /\ Len(children') <= MaxChildSitemaps /\ Len(children') \in Nat
    BY <1>1, <2>1, SliceParts, CapsAssumption DEF Considered
  <2> QED BY <1>1, <1>2, <1>4, <1>7, <2>2 DEF TypeOK, Reading
<1>9. Requested'
  <2>1. doc.kind = "none" => ordered' = <<>>
    BY <1>1 DEF PagesOf
  <2> QED BY <1>1, <1>2, <1>4, <1>6, <1>7, <2>1 DEF Requested
<1>10. ASSUME doc.kind \in {"urlset", "index"} PROVE Listed' = PagesOf(doc)
  <2>1. Listed' = AtPlaces(PagesOf(doc), IF doc.kind = "urlset" THEN DOMAIN PagesOf(doc)
                                         ELSE FirstPlaces(PagesOf(doc)))
    BY <1>5, <1>6 DEF Listed
  <2>2. CASE doc.kind = "urlset"
    BY <2>1, <2>2, <1>4, AtAllPlaces
  <2>3. CASE doc.kind = "index"
    <3>1. PagesOf(doc) = <<>>
      BY <2>3 DEF PagesOf
    <3>2. Lists(Listed', <<>>, 0)
      BY <2>1, <2>3, <3>1, <1>4, FirstPlacesList
    <3>3. Lists(<<>>, <<>>, 0)
      <4>1. <<>> \in Seq(Url) /\ IsInjective(<<>>) /\ ToSet(<<>>) = {}
        BY EmptySeq DEF IsInjective, ToSet
      <4>2. 1..0 = {} /\ DOMAIN <<>> = {}
        OBVIOUS
      <4> QED BY <4>1, <4>2 DEF Lists
    <3> QED BY <3>1, <3>2, <3>3, ListIsUnique
  <2> QED BY <1>10, <2>2, <2>3
<1>11. Gathered'
  BY <1>1, <1>6, <1>7, <1>10 DEF Gathered, Discovered
<1> QED BY <1>8, <1>9, <1>11

(* A child adds what is new.                                                 *)
LEMMA FetchChildKeeps == ASSUME IInv, FetchChild PROVE IInv'
<1> USE DEF IInv
<1>1. PICK doc \in DocumentsAt[children[next]] :
        /\ Request(children[next], doc)
        /\ pc' = IF doc.kind = "malformed" THEN "error" ELSE pc
        /\ ordered' = WithNew(ordered, PagesOf(doc))
  BY DEF FetchChild
<1>2. /\ pc = "children" /\ next <= Len(children) /\ next' = next + 1
      /\ UNCHANGED <<maxUrls, children, truncated>>
  BY DEF FetchChild
<1>3. /\ next \in 1..Len(children) /\ children \in Seq(Url) /\ children[next] \in Url
      /\ Len(read) = next
  BY <1>2 DEF TypeOK, Requested
<1>4. /\ doc \in Document /\ read' \in Seq(Reading) /\ Len(read') = next + 1
      /\ read'[next + 1] = [url |-> children[next], doc |-> doc]
      /\ \A i \in 1..next : read'[i] = read[i]
      /\ AllPages \in Seq(Url) /\ PagesOf(doc) \in Seq(Url)
      /\ AllPages' = AllPages \o PagesOf(doc)
  BY <1>1, <1>3, RequestAdds
<1>5. read'[1] = read[1]
  BY <1>3, <1>4
<1>6. read[1].doc.kind # "urlset" /\ read[1].doc.kind # "none"
  <2>1. read[1].doc.kind # "none"
    BY <1>2 DEF Requested
  <2>2. ASSUME read[1].doc.kind = "urlset" PROVE FALSE
    <3>1. children = Slice(<<>>, MaxChildSitemaps)
      BY <1>2, <2>2 DEF Requested, Considered, ChildrenOf
    <3>2. <<>> \in Seq(Url) /\ Len(<<>>) = 0
      BY EmptySeq
    <3>4. MaxChildSitemaps \in Int /\ MaxChildSitemaps >= 0
      BY CapsAssumption
    <3>5. Len(children) = IF MaxChildSitemaps < 0 THEN MaxChildSitemaps ELSE 0
      BY <3>1, <3>2, <3>4, SliceParts
    <3>3. Len(children) = 0
      BY <3>4, <3>5
    <3> QED BY <3>3, <1>3
  <2> QED BY <2>1, <2>2
<1>7. Listed = AtPlaces(AllPages, FirstPlaces(AllPages))
      /\ Listed' = AtPlaces(AllPages', FirstPlaces(AllPages'))
  BY <1>5, <1>6 DEF Listed
<1>8. Lists(ordered, AllPages, Len(AllPages))
  BY <1>2, <1>4, <1>7, FirstPlacesList DEF Gathered
<1>9. Lists(ordered', AllPages', Len(AllPages'))
  BY <1>1, <1>4, <1>8, WithNewLists
<1>10. AllPages' \in Seq(Url) /\ Len(AllPages') \in Nat
  BY <1>4
<1>11. ordered' = Listed'
  <2>1. Lists(Listed', AllPages', Len(AllPages'))
    BY <1>7, <1>10, FirstPlacesList
  <2> QED BY <1>9, <1>10, <2>1, ListIsUnique
<1>12. TypeOK'
  <2>1. ordered' \in Seq(Url)
    BY <1>9 DEF Lists
  <2>2. next' \in 1..(Len(children) + 1)
    BY <1>2, <1>3
  <2> QED BY <1>1, <1>2, <1>4, <2>1, <2>2 DEF TypeOK, Reading
<1>13. Requested'
  <2>1. \A i \in 1..(next' - 1) : read'[i + 1].url = children[i]
    <3> TAKE i \in 1..(next' - 1)
    <3>1. CASE i = next
      BY <3>1, <1>4
    <3>2. CASE i # next
      <4>1. i \in 1..(next - 1) /\ i + 1 \in 1..next
        BY <3>2, <1>2, <1>3
      <4> QED BY <4>1, <1>2, <1>4 DEF Requested
    <3> QED BY <3>1, <3>2
  <2>2. Len(read') = next' /\ pc' # "root" /\ read'[1].doc.kind # "none"
    BY <1>1, <1>2, <1>4, <1>5, <1>6
  <2>3. children' = Considered(ChildrenOf(read'[1].doc))
    BY <1>2, <1>5 DEF Requested
  <2> QED BY <2>1, <2>2, <2>3, <1>2 DEF Requested
<1>14. Gathered'
  BY <1>1, <1>2, <1>11 DEF Gathered, Discovered
<1> QED BY <1>12, <1>13, <1>14

(* The list is cut, and told to be if it is.                                 *)
LEMMA ReturnKeeps == ASSUME IInv, Return PROVE IInv'
<1> USE DEF IInv
<1>1. /\ pc = "children" /\ (next > Len(children) \/ Len(ordered) >= maxUrls)
      /\ pc' = "done" /\ truncated' = (Len(ordered) > maxUrls)
      /\ ordered' = Slice(ordered, maxUrls)
      /\ UNCHANGED <<maxUrls, children, next, read>>
  BY DEF Return, Full, Truncated
<1>2. ordered \in Seq(Url) /\ maxUrls \in Int
  BY CapsAssumption DEF TypeOK
<1>3. TypeOK'
  <2>1. ordered' \in Seq(Url)
    BY <1>1, <1>2, SliceParts
  <2> QED BY <1>1, <2>1 DEF TypeOK
<1>4. Requested'
  BY <1>1 DEF Requested
<1>5. Listed' = Listed /\ ordered = Listed
  BY <1>1 DEF Listed, AllPages, Gathered
<1>6. Gathered'
  BY <1>1, <1>5 DEF Gathered
<1> QED BY <1>3, <1>4, <1>6

LEMMA StepKeeps == IInv /\ [Next]_vars => IInv'
<1>1. ASSUME IInv, UNCHANGED vars PROVE IInv'
  BY <1>1 DEF vars, IInv, TypeOK, Requested, Gathered, Discovered, Listed, AllPages
<1> QED BY <1>1, FetchRootKeeps, FetchChildKeeps, ReturnKeeps DEF Next

LEMMA Invariance == Spec => []IInv
<1>1. IInv /\ [Next]_vars => IInv'
  BY StepKeeps
<1> QED BY <1>1, InitKeeps, PTL DEF Spec

-----------------------------------------------------------------------------
(* Every state of a discovery is typed: the children considered are bounded, *)
(* and what is read and listed are documents and URLs of the site.           *)
THEOREM DiscoveryTyped == Spec => []TypeOK
<1>1. IInv => TypeOK
  BY DEF IInv
<1> QED BY <1>1, Invariance, PTL

(* discover_sitemap_urls returns a slice of what its documents list.         *)
THEOREM SliceReturned == Spec => []ResultIsSlice
<1>1. IInv => ResultIsSlice
  BY DEF IInv, Gathered, ResultIsSlice
<1> QED BY <1>1, Invariance, PTL

(* It goes through the children of the index unless it has enough.           *)
THEOREM ChildrenAsked == Spec => []NoChildMissed
<1>1. ASSUME IInv, Discovered, maxUrls >= 0, Len(ordered) # maxUrls
      PROVE  Tail([i \in DOMAIN read |-> read[i].url]) =
               Slice(ChildrenOf(read[1].doc), MaxChildSitemaps)
  <2> DEFINE urls == [i \in DOMAIN read |-> read[i].url]
  <2>1. /\ read \in Seq(Reading) /\ Len(read) = next /\ children \in Seq(Url)
        /\ next \in 1..(Len(children) + 1)
        /\ children = Slice(ChildrenOf(read[1].doc), MaxChildSitemaps)
        /\ \A i \in 1..(next - 1) : read[i + 1].url = children[i]
    BY <1>1 DEF IInv, TypeOK, Requested, Reading, Considered, Discovered
  <2>2. next = Len(children) + 1
    <3>1. pc = "done" /\ read[1].doc.kind # "none"
      BY <1>1 DEF Discovered
    <3>2. ordered = Slice(Listed, maxUrls) /\ (next > Len(children) \/ Len(Listed) >= maxUrls)
      BY <1>1 DEF IInv, Gathered
    <3>3. ASSUME Len(Listed) >= maxUrls PROVE FALSE
      <4>1. Listed \in Seq(Url)
        BY <2>1, ListedType
      <4>2. maxUrls \in Int
        BY <1>1, CapsAssumption DEF IInv, TypeOK
      <4>3. Len(ordered) = IF maxUrls < Len(Listed) THEN maxUrls ELSE Len(Listed)
        BY <1>1, <3>2, <4>1, <4>2, SliceParts
      <4> QED BY <1>1, <3>3, <4>1, <4>2, <4>3
    <3> QED BY <2>1, <3>2, <3>3
  <2>3. urls \in [1..next -> Url] /\ next \in Nat
    <3>1. next \in Nat /\ DOMAIN read = 1..next
      BY <2>1, <2>2
    <3>2. \A i \in 1..next : read[i] \in Reading
      BY <2>1, <3>1
    <3> QED BY <3>1, <3>2 DEF Reading
  <2>4. urls \in Seq(Url) /\ Len(urls) = next /\ urls # <<>>
    <3> HIDE DEF urls
    <3>1. urls \in Seq(Url) /\ Len(urls) = next
      BY <2>3, SeqDef
    <3> QED BY <2>1, <3>1, EmptySeq
  <2>5. \A i \in 1..Len(children) : urls[i + 1] = children[i]
    BY <2>1, <2>2
  <2> HIDE DEF urls
  <2>6. /\ Tail(urls) \in Seq(Url) /\ Len(Tail(urls)) = Len(children)
        /\ \A i \in 1..Len(children) : Tail(urls)[i] = urls[i + 1]
    BY <2>1, <2>2, <2>4, HeadTailProperties
  <2>7. Tail(urls) = children
    BY <2>1, <2>5, <2>6, SeqEqual
  <2> QED BY <2>1, <2>7 DEF urls
<1>2. IInv => NoChildMissed
  BY <1>1 DEF NoChildMissed
<1> QED BY <1>2, Invariance, PTL

(* MAX_CHILD_SITEMAPS bounds its requests, and --max-urls its result.        *)
THEOREM SiteIsBounded == Spec => []Bounded
<1>1. ASSUME IInv PROVE Len(read) <= 1 + MaxChildSitemaps
  <2>1. CASE pc = "root"
    BY <1>1, <2>1, CapsAssumption DEF IInv, Requested
  <2>2. CASE pc # "root"
    BY <1>1, <2>2, CapsAssumption DEF IInv, Requested, TypeOK
  <2> QED BY <2>1, <2>2
<1>2. ASSUME IInv, pc = "done", maxUrls >= 0 PROVE Len(ordered) <= maxUrls
  <2>1. maxUrls \in Int /\ read \in Seq(Reading)
    BY <1>2, CapsAssumption DEF IInv, TypeOK, Reading
  <2>2. CASE Discovered
    <3>1. ordered = Slice(Listed, maxUrls) /\ Listed \in Seq(Url)
      BY <1>2, <2>1, <2>2, ListedType DEF IInv, Gathered
    <3> QED BY <1>2, <2>1, <3>1, SliceParts
  <2>3. CASE ~Discovered
    <3>1. ordered = <<>>
      BY <1>2, <2>3 DEF IInv, Requested, Discovered
    <3> QED BY <3>1, <1>2, <2>1
  <2> QED BY <2>2, <2>3
<1>3. IInv => Bounded
  BY <1>1, <1>2 DEF Bounded
<1> QED BY <1>3, Invariance, PTL

(* The caller is told of pages that were read and cut off, and not told of a *)
(* loss when there is none.                                                  *)
THEOREM DropsAreTold == Spec => []FlagMeansDropped
<1>1. ASSUME IInv, Discovered, maxUrls >= 0
      PROVE  truncated <=> Len(Listed) > Len(ordered)
  <2>1. maxUrls \in Int /\ read \in Seq(Reading)
    BY <1>1, CapsAssumption DEF IInv, TypeOK, Reading
  <2>2. ordered = Slice(Listed, maxUrls) /\ (truncated <=> Len(Listed) > maxUrls)
    BY <1>1 DEF IInv, Gathered
  <2>3. Listed \in Seq(Url)
    BY <2>1, ListedType
  <2>4. Len(ordered) = IF maxUrls < Len(Listed) THEN maxUrls ELSE Len(Listed)
    BY <1>1, <2>1, <2>2, <2>3, SliceParts
  <2>5. Len(Listed) \in Nat
    BY <2>3
  <2> QED BY <2>1, <2>2, <2>4, <2>5
<1>2. IInv => FlagMeansDropped
  BY <1>1 DEF FlagMeansDropped, PagesCut
<1> QED BY <1>2, Invariance, PTL
=============================================================================
