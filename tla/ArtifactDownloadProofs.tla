----------------------- MODULE ArtifactDownloadProofs -----------------------
(***************************************************************************)
(* Theorems about ArtifactDownload, for every catalog, page size,           *)
(* concurrency and number of changes during the search, and every choice    *)
(* of the flags: what is on disk, and what the command says of it.          *)
(***************************************************************************)
EXTENDS ArtifactDownload, FiniteSetTheorems, SequenceTheorems, WellFoundedInduction, TLAPS

(***************************************************************************)
(* The inductive invariant.                                                 *)
(***************************************************************************)
Phases == {"search", "plan", "check", "acquire", "wait", "gone"}
Working == {"stat", "request", "copy", "rename"}

Typed ==
  /\ flags \in Flags /\ drift \in 0..MaxDrift /\ shrunk \in BOOLEAN
  /\ catalog \in Seq(Items) /\ IsInjective(catalog)
  /\ pc \in Phases /\ page \in 0..Len(all) /\ all \in Seq(Items)
  /\ todo \in Seq(Items) /\ next \in 1..(Len(todo) + 1)
  /\ w \in [Positions -> Working \cup {"none", "done"}]
  /\ cancelled \in BOOLEAN /\ disk \in [Paths -> {"none", "old", "part"} \cup Items]
  /\ ret \in {"none", "ok", "error", "killed"}

\* The pages that were read and those that are left hold no more than the registry ever had.
Pages ==
  /\ Len(all) <= Len(Catalog) + drift
  /\ pc = "search" => Len(all) + Len(catalog) <= Len(Catalog) + drift + page * PageSize

\* A match of the start that was not read is on a page to come, unless one was deleted.
Unread(i) == \E k \in DOMAIN catalog : k > page * PageSize /\ catalog[k] = i
Complete ==
  ~shrunk =>
    /\ pc = "search" => \A i \in ToSet(Catalog) : i \in ToSet(all) \/ Unread(i)
    /\ pc \in {"plan", "check", "acquire", "wait"} \/ Started => ToSet(Catalog) \subseteq ToSet(all)

\* What the loop is given.
Planned ==
  /\ Started => todo = Downloadable
  /\ pc \in {"search", "plan"} => todo = <<>>
  /\ pc \in {"check", "acquire", "wait"} => Started
  /\ flags.dryRun => ~Started /\ (ret = "ok" /\ all # <<>> => report = Downloadable)
  /\ Started /\ flags.flatten => ~Collide(todo)

\* Where the loop and its goroutines are.
Pool ==
  /\ ret = "none" <=> pc # "gone"
  /\ pc = "acquire" => next <= Len(todo)
  /\ \A p \in Positions : w[p] # "none" <=> p < next
  /\ temp = {p \in Positions : w[p] \in {"copy", "rename"}}
  /\ ret \in {"ok", "error"} => Active = {}
  /\ pc = "wait" /\ ~cancelled => next > Len(todo)
  /\ ret = "ok" /\ Started /\ ~cancelled => next > Len(todo) /\ errors = 0

\* What is on disk, and who may still write where.
Disk ==
  /\ \A f \in Paths :
       \/ disk[f] = "none"
       \/ disk[f] = "old" /\ f \in Old
       \/ \E q \in DOMAIN todo : disk[f] = todo[q] /\ Out(todo[q]) = f
  /\ ~flags.overwrite =>
       /\ \A f \in Old : disk[f] = "old"
       /\ \A p \in Positions : w[p] \in {"request", "copy", "rename"} => Out(todo[p]) \notin Old

\* What is counted.
Served(p) == disk[Out(todo[p])] = todo[p] \/ (~flags.overwrite /\ disk[Out(todo[p])] = "old")
DoneSet == {p \in Positions : w[p] = "done"}
OnDisk  == {i \in ToSet(todo) : disk[Out(i)] = i}
Counts ==
  /\ downloaded \in Nat /\ skipped \in Nat /\ errors \in Nat
  /\ downloaded + skipped + errors = Cardinality(DoneSet)
  /\ IsFiniteSet(OnDisk) /\ Cardinality(OnDisk) <= downloaded
  /\ errors = 0 => \A p \in DOMAIN todo : w[p] = "done" => Served(p)

DownloadInv == Typed /\ Pages /\ Complete /\ Planned /\ Pool /\ Disk /\ Counts

(***************************************************************************)
(* The pre-filter.  Downloadable is a recursive function: that it exists,   *)
(* and what it computes, follow from the least number where they fail.      *)
(***************************************************************************)
LEMMA Least ==
  ASSUME NEW T \in SUBSET Nat, T # {}
  PROVE  \E m \in T : \A k \in T : m <= k
<1>1. PICK x \in T : \A y \in T : ~ (<<y, x>> \in OpToRel(<, Nat))
  BY NatLessThanWellFounded, WFMin
<1>2. \A y \in T : ~(y < x)
  BY <1>1 DEF OpToRel
<1> QED BY <1>2

\* k holds what the loop kept of each prefix of s, up to m.
Keeps(k, s, R, m) ==
  k = [n \in 0 .. m |-> IF n = 0 THEN <<>>
                        ELSE IF s[n] \in R THEN k[n - 1] ELSE Append(k[n - 1], s[n])]

\* Every prefix has such a function.
LEMMA KeepsExists ==
  ASSUME NEW s, NEW R, NEW l \in Nat
  PROVE  \E k : Keeps(k, s, R, l)
<1> DEFINE T == {m \in Nat : ~ \E k : Keeps(k, s, R, m)}
<1>1. SUFFICES ASSUME T # {} PROVE FALSE
  OBVIOUS
<1>2. PICK m \in T : \A k \in T : m <= k
  BY <1>1, Least
<1>3. CASE m = 0
  <2> DEFINE k == [n \in 0 .. 0 |-> <<>>]
  <2>1. Keeps(k, s, R, 0)
    BY DEF Keeps
  <2> QED BY <1>3, <2>1
<1>4. CASE m # 0
  <2>1. m - 1 \in Nat /\ m \in Nat
    BY <1>4
  <2>2. PICK k : Keeps(k, s, R, m - 1)
    BY <1>2, <2>1
  <2> DEFINE g == [n \in 0 .. m |-> IF n = m THEN IF s[m] \in R THEN k[m - 1] ELSE Append(k[m - 1], s[m])
                                    ELSE k[n]]
  <2>3. ASSUME NEW n \in 0 .. m
        PROVE  g[n] = IF n = 0 THEN <<>> ELSE IF s[n] \in R THEN g[n - 1] ELSE Append(g[n - 1], s[n])
    <3>1. CASE n = m
      <4>1. m - 1 \in 0 .. m /\ m - 1 # m
        BY <2>1
      <4>2. g[m - 1] = k[m - 1]
        BY <4>1
      <4> QED BY <1>4, <3>1, <4>2
    <3>2. CASE n # m
      <4>1. n \in 0 .. (m - 1)
        BY <2>1, <3>2
      <4>2. k[n] = IF n = 0 THEN <<>> ELSE IF s[n] \in R THEN k[n - 1] ELSE Append(k[n - 1], s[n])
        BY <2>2, <4>1 DEF Keeps
      <4>3. n # 0 => n - 1 \in 0 .. m /\ n - 1 # m
        BY <2>1, <4>1
      <4>4. g[n] = k[n] /\ (n # 0 => g[n - 1] = k[n - 1])
        BY <3>2, <4>3
      <4> QED BY <4>2, <4>4
    <3> QED BY <3>1, <3>2
  <2>4. Keeps(g, s, R, m)
    <3> HIDE DEF g
    <3>1. g = [n \in 0 .. m |-> g[n]]
      BY DEF g
    <3> QED BY <2>3, <3>1 DEF Keeps
  <2> QED BY <2>4
<1> QED BY <1>3, <1>4

\* What is kept of a prefix is no longer than it and has all that is not rejected.
Sifted(k, s, R, n) ==
  /\ k[n] \in Seq(Items) /\ Len(k[n]) <= n
  /\ \A i \in 1 .. n : s[i] \notin R => \E q \in 1 .. Len(k[n]) : k[n][q] = s[i]

\* One more element.
LEMMA SiftOne ==
  ASSUME NEW s \in Seq(Items), NEW R, NEW k, Keeps(k, s, R, Len(s)),
         NEW n \in 1 .. Len(s), Sifted(k, s, R, n - 1)
  PROVE  Sifted(k, s, R, n)
<1>1. s[n] \in Items /\ n - 1 \in Nat /\ n \in 0 .. Len(s) /\ n # 0
  BY LenProperties
<1>2. k[n] = IF s[n] \in R THEN k[n - 1] ELSE Append(k[n - 1], s[n])
  BY <1>1 DEF Keeps
<1>3. /\ k[n - 1] \in Seq(Items) /\ Len(k[n - 1]) \in Nat /\ Len(k[n - 1]) <= n - 1
      /\ \A i \in 1 .. (n - 1) : s[i] \notin R => \E q \in 1 .. Len(k[n - 1]) : k[n - 1][q] = s[i]
  BY LenProperties DEF Sifted
<1>4. CASE s[n] \in R
  <2>1. k[n] = k[n - 1]
    BY <1>2, <1>4
  <2>2. \A i \in 1 .. n : s[i] \notin R => i \in 1 .. (n - 1)
    BY <1>1, <1>4
  <2> QED BY <1>3, <2>1, <2>2 DEF Sifted
<1>5. CASE s[n] \notin R
  <2>1. k[n] = Append(k[n - 1], s[n])
    BY <1>2, <1>5
  <2>2. /\ k[n] \in Seq(Items) /\ Len(k[n]) = Len(k[n - 1]) + 1
        /\ k[n][Len(k[n - 1]) + 1] = s[n]
        /\ \A q \in 1 .. Len(k[n - 1]) : k[n][q] = k[n - 1][q]
    BY <1>1, <1>3, <2>1
  <2>3. ASSUME NEW i \in 1 .. n, s[i] \notin R
        PROVE  \E q \in 1 .. Len(k[n]) : k[n][q] = s[i]
    <3>1. CASE i = n
      BY <1>3, <2>2, <3>1
    <3>2. CASE i # n
      <4>1. i \in 1 .. (n - 1)
        BY <3>2
      <4>2. PICK q \in 1 .. Len(k[n - 1]) : k[n - 1][q] = s[i]
        BY <1>3, <2>3, <4>1
      <4> QED BY <1>3, <2>2, <4>2
    <3> QED BY <3>1, <3>2
  <2> QED BY <1>3, <2>2, <2>3 DEF Sifted
<1> QED BY <1>4, <1>5

\* All of them.
LEMMA SiftAll ==
  ASSUME NEW s \in Seq(Items), NEW R, NEW k, Keeps(k, s, R, Len(s))
  PROVE  Sifted(k, s, R, Len(s))
<1> DEFINE T == {n \in 0 .. Len(s) : ~Sifted(k, s, R, n)}
<1>0. Len(s) \in Nat
  BY LenProperties
<1>1. SUFFICES ASSUME T # {} PROVE FALSE
  BY <1>0
<1>2. PICK m \in T : \A n \in T : m <= n
  <2>1. T \in SUBSET Nat
    BY <1>0
  <2> HIDE DEF T
  <2> QED BY <1>1, <2>1, Least
<1>3. Sifted(k, s, R, 0)
  <2>1. k[0] = <<>>
    BY <1>0 DEF Keeps
  <2> QED BY <2>1 DEF Sifted
<1>4. m \in 1 .. Len(s) /\ m - 1 \in 0 .. Len(s)
  BY <1>2, <1>3
<1>5. Sifted(k, s, R, m - 1)
  BY <1>2, <1>4
<1> QED BY <1>2, <1>4, <1>5, SiftOne

\* The items to download are matches, no more than were found, and none is lost
\* that has a URL and a path under dest.
LEMMA DownloadableFacts ==
  ASSUME all \in Seq(Items)
  PROVE  /\ Downloadable \in Seq(Items) /\ Len(Downloadable) <= Len(all)
         /\ ToSet(all) \ Rejected \subseteq ToSet(Downloadable)
<1>0. Len(all) \in Nat /\ DOMAIN all = 1 .. Len(all)
  BY LenProperties
<1>1. PICK k : Keeps(k, all, Rejected, Len(all)) /\ Downloadable = k[Len(all)]
  <2>1. \E k : Keeps(k, all, Rejected, Len(all))
    BY <1>0, KeepsExists
  <2> QED BY <2>1 DEF Downloadable, Keeps
<1>2. Sifted(k, all, Rejected, Len(all))
  BY <1>1, SiftAll
<1>3. /\ Downloadable \in Seq(Items) /\ Len(Downloadable) <= Len(all)
      /\ \A i \in 1 .. Len(all) : all[i] \notin Rejected => \E q \in 1 .. Len(Downloadable) : Downloadable[q] = all[i]
  BY <1>1, <1>2 DEF Sifted
<1>4. DOMAIN Downloadable = 1 .. Len(Downloadable)
  BY <1>3, LenProperties
<1> QED BY <1>0, <1>3, <1>4 DEF ToSet

(***************************************************************************)
(* The catalog and its pages.                                               *)
(***************************************************************************)
\* A match that is published pushes those behind it back by one.
LEMMA InsertFacts ==
  ASSUME NEW c \in Seq(Items), IsInjective(c), NEW i \in Items \ ToSet(c), NEW k \in 1 .. (Len(c) + 1)
  PROVE  LET d == InsertAt(c, k, i)
         IN  /\ d \in Seq(Items) /\ IsInjective(d) /\ Len(d) = Len(c) + 1
             /\ \A q \in DOMAIN c : \E r \in DOMAIN d : r >= q /\ d[r] = c[q]
<1> DEFINE a == SubSeq(c, 1, k - 1)
           b == SubSeq(c, k, Len(c))
           d == InsertAt(c, k, i)
<1>0. Len(c) \in Nat /\ DOMAIN c = 1 .. Len(c) /\ \A q \in 1 .. Len(c) : c[q] \in Items
  BY LenProperties
<1>1. /\ a \in Seq(Items) /\ Len(a) = k - 1 /\ \A q \in 1 .. (k - 1) : a[q] = c[q]
  <2>1. /\ a \in Seq(Items) /\ Len(a) = IF 1 <= k - 1 THEN (k - 1) - 1 + 1 ELSE 0
        /\ \A q \in 1 .. ((k - 1) - 1 + 1) : a[q] = c[1 + q - 1]
    BY <1>0, SubSeqProperties
  <2> QED BY <1>0, <2>1
<1>2. /\ b \in Seq(Items) /\ Len(b) = Len(c) - k + 1 /\ \A q \in 1 .. (Len(c) - k + 1) : b[q] = c[k + q - 1]
  <2>1. /\ b \in Seq(Items) /\ Len(b) = IF k <= Len(c) THEN Len(c) - k + 1 ELSE 0
        /\ \A q \in 1 .. (Len(c) - k + 1) : b[q] = c[k + q - 1]
    BY <1>0, SubSeqProperties
  <2> QED BY <1>0, <2>1
<1>3. <<i>> \in Seq(Items) /\ Len(<<i>>) = 1 /\ <<i>>[1] = i
  OBVIOUS
<1>4. /\ a \o <<i>> \in Seq(Items) /\ Len(a \o <<i>>) = k
      /\ \A q \in 1 .. k : (a \o <<i>>)[q] = IF q <= k - 1 THEN a[q] ELSE <<i>>[q - (k - 1)]
  <2> HIDE DEF a
  <2>1. /\ a \o <<i>> \in Seq(Items) /\ Len(a \o <<i>>) = Len(a) + Len(<<i>>)
        /\ \A q \in 1 .. (Len(a) + Len(<<i>>)) :
             (a \o <<i>>)[q] = IF q <= Len(a) THEN a[q] ELSE <<i>>[q - Len(a)]
    BY <1>1, <1>3, ConcatProperties
  <2> QED BY <1>1, <1>3, <2>1
<1>5. /\ d \in Seq(Items) /\ Len(d) = Len(c) + 1
      /\ \A q \in 1 .. (Len(c) + 1) : d[q] = IF q <= k THEN (a \o <<i>>)[q] ELSE b[q - k]
  <2> DEFINE e == a \o <<i>>
  <2>0. d = e \o b
    BY DEF InsertAt
  <2>1. e \in Seq(Items) /\ Len(e) = k /\ b \in Seq(Items) /\ Len(b) = Len(c) - k + 1
    BY <1>2, <1>4
  <2> HIDE DEF a, b, d, e
  <2>2. /\ e \o b \in Seq(Items) /\ Len(e \o b) = Len(e) + Len(b)
        /\ \A q \in 1 .. (Len(e) + Len(b)) : (e \o b)[q] = IF q <= Len(e) THEN e[q] ELSE b[q - Len(e)]
    BY <2>1, ConcatProperties
  <2>3. /\ d \in Seq(Items) /\ Len(d) = Len(c) + 1
        /\ \A q \in 1 .. (Len(c) + 1) : d[q] = IF q <= k THEN e[q] ELSE b[q - k]
    BY <1>0, <2>0, <2>1, <2>2
  <2> QED BY <2>3 DEF e
<1>6. /\ \A q \in 1 .. (k - 1) : d[q] = c[q]
      /\ d[k] = i
      /\ \A q \in (k + 1) .. (Len(c) + 1) : d[q] = c[q - 1]
  <2> HIDE DEF a, b, d
  <2>1. \A q \in 1 .. (k - 1) : d[q] = c[q]
    BY <1>0, <1>1, <1>4, <1>5
  <2>2. d[k] = i
    BY <1>0, <1>3, <1>4, <1>5
  <2>3. \A q \in (k + 1) .. (Len(c) + 1) : d[q] = c[q - 1]
    <3> TAKE q \in (k + 1) .. (Len(c) + 1)
    <3>1. q - k \in 1 .. (Len(c) - k + 1) /\ k + (q - k) - 1 = q - 1
      BY <1>0
    <3>2. b[q - k] = c[k + (q - k) - 1]
      BY <1>2, <3>1
    <3>3. d[q] = b[q - k]
      BY <1>0, <1>5
    <3> QED BY <3>1, <3>2, <3>3
  <2> QED BY <2>1, <2>2, <2>3
<1>7. DOMAIN d = 1 .. (Len(c) + 1)
  BY <1>5, LenProperties
<1>8. \A q \in 1 .. Len(c) : c[q] # i
  BY <1>0 DEF ToSet
<1> HIDE DEF a, b, d
<1>9. IsInjective(d)
  <2> SUFFICES ASSUME NEW x \in 1 .. (Len(c) + 1), NEW y \in 1 .. (Len(c) + 1), d[x] = d[y], x < y  PROVE FALSE
    BY <1>0, <1>7 DEF IsInjective
  <2>0. \A q, r \in 1 .. Len(c) : c[q] = c[r] => q = r
    BY <1>0 DEF IsInjective
  <2>1. CASE y < k
    BY <1>0, <1>6, <2>0, <2>1
  <2>2. CASE y = k
    BY <1>0, <1>6, <1>8, <2>2
  <2>3. CASE y > k /\ x < k
    BY <1>0, <1>6, <2>0, <2>3
  <2>4. CASE y > k /\ x = k
    BY <1>0, <1>6, <1>8, <2>4
  <2>5. CASE y > k /\ x > k
    BY <1>0, <1>6, <2>0, <2>5
  <2> QED BY <1>0, <2>1, <2>2, <2>3, <2>4, <2>5
<1>10. \A q \in DOMAIN c : \E r \in DOMAIN d : r >= q /\ d[r] = c[q]
  <2> TAKE q \in DOMAIN c
  <2>1. CASE q < k
    BY <1>0, <1>6, <1>7, <2>1
  <2>2. CASE q >= k
    <3>1. q + 1 \in (k + 1) .. (Len(c) + 1) /\ (q + 1) - 1 = q
      BY <1>0, <2>2
    <3>2. d[q + 1] = c[q]
      BY <1>6, <3>1
    <3> QED BY <1>0, <1>7, <3>1, <3>2
  <2> QED BY <1>0, <2>1, <2>2
<1> QED BY <1>5, <1>9, <1>10 DEF d

\* A match that is deleted leaves one less.
LEMMA RemoveFacts ==
  ASSUME NEW c \in Seq(Items), IsInjective(c), NEW k \in DOMAIN c
  PROVE  LET d == RemoveAt(c, k)
         IN  d \in Seq(Items) /\ IsInjective(d) /\ Len(d) = Len(c) - 1
<1> DEFINE a == SubSeq(c, 1, k - 1)
           b == SubSeq(c, k + 1, Len(c))
           d == RemoveAt(c, k)
<1>0. Len(c) \in Nat /\ DOMAIN c = 1 .. Len(c) /\ \A q \in 1 .. Len(c) : c[q] \in Items
  BY LenProperties
<1>1. /\ a \in Seq(Items) /\ Len(a) = k - 1 /\ \A q \in 1 .. (k - 1) : a[q] = c[q]
  <2>1. /\ a \in Seq(Items) /\ Len(a) = IF 1 <= k - 1 THEN (k - 1) - 1 + 1 ELSE 0
        /\ \A q \in 1 .. ((k - 1) - 1 + 1) : a[q] = c[1 + q - 1]
    BY <1>0, SubSeqProperties
  <2> QED BY <1>0, <2>1
<1>2. /\ b \in Seq(Items) /\ Len(b) = Len(c) - k /\ \A q \in 1 .. (Len(c) - k) : b[q] = c[k + q]
  <2>1. /\ b \in Seq(Items) /\ Len(b) = IF k + 1 <= Len(c) THEN Len(c) - (k + 1) + 1 ELSE 0
        /\ \A q \in 1 .. (Len(c) - (k + 1) + 1) : b[q] = c[(k + 1) + q - 1]
    BY <1>0, SubSeqProperties
  <2>2. k \in Nat /\ Len(c) - (k + 1) + 1 = Len(c) - k /\ \A q \in 1 .. (Len(c) - k) : (k + 1) + q - 1 = k + q
    BY <1>0
  <2>3. Len(b) = Len(c) - k
    BY <1>0, <2>1, <2>2
  <2> QED BY <2>1, <2>2, <2>3
<1>3. /\ d \in Seq(Items) /\ Len(d) = Len(c) - 1
      /\ \A q \in 1 .. (Len(c) - 1) : d[q] = IF q < k THEN c[q] ELSE c[q + 1]
  <2>0. d = a \o b
    BY DEF RemoveAt
  <2> HIDE DEF a, b, d
  <2>1. /\ a \o b \in Seq(Items) /\ Len(a \o b) = Len(a) + Len(b)
        /\ \A q \in 1 .. (Len(a) + Len(b)) : (a \o b)[q] = IF q <= Len(a) THEN a[q] ELSE b[q - Len(a)]
    BY <1>1, <1>2, ConcatProperties
  <2>2. ASSUME NEW q \in 1 .. (Len(c) - 1)
        PROVE  d[q] = IF q < k THEN c[q] ELSE c[q + 1]
    <3>1. CASE q < k
      BY <1>0, <1>1, <1>2, <2>0, <2>1, <3>1
    <3>2. CASE q >= k
      <4>1. q - (k - 1) \in 1 .. (Len(c) - k) /\ k + (q - (k - 1)) = q + 1
        BY <1>0, <3>2
      <4>2. b[q - (k - 1)] = c[k + (q - (k - 1))]
        BY <1>2, <4>1
      <4>3. q \in 1 .. (Len(a) + Len(b)) /\ ~(q <= Len(a)) /\ q - Len(a) = q - (k - 1)
        BY <1>0, <1>1, <1>2, <3>2
      <4>4. d[q] = b[q - (k - 1)]
        BY <2>0, <2>1, <4>3
      <4> QED BY <1>0, <3>2, <4>1, <4>2, <4>4
    <3> QED BY <1>0, <3>1, <3>2
  <2> QED BY <1>0, <1>1, <1>2, <2>0, <2>1, <2>2
<1>4. DOMAIN d = 1 .. (Len(c) - 1)
  BY <1>3, LenProperties
<1> HIDE DEF a, b, d
<1>5. IsInjective(d)
  <2> SUFFICES ASSUME NEW x \in 1 .. (Len(c) - 1), NEW y \in 1 .. (Len(c) - 1), d[x] = d[y], x < y  PROVE FALSE
    BY <1>0, <1>4 DEF IsInjective
  <2>0. \A q, r \in 1 .. Len(c) : c[q] = c[r] => q = r
    BY <1>0 DEF IsInjective
  <2> QED BY <1>0, <1>3, <2>0
<1> QED BY <1>3, <1>5 DEF d

\* Products are out of the provers' way once named.
LEMMA NextPage ==
  ASSUME NEW n \in Nat
  PROVE  n * PageSize \in Nat /\ (n + 1) * PageSize = n * PageSize + PageSize /\ PageSize \in Nat
  BY DownloadConstants

\* A page holds what is left from x, up to y.
LEMMA PageOfBounds ==
  ASSUME NEW c \in Seq(Items), NEW x \in Nat, NEW y \in Nat, x < y
  PROVE  LET items == SubSeq(c, x + 1, IF y < Len(c) THEN y ELSE Len(c))
         IN  /\ items \in Seq(Items) /\ Len(items) <= y - x
             /\ items = <<>> \/ Len(items) <= Len(c) - x
             /\ items = <<>> => Len(c) <= x
             /\ \A k \in DOMAIN c : k > x /\ k <= y => c[k] \in ToSet(items)
<1>0. Len(c) \in Nat /\ DOMAIN c = 1 .. Len(c) /\ \A q \in 1 .. Len(c) : c[q] \in Items
  BY LenProperties
<1>a. Len(c) \in Nat
  BY <1>0
<1>b. PICK t \in Nat : t = IF y < Len(c) THEN y ELSE Len(c)
  BY <1>a
<1>1. t <= Len(c) /\ t <= y /\ (t = y \/ t = Len(c))
  BY <1>a, <1>b
<1> DEFINE items == SubSeq(c, x + 1, t)
<1>2. /\ items \in Seq(Items) /\ Len(items) = IF x + 1 <= t THEN t - x ELSE 0
      /\ \A q \in 1 .. (t - x) : items[q] = c[x + q]
  <2>0. \A q \in (x + 1) .. t : q \in 1 .. Len(c)
    BY <1>a, <1>1
  <2>1. \A q \in (x + 1) .. t : c[q] \in Items
    BY <1>0, <2>0
  <2>2. /\ items \in Seq(Items) /\ Len(items) = IF x + 1 <= t THEN t - (x + 1) + 1 ELSE 0
        /\ \A q \in 1 .. (t - (x + 1) + 1) : items[q] = c[(x + 1) + q - 1]
    BY <2>1, SubSeqProperties
  <2> QED BY <2>2
<1> HIDE DEF items
<1>3. items = <<>> <=> Len(items) = 0
  BY <1>2
<1>4. items = <<>> => Len(c) <= x
  BY <1>a, <1>1, <1>2, <1>3
<1>5. Len(items) <= y - x /\ (items = <<>> \/ Len(items) <= Len(c) - x)
  BY <1>a, <1>1, <1>2, <1>3
<1>6. ASSUME NEW k \in DOMAIN c, k > x, k <= y
      PROVE  c[k] \in ToSet(items)
  <2>0. k \in Nat /\ k <= t /\ k > x
    <3>1. k \in 1 .. Len(c)
      BY <1>0
    <3> QED BY <1>a, <1>1, <1>6, <3>1
  <2>1. k - x \in 1 .. (t - x) /\ x + (k - x) = k /\ k - x \in 1 .. Len(items)
    BY <1>2, <2>0
  <2>2. items[k - x] = c[k]
    BY <1>2, <2>1
  <2>3. DOMAIN items = 1 .. Len(items)
    BY <1>2, LenProperties
  <2> QED BY <2>1, <2>2, <2>3 DEF ToSet
<1> QED BY <1>b, <1>2, <1>4, <1>5, <1>6 DEF items

\* A page of the catalog.
LEMMA PageFacts ==
  ASSUME catalog \in Seq(Items), NEW n \in Nat
  PROVE  LET items == PageOf(n)
         IN  /\ items \in Seq(Items) /\ Len(items) <= PageSize
             /\ items = <<>> \/ Len(items) <= Len(catalog) - n * PageSize
             /\ items = <<>> => Len(catalog) <= n * PageSize
             /\ \A k \in DOMAIN catalog :
                  k > n * PageSize /\ k <= (n + 1) * PageSize => catalog[k] \in ToSet(items)
<1>1. PICK x \in Nat, y \in Nat : x = n * PageSize /\ y = (n + 1) * PageSize /\ x < y /\ y - x = PageSize
  <2>1. PageSize \in Nat /\ PageSize > 0
    BY DownloadConstants
  <2> QED BY <2>1, NextPage
<1>2. PageOf(n) = SubSeq(catalog, x + 1, IF y < Len(catalog) THEN y ELSE Len(catalog))
  BY <1>1 DEF PageOf
<1>3. LET items == PageOf(n)
      IN  /\ items \in Seq(Items) /\ Len(items) <= y - x
          /\ items = <<>> \/ Len(items) <= Len(catalog) - x
          /\ items = <<>> => Len(catalog) <= x
          /\ \A k \in DOMAIN catalog : k > x /\ k <= y => catalog[k] \in ToSet(items)
  BY <1>1, <1>2, PageOfBounds
<1> QED BY <1>1, <1>3

(***************************************************************************)
(* What the invariant says of a position, and of an idle pool.              *)
(***************************************************************************)
\* The positions of the loop are positions of the model, and their targets are paths.
LEMMA PositionFacts ==
  ASSUME Typed, Pages, Planned, Pool
  PROVE  /\ Len(todo) \in Nat /\ DOMAIN todo = 1 .. Len(todo) /\ DOMAIN todo \subseteq Positions
         /\ \A p \in DOMAIN todo : todo[p] \in Items /\ Out(todo[p]) \in Paths
         /\ \A p \in Positions : w[p] # "none" => p \in DOMAIN todo
<1>1. Len(todo) \in Nat /\ DOMAIN todo = 1 .. Len(todo) /\ Len(all) \in Nat /\ Len(Catalog) \in Nat
  BY LenProperties, DownloadConstants DEF Typed
<1>2. Len(todo) <= Len(all)
  <2>1. CASE todo = <<>>
    BY <1>1, <2>1
  <2>2. CASE Started
    BY <2>2, DownloadableFacts DEF Planned, Typed
  <2> QED BY <2>1, <2>2 DEF Started
<1>3. drift \in Nat /\ drift <= MaxDrift /\ MaxDrift \in Nat
  BY DownloadConstants DEF Typed
<1>4. Len(todo) <= Len(Catalog) + MaxDrift
  BY <1>1, <1>2, <1>3 DEF Pages
<1>5. DOMAIN todo \subseteq Positions
  BY <1>1, <1>3, <1>4 DEF Positions
<1>6. ASSUME NEW p \in DOMAIN todo
      PROVE  todo[p] \in Items /\ Out(todo[p]) \in Paths
  <2>1. todo[p] \in Items
    BY <1>1, ElementOfSeq DEF Typed
  <2> QED BY <2>1 DEF Out, Paths
<1>7. ASSUME NEW p \in Positions, w[p] # "none"
      PROVE  p \in DOMAIN todo
  <2>1. p \in Nat /\ p >= 1 /\ p < next /\ next \in 1 .. (Len(todo) + 1)
    BY <1>1, <1>3, <1>7 DEF Positions, Pool, Typed
  <2> QED BY <1>1, <2>1
<1> QED BY <1>1, <1>5, <1>6, <1>7

\* Before the loop no goroutine was started.
LEMMA IdleFacts ==
  ASSUME Typed, Pool, todo = <<>>
  PROVE  /\ next = 1 /\ \A p \in Positions : w[p] = "none"
         /\ Active = {} /\ DoneSet = {} /\ OnDisk = {} /\ temp = {}
<1>1. next = 1
  BY DEF Typed
<1>2. \A p \in Positions : w[p] = "none"
  <2>1. \A p \in Positions : ~(p < 1)
    BY DownloadConstants, LenProperties DEF Positions
  <2> QED BY <1>1, <2>1 DEF Pool
<1>3. Active = {} /\ DoneSet = {} /\ temp = {}
  BY <1>2 DEF Active, DoneSet, Pool
<1>4. ToSet(<<>>) = {}
  BY DEF ToSet
<1>5. OnDisk = {}
  BY <1>4 DEF OnDisk
<1> QED BY <1>1, <1>2, <1>3, <1>5

\* Two positions with one target have one item: without --flatten the target is the
\* item's path, and with it a collision ends the command.
LEMMA OneItemPerTarget ==
  ASSUME Typed, Planned, NEW p \in DOMAIN todo, NEW q \in DOMAIN todo, Out(todo[p]) = Out(todo[q])
  PROVE  todo[p] = todo[q]
<1>1. CASE flags.flatten
  <2>1. Started
    BY LenProperties DEF Typed, Started
  <2>2. ~Collide(todo)
    BY <1>1, <2>1 DEF Planned
  <2>3. Base[todo[p]] = Base[todo[q]]
    BY <1>1 DEF Out
  <2> QED BY <2>2, <2>3 DEF Collide
<1>2. CASE ~flags.flatten
  BY <1>2 DEF Out
<1> QED BY <1>1, <1>2

\* The filter and the targets depend on the search and the flags alone.
LEMMA SameFilter ==
  ASSUME UNCHANGED <<flags, all>>
  PROVE  Downloadable' = Downloadable /\ Rejected' = Rejected
BY DEF Downloadable, Rejected

(***************************************************************************)
(* The initial state.                                                       *)
(***************************************************************************)
LEMMA InitInv == Init => DownloadInv
<1> SUFFICES ASSUME Init PROVE DownloadInv
  OBVIOUS
<1> USE DEF Init
<1>0. Len(Catalog) \in Nat /\ DOMAIN Catalog = 1 .. Len(Catalog) /\ PageSize \in Nat /\ MaxDrift \in Nat
  BY LenProperties, DownloadConstants
<1>1. todo = <<>> /\ ToSet(todo) = {} /\ ~Started
  BY DEF ToSet, Started
<1>2. Typed
  <2>1. <<>> \in Seq(Items) /\ Len(<<>>) = 0
    OBVIOUS
  <2>2. catalog \in Seq(Items) /\ IsInjective(catalog)
    BY DownloadConstants
  <2>3. disk \in [Paths -> {"none", "old", "part"} \cup Items]
    OBVIOUS
  <2>4. w \in [Positions -> Working \cup {"none", "done"}]
    OBVIOUS
  <2>5. drift \in 0 .. MaxDrift /\ page \in 0 .. Len(all) /\ next \in 1 .. (Len(todo) + 1)
    BY <1>0, <2>1
  <2> QED BY <2>1, <2>2, <2>3, <2>4, <2>5 DEF Typed, Phases
<1>3. Pages
  BY <1>0 DEF Pages
<1>4. Complete
  <2>1. ASSUME NEW i \in ToSet(Catalog) PROVE Unread(i)
    BY <1>0 DEF ToSet, Unread
  <2> QED BY <1>1, <2>1 DEF Complete
<1>5. Planned
  BY <1>1 DEF Planned
<1>6. Pool
  <2>1. \A p \in Positions : ~(p < 1)
    BY <1>0 DEF Positions
  <2> QED BY <2>1 DEF Pool, Active
<1>7. Disk
  BY DownloadConstants DEF Disk
<1>8. Counts
  <2>1. DoneSet = {}
    BY DEF DoneSet
  <2>2. OnDisk = {}
    BY <1>1 DEF OnDisk
  <2> QED BY <2>1, <2>2, FS_EmptySet DEF Counts
<1> QED BY <1>2, <1>3, <1>4, <1>5, <1>6, <1>7, <1>8 DEF DownloadInv

(***************************************************************************)
(* The search.                                                              *)
(***************************************************************************)
\* A change of the registry moves no unread match of the start to a page that was read,
\* unless it deletes one.
LEMMA DriftKeeps == DownloadInv /\ Drift => DownloadInv'
<1> SUFFICES ASSUME DownloadInv, Drift PROVE DownloadInv'
  OBVIOUS
<1> USE DEF DownloadInv
<1>0. /\ pc = "search" /\ drift' = drift + 1 /\ drift < MaxDrift
      /\ UNCHANGED <<flags, pc, searchVars, todo, next, poolVars, cancelled, diskVars, report, ret>>
  BY DEF Drift
<1>a. /\ Len(catalog) \in Nat /\ DOMAIN catalog = 1 .. Len(catalog) /\ Len(all) \in Nat
      /\ Len(Catalog) \in Nat /\ drift \in Nat /\ MaxDrift \in Nat /\ page \in Nat
  BY LenProperties, DownloadConstants DEF Typed
<1> DEFINE Moved ==
      /\ catalog' \in Seq(Items) /\ IsInjective(catalog') /\ Len(catalog') \in Nat
      /\ Len(catalog') <= Len(catalog) + 1
      /\ shrunk' \/ (shrunk' = shrunk /\ \A i : Unread(i) => Unread(i)')
      /\ shrunk' \in BOOLEAN
<1>1. Moved
  <2>1. ASSUME NEW k \in DOMAIN catalog, catalog' = RemoveAt(catalog, k), shrunk' = TRUE
        PROVE  Moved
    BY <1>a, <2>1, RemoveFacts DEF Typed
  <2>2. ASSUME NEW i \in Items \ ToSet(catalog), NEW k \in 1 .. (Len(catalog) + 1),
               catalog' = InsertAt(catalog, k, i), shrunk' = shrunk
        PROVE  Moved
    <3>1. /\ catalog' \in Seq(Items) /\ IsInjective(catalog') /\ Len(catalog') = Len(catalog) + 1
          /\ \A q \in DOMAIN catalog : \E r \in DOMAIN catalog' : r >= q /\ catalog'[r] = catalog[q]
      BY <2>2, InsertFacts DEF Typed
    <3>2. ASSUME NEW j, Unread(j) PROVE Unread(j)'
      <4>0. PICK x \in Nat : x = page * PageSize
        BY <1>a, NextPage
      <4>1. PICK q \in DOMAIN catalog : q > x /\ catalog[q] = j
        BY <3>2, <4>0 DEF Unread
      <4>2. PICK r \in DOMAIN catalog' : r >= q /\ catalog'[r] = catalog[q]
        BY <3>1
      <4>3. r \in Nat /\ q \in Nat
        BY <1>a, <3>1, LenProperties
      <4>4. r > x
        BY <4>1, <4>2, <4>3
      <4> QED BY <1>0, <4>0, <4>1, <4>2, <4>4 DEF Unread, searchVars
    <3> QED BY <1>a, <2>2, <3>1, <3>2 DEF Typed
  <2> QED BY <2>1, <2>2 DEF Drift
<1>2. Typed'
  BY <1>0, <1>a, <1>1 DEF Typed, searchVars, poolVars, diskVars
<1>3. Pages'
  <2>1. PICK x \in Nat : x = page * PageSize
    BY <1>a, NextPage
  <2>2. Len(all) <= Len(Catalog) + drift /\ Len(all) + Len(catalog) <= Len(Catalog) + drift + x
    BY <1>0, <2>1 DEF Pages
  <2>3. Len(all) <= Len(Catalog) + (drift + 1) /\ Len(all) + Len(catalog') <= Len(Catalog) + (drift + 1) + x
    BY <1>a, <1>1, <2>2
  <2> QED BY <1>0, <2>1, <2>3 DEF Pages, searchVars
<1>4. Complete'
  <2>1. ~Started
    BY <1>0 DEF Planned, Started
  <2> QED BY <1>0, <1>1, <2>1 DEF Complete, searchVars, Started
<1>5. Planned'
  BY <1>0, SameFilter DEF Planned, Started, Collide, searchVars
<1>6. Pool'
  BY <1>0 DEF Pool, Active, Started, poolVars, diskVars
<1>7. Disk'
  BY <1>0 DEF Disk, Out, poolVars, diskVars
<1>8. Counts'
  BY <1>0 DEF Counts, DoneSet, OnDisk, Served, Out, poolVars, diskVars
<1> QED BY <1>2, <1>3, <1>4, <1>5, <1>6, <1>7, <1>8

\* A page adds its matches to those that were found.
LEMMA SearchKeeps == DownloadInv /\ Search => DownloadInv'
<1> SUFFICES ASSUME DownloadInv, Search PROVE DownloadInv'
  OBVIOUS
<1> USE DEF DownloadInv
<1> DEFINE items == PageOf(page)
<1>0. /\ pc = "search" /\ all' = all \o items
      /\ UNCHANGED <<flags, registryVars, todo, next, poolVars, cancelled, diskVars, report, ret>>
      /\ \/ pc' = pc /\ page' = page + 1 /\ items # <<>>
         \/ /\ pc' = "plan" /\ page' = page
            /\ items = <<>> \/ ~(Len(catalog) > (page + 1) * PageSize)
  BY DEF Search
<1>a. /\ Len(catalog) \in Nat /\ DOMAIN catalog = 1 .. Len(catalog) /\ Len(all) \in Nat
      /\ Len(Catalog) \in Nat /\ drift \in Nat /\ page \in Nat /\ page <= Len(all)
  BY LenProperties, DownloadConstants DEF Typed
<1>b. PICK x \in Nat, y \in Nat : x = page * PageSize /\ y = (page + 1) * PageSize /\ y = x + PageSize
  <2>1. page * PageSize \in Nat /\ (page + 1) * PageSize = page * PageSize + PageSize /\ PageSize \in Nat
    BY <1>a, NextPage
  <2>2. (page + 1) * PageSize \in Nat
    BY <2>1
  <2> QED BY <2>1, <2>2
<1>1. /\ items \in Seq(Items) /\ Len(items) \in Nat /\ Len(items) <= PageSize
      /\ items = <<>> \/ Len(items) <= Len(catalog) - x
      /\ items = <<>> => Len(catalog) <= x
      /\ \A k \in DOMAIN catalog : k > x /\ k <= y => catalog[k] \in ToSet(items)
  <2>1. catalog \in Seq(Items)
    BY DEF Typed
  <2>2. /\ items \in Seq(Items) /\ Len(items) <= PageSize
        /\ items = <<>> \/ Len(items) <= Len(catalog) - page * PageSize
        /\ items = <<>> => Len(catalog) <= page * PageSize
        /\ \A k \in DOMAIN catalog : k > page * PageSize /\ k <= (page + 1) * PageSize => catalog[k] \in ToSet(items)
    BY <1>a, <2>1, PageFacts
  <2>3. Len(items) \in Nat
    BY <2>2, LenProperties
  <2> QED BY <1>b, <2>2, <2>3
<1> HIDE DEF items
<1>2. items = <<>> => Len(items) = 0
  OBVIOUS
<1>3. /\ all' \in Seq(Items) /\ Len(all') = Len(all) + Len(items)
      /\ ToSet(all) \subseteq ToSet(all') /\ ToSet(items) \subseteq ToSet(all')
  <2>1. all \in Seq(Items)
    BY DEF Typed
  <2>2. /\ all' \in Seq(Items) /\ Len(all') = Len(all) + Len(items)
        /\ \A i \in 1 .. (Len(all) + Len(items)) : all'[i] = IF i <= Len(all) THEN all[i] ELSE items[i - Len(all)]
    BY <1>0, <1>1, <2>1, ConcatProperties
  <2>3. /\ DOMAIN all' = 1 .. (Len(all) + Len(items)) /\ DOMAIN all = 1 .. Len(all)
        /\ DOMAIN items = 1 .. Len(items)
    BY <1>1, <2>1, <2>2, LenProperties
  <2>4. ASSUME NEW i \in 1 .. Len(all) PROVE i \in DOMAIN all' /\ all'[i] = all[i]
    BY <1>a, <1>1, <2>2, <2>3
  <2>5. ASSUME NEW i \in 1 .. Len(items)
        PROVE  i + Len(all) \in DOMAIN all' /\ all'[i + Len(all)] = items[i]
    <3>1. i + Len(all) \in 1 .. (Len(all) + Len(items)) /\ (i + Len(all)) - Len(all) = i /\ ~(i + Len(all) <= Len(all))
      BY <1>a, <1>1
    <3> QED BY <2>2, <2>3, <3>1
  <2>6. ToSet(all) \subseteq ToSet(all')
    BY <2>3, <2>4 DEF ToSet
  <2>7. ToSet(items) \subseteq ToSet(all')
    BY <2>3, <2>5 DEF ToSet
  <2> QED BY <2>2, <2>6, <2>7
<1>4. items # <<>> => Len(items) >= 1
  BY <1>1
<1>5. Typed'
  <2>1. page' \in 0 .. Len(all')
    BY <1>0, <1>a, <1>1, <1>3, <1>4
  <2>2. pc' \in Phases
    BY <1>0 DEF Phases
  <2> QED BY <1>0, <1>3, <2>1, <2>2 DEF Typed, registryVars, poolVars, diskVars
<1>6. Pages'
  <2>1. Len(all) <= Len(Catalog) + drift /\ Len(all) + Len(catalog) <= Len(Catalog) + drift + x
    BY <1>0, <1>b DEF Pages
  <2>2. PageSize \in Nat
    BY DownloadConstants
  <2>3. Len(all') <= Len(Catalog) + drift
    BY <1>a, <1>1, <1>2, <1>3, <2>1
  <2>4. Len(all') + Len(catalog) <= Len(Catalog) + drift + y
    BY <1>a, <1>b, <1>1, <1>3, <2>1, <2>2
  <2> QED BY <1>0, <1>b, <2>3, <2>4 DEF Pages, registryVars
<1>7. Complete'
  <2> SUFFICES ASSUME ~shrunk, NEW i \in ToSet(Catalog)
      PROVE  i \in ToSet(all') \/ (pc' = "search" /\ Unread(i)')
    <3>1. ~Started
      BY <1>0 DEF Planned, Started
    <3> QED BY <1>0, <3>1 DEF Complete, registryVars, Started
  <2>1. CASE i \in ToSet(all)
    BY <1>3, <2>1
  <2>2. CASE i \notin ToSet(all)
    <3>1. PICK k \in DOMAIN catalog : k > x /\ catalog[k] = i
      BY <1>0, <1>b, <2>2 DEF Complete, Unread
    <3>2. k \in Nat /\ k <= Len(catalog)
      BY <1>a
    <3>3. CASE k <= y
      BY <1>1, <1>3, <3>1, <3>3
    <3>4. CASE k > y
      <4>1. Len(catalog) > y /\ ~(Len(catalog) <= x)
        BY <1>a, <3>1, <3>2, <3>4
      <4>2. pc' = "search" /\ page' = page + 1
        BY <1>0, <1>b, <1>1, <4>1
      <4> QED BY <1>0, <1>b, <3>1, <3>4, <4>2 DEF Unread, registryVars
    <3> QED BY <1>b, <3>2, <3>3, <3>4
  <2> QED BY <2>1, <2>2
<1>8. Planned'
  <2>1. todo = <<>> /\ ret = "none"
    BY <1>0 DEF Planned, Pool
  <2> QED BY <1>0, <2>1 DEF Planned, Started
<1>9. Pool'
  BY <1>0 DEF Pool, Active, Started, Planned, poolVars, diskVars
<1>10. Disk'
  BY <1>0 DEF Disk, Out, poolVars, diskVars
<1>11. Counts'
  BY <1>0 DEF Counts, DoneSet, OnDisk, Served, Out, poolVars, diskVars
<1> QED BY <1>5, <1>6, <1>7, <1>8, <1>9, <1>10, <1>11

(***************************************************************************)
(* The handler, from the filter to the exit.                                *)
(***************************************************************************)
\* A step that only moves the handler touches neither the disk nor the counts.
LEMMA ControlKeeps ==
  ASSUME DownloadInv,
         UNCHANGED <<flags, registryVars, searchVars, todo, next, poolVars, diskVars>>,
         pc' \in Phases, cancelled' \in BOOLEAN, ret' \in {"none", "ok", "error", "killed"},
         cancelled => cancelled', ret' = "none" <=> pc' # "gone",
         pc' = "search" => pc = "search", pc' = "plan" => pc = "plan",
         pc' \in {"check", "acquire", "wait"} => pc \in {"check", "acquire", "wait"},
         flags.dryRun /\ ret' = "ok" /\ all # <<>> => report' = Downloadable,
         pc' = "acquire" => next <= Len(todo),
         ret' \in {"ok", "error"} => Active = {},
         pc' = "wait" /\ ~cancelled' => next > Len(todo),
         ret' = "ok" /\ Started /\ ~cancelled' => next > Len(todo) /\ errors = 0
  PROVE  DownloadInv'
<1> USE DEF DownloadInv
<1>1. Typed'
  BY DEF Typed, registryVars, searchVars, poolVars, diskVars
<1>2. Pages'
  BY DEF Pages, registryVars, searchVars
<1>3. Complete'
  BY DEF Complete, Unread, Started, registryVars, searchVars
<1>4. Planned'
  <2>1. Downloadable' = Downloadable
    BY SameFilter DEF searchVars
  <2> QED BY <2>1 DEF Planned, Started, Collide, searchVars
<1>5. Pool'
  BY DEF Pool, Active, Started, poolVars, diskVars
<1>6. Disk'
  BY DEF Disk, Out, poolVars, diskVars
<1>7. Counts'
  BY DEF Counts, DoneSet, OnDisk, Served, Out, poolVars, diskVars
<1> QED BY <1>1, <1>2, <1>3, <1>4, <1>5, <1>6, <1>7

\* While the handler searches or plans, no goroutine was started.
LEMMA NothingActive == DownloadInv /\ pc \in {"search", "plan"} => Active = {} /\ ~Started
  BY IdleFacts DEF DownloadInv, Planned, Started

\* The signals, a failed search, the loop's look at the context, and the exit.
LEMMA QuietKeeps ==
  ASSUME DownloadInv, Interrupt \/ Kill \/ SearchFails \/ Check \/ LaunchStops \/ Return
  PROVE  DownloadInv'
<1> USE DEF DownloadInv
<1>1. CASE Interrupt
  BY <1>1, ControlKeeps DEF Interrupt, Typed, Planned, Pool
<1>2. CASE Kill
  BY <1>2, ControlKeeps DEF Kill, Typed, Phases
<1>3. CASE SearchFails
  BY <1>3, ControlKeeps, NothingActive DEF SearchFails, Typed, Phases
<1>4. CASE Check
  <2>1. /\ pc = "check" /\ ret = "none" /\ Started
        /\ pc' = IF next > Len(todo) \/ cancelled THEN "wait" ELSE "acquire"
        /\ UNCHANGED <<flags, registryVars, searchVars, todo, next, poolVars, cancelled, diskVars, report, ret>>
    BY <1>4 DEF Check, Pool, Planned
  <2>2. next \in Nat /\ Len(todo) \in Nat
    BY LenProperties DEF Typed
  <2>3. /\ pc' \in {"wait", "acquire"}
        /\ pc' = "acquire" => next <= Len(todo)
        /\ pc' = "wait" /\ ~cancelled => next > Len(todo)
    BY <2>1, <2>2
  <2> QED BY <2>1, <2>3, ControlKeeps DEF Typed, Phases
<1>5. CASE LaunchStops
  BY <1>5, ControlKeeps DEF LaunchStops, Typed, Phases, Pool
<1>6. CASE Return
  <2>1. /\ pc = "wait" /\ Active = {} /\ pc' = "gone" /\ ret' = IF errors > 0 THEN "error" ELSE "ok"
        /\ UNCHANGED <<flags, registryVars, searchVars, todo, next, poolVars, cancelled, diskVars, report>>
    BY <1>6 DEF Return
  <2>2. errors \in Nat
    BY DEF Counts
  <2>3. ret' \in {"ok", "error"} /\ (ret' = "ok" => errors = 0)
    BY <2>1, <2>2
  <2>4. ~flags.dryRun /\ (~cancelled => next > Len(todo))
    BY <2>1 DEF Planned, Pool
  <2> QED BY <2>1, <2>3, <2>4, ControlKeeps DEF Typed, Phases
<1> QED BY <1>1, <1>2, <1>3, <1>4, <1>5, <1>6

\* The plan ends the command, or hands the filtered items to the loop.
LEMMA PlanKeeps == DownloadInv /\ Plan => DownloadInv'
<1> SUFFICES ASSUME DownloadInv, Plan PROVE DownloadInv'
  OBVIOUS
<1> USE DEF DownloadInv
<1>0. /\ pc = "plan" /\ todo = <<>> /\ ret = "none" /\ ~Started /\ Active = {}
      /\ UNCHANGED <<flags, registryVars, searchVars, next, poolVars, cancelled, diskVars>>
  BY NothingActive DEF Plan, Planned, Pool
<1>1. \/ \E r \in {"ok", "error"} :
           Stop(r) /\ (flags.dryRun /\ r = "ok" /\ all # <<>> => report' = Downloadable)
      \/ /\ Begin(Downloadable) /\ Downloadable # <<>> /\ ~flags.dryRun
         /\ flags.flatten => ~Collide(Downloadable)
  BY DEF Plan
<1>2. CASE \E r \in {"ok", "error"} :
             Stop(r) /\ (flags.dryRun /\ r = "ok" /\ all # <<>> => report' = Downloadable)
  BY <1>0, <1>2, ControlKeeps DEF Stop, Typed, Phases
<1>3. CASE /\ Begin(Downloadable) /\ Downloadable # <<>> /\ ~flags.dryRun
           /\ flags.flatten => ~Collide(Downloadable)
  <2>1. todo' = Downloadable /\ pc' = "check" /\ ret' = ret /\ Downloadable' = Downloadable
    BY <1>0, <1>3, SameFilter DEF Begin, searchVars
  <2>2. Downloadable \in Seq(Items) /\ Len(Downloadable) \in Nat
    BY DownloadableFacts, LenProperties DEF Typed
  <2>3. /\ next = 1 /\ \A p \in Positions : w[p] = "none"
        /\ Active = {} /\ DoneSet = {} /\ OnDisk = {} /\ temp = {}
    BY <1>0, IdleFacts
  <2>4. \A f \in Paths : disk[f] = "none" \/ (disk[f] = "old" /\ f \in Old)
    BY <1>0 DEF Disk
  <2>5. Typed'
    BY <1>0, <2>1, <2>2, <2>3 DEF Typed, Phases, registryVars, searchVars, poolVars, diskVars
  <2>6. Pages'
    BY <1>0, <2>1 DEF Pages, registryVars, searchVars
  <2>7. Complete'
    BY <1>0, <2>1 DEF Complete, registryVars, searchVars
  <2>8. Planned'
    BY <1>0, <1>3, <2>1 DEF Planned, Started, Collide
  <2>9. Pool'
    <3>1. \A p \in Positions : ~(p < 1)
      BY DownloadConstants, LenProperties DEF Positions
    <3>2. Active' = {}
      BY <1>0, <2>3 DEF Active, poolVars
    <3> QED BY <1>0, <2>1, <2>3, <3>1, <3>2 DEF Pool, poolVars, diskVars
  <2>10. Disk'
    <3>1. \A p \in Positions : w[p] \notin {"request", "copy", "rename"}
      BY <2>3
    <3> QED BY <1>0, <2>4, <3>1 DEF Disk, poolVars, diskVars
  <2>11. Counts'
    <3>1. DoneSet' = {}
      BY <1>0, <2>3 DEF DoneSet, poolVars
    <3>2. ASSUME NEW i \in ToSet(Downloadable) PROVE disk[IF flags.flatten THEN Base[i] ELSE i] # i
      <4>1. i \in Items
        BY <2>2, <3>2, LenProperties DEF ToSet
      <4>2. (IF flags.flatten THEN Base[i] ELSE i) \in Paths /\ i # "none" /\ i # "old"
        BY <4>1, DownloadConstants DEF Paths
      <4> QED BY <2>4, <4>2
    <3>3. OnDisk' = {}
      BY <1>0, <2>1, <3>2 DEF OnDisk, Out, diskVars
    <3>4. \A p \in DOMAIN todo' : p \in Positions => w'[p] # "done"
      BY <1>0, <2>3 DEF poolVars
    <3>5. DOMAIN todo' \subseteq Positions
      <4>1. Len(Downloadable) <= Len(all) /\ Len(all) <= Len(Catalog) + drift
        BY DownloadableFacts DEF Typed, Pages
      <4>2. /\ Len(all) \in Nat /\ Len(Catalog) \in Nat /\ MaxDrift \in Nat
            /\ drift \in Nat /\ drift <= MaxDrift
        BY LenProperties, DownloadConstants DEF Typed
      <4>3. Len(Downloadable) <= Len(Catalog) + MaxDrift
        BY <2>2, <4>1, <4>2
      <4>4. DOMAIN Downloadable = 1 .. Len(Downloadable)
        BY <2>2, LenProperties
      <4> QED BY <2>1, <2>2, <4>2, <4>3, <4>4 DEF Positions
    <3> QED BY <1>0, <2>3, <3>1, <3>3, <3>4, <3>5, FS_EmptySet DEF Counts, poolVars
  <2> QED BY <2>5, <2>6, <2>7, <2>8, <2>9, <2>10, <2>11
<1> QED BY <1>1, <1>2, <1>3

\* The loop starts the goroutine of its position.
LEMMA LaunchKeeps == DownloadInv /\ Launch => DownloadInv'
<1> SUFFICES ASSUME DownloadInv, Launch PROVE DownloadInv'
  OBVIOUS
<1> USE DEF DownloadInv
<1>0. /\ pc = "acquire" /\ pc' = "check" /\ w' = [w EXCEPT ![next] = "stat"] /\ next' = next + 1
      /\ next <= Len(todo) /\ Started /\ ret = "none"
      /\ UNCHANGED <<flags, registryVars, searchVars, todo, downloaded, skipped, errors, cancelled, diskVars,
                     report, ret>>
  BY DEF Launch, Pool, Planned
<1>1. /\ Len(todo) \in Nat /\ next \in Nat /\ next >= 1 /\ next \in Positions
      /\ \A p \in Positions : p \in Nat
  BY <1>0, PositionFacts, DownloadConstants, LenProperties DEF Typed, Positions
<1>2. w[next] = "none"
  BY <1>1 DEF Pool
<1>3. \A p \in Positions : p # next => w'[p] = w[p]
  BY <1>0 DEF Typed
<1>4. w'[next] = "stat"
  BY <1>0, <1>1 DEF Typed
<1>5. Typed'
  <2>1. next' \in 1 .. (Len(todo) + 1)
    BY <1>0, <1>1
  <2>2. w' \in [Positions -> Working \cup {"none", "done"}]
    BY <1>0 DEF Typed, Working
  <2> QED BY <1>0, <2>1, <2>2 DEF Typed, Phases, registryVars, searchVars, diskVars
<1>6. Pages'
  BY <1>0 DEF Pages, registryVars, searchVars
<1>7. Complete'
  BY <1>0 DEF Complete, Started, registryVars, searchVars
<1>8. Planned'
  <2>1. Downloadable' = Downloadable
    BY <1>0, SameFilter DEF searchVars
  <2> QED BY <1>0, <2>1 DEF Planned, Started, Collide, searchVars
<1>9. Pool'
  <2>1. ASSUME NEW p \in Positions PROVE w'[p] # "none" <=> p < next + 1
    BY <1>1, <1>3, <1>4 DEF Pool
  <2>2. ASSUME NEW p \in Positions PROVE w'[p] \in {"copy", "rename"} <=> w[p] \in {"copy", "rename"}
    BY <1>2, <1>3, <1>4
  <2> QED BY <1>0, <2>1, <2>2 DEF Pool, Started, diskVars
<1>10. Disk'
  <2>1. ASSUME NEW p \in Positions, w'[p] \in {"request", "copy", "rename"} PROVE w[p] = w'[p]
    BY <1>3, <1>4, <2>1
  <2> QED BY <1>0, <2>1 DEF Disk, Out, diskVars
<1>11. Counts'
  <2>1. \A p \in Positions : w'[p] = "done" <=> w[p] = "done"
    BY <1>2, <1>3, <1>4
  <2>2. DoneSet' = DoneSet
    BY <2>1 DEF DoneSet
  <2>3. DOMAIN todo \subseteq Positions
    BY PositionFacts
  <2>4. \A p \in DOMAIN todo : w'[p] = "done" => w[p] = "done"
    BY <2>1, <2>3
  <2> QED BY <1>0, <2>2, <2>4 DEF Counts, OnDisk, Served, Out, diskVars
<1> QED BY <1>5, <1>6, <1>7, <1>8, <1>9, <1>10, <1>11

(***************************************************************************)
(* The goroutines.                                                          *)
(***************************************************************************)
\* What every step of a goroutine leaves alone, and where it is afterwards.
LEMMA WorkerFrame ==
  ASSUME DownloadInv, NEW p \in Positions, NEW s \in Working \cup {"done"}, w[p] \in Working,
         StepTo(p, s), Same,
         disk' \in [Paths -> {"none", "old", "part"} \cup Items],
         temp' = IF s \in {"copy", "rename"} THEN temp \cup {p} ELSE temp \ {p}
  PROVE  /\ Typed' /\ Pages' /\ Complete' /\ Planned' /\ Pool'
         /\ w'[p] = s /\ \A q \in Positions : q # p => w'[q] = w[q]
<1> USE DEF DownloadInv
<1>0. /\ pc # "gone" /\ w' = [w EXCEPT ![p] = s] /\ ret = "none"
      /\ UNCHANGED <<flags, registryVars, pc, searchVars, todo, next, cancelled, report, ret>>
  BY DEF StepTo, Same, Pool
<1>1. w'[p] = s /\ \A q \in Positions : q # p => w'[q] = w[q]
  BY <1>0 DEF Typed
<1>2. Typed'
  <2>1. w' \in [Positions -> Working \cup {"none", "done"}]
    BY <1>0 DEF Typed
  <2> QED BY <1>0, <2>1 DEF Typed, registryVars, searchVars
<1>3. Pages'
  BY <1>0 DEF Pages, registryVars, searchVars
<1>4. Complete'
  BY <1>0 DEF Complete, Unread, Started, registryVars, searchVars
<1>5. Planned'
  <2>1. Downloadable' = Downloadable
    BY <1>0, SameFilter DEF searchVars
  <2> QED BY <1>0, <2>1 DEF Planned, Started, Collide, searchVars
<1>6. Pool'
  <2>1. \A q \in Positions : w'[q] # "none" <=> w[q] # "none"
    BY <1>1 DEF Working
  <2>2. \A q \in Positions : q \in temp' <=> w'[q] \in {"copy", "rename"}
    BY <1>1 DEF Pool
  <2>3. temp' \subseteq Positions
    BY DEF Pool
  <2> QED BY <1>0, <2>1, <2>2, <2>3 DEF Pool, Started
<1> QED BY <1>1, <1>2, <1>3, <1>4, <1>5, <1>6

\* One goroutine more is done.
LEMMA OneMoreDone ==
  ASSUME NEW p \in Positions, w[p] # "done", w'[p] = "done", \A q \in Positions : q # p => w'[q] = w[q]
  PROVE  Cardinality(DoneSet') = Cardinality(DoneSet) + 1
<1>1. IsFiniteSet(Positions)
  <2>1. Len(Catalog) + MaxDrift \in Nat
    BY DownloadConstants, LenProperties
  <2> QED BY <2>1, FS_Interval DEF Positions
<1>2. IsFiniteSet(DoneSet)
  BY <1>1, FS_Subset DEF DoneSet
<1>3. DoneSet' = DoneSet \cup {p} /\ p \notin DoneSet
  BY DEF DoneSet
<1> QED BY <1>2, <1>3, FS_AddElement

\* A goroutine on its way: it goes past stat only if nothing is in its way.
LEMMA WorkerMoves ==
  ASSUME DownloadInv, NEW p \in Positions, NEW s \in {"request", "copy", "rename"}, w[p] \in Working,
         StepTo(p, s), Same, UNCHANGED <<disk, downloaded, skipped, errors>>,
         temp' = IF s \in {"copy", "rename"} THEN temp \cup {p} ELSE temp \ {p},
         w[p] = "stat" => flags.overwrite \/ disk[Out(todo[p])] = "none"
  PROVE  DownloadInv'
<1> USE DEF DownloadInv
<1>1. /\ Typed' /\ Pages' /\ Complete' /\ Planned' /\ Pool'
      /\ w'[p] = s /\ \A q \in Positions : q # p => w'[q] = w[q]
  BY WorkerFrame DEF Typed, Working
<1>2. flags' = flags /\ todo' = todo
  BY DEF Same
<1>3. Disk'
  <2>1. ASSUME ~flags.overwrite, NEW q \in Positions, w'[q] \in {"request", "copy", "rename"}
        PROVE  Out(todo[q]) \notin Old
    <3>1. CASE q # p
      BY <1>1, <2>1, <3>1 DEF Disk
    <3>2. CASE q = p /\ w[p] = "stat"
      BY <2>1, <3>2 DEF Disk
    <3>3. CASE q = p /\ w[p] # "stat"
      BY <2>1, <3>3 DEF Disk, Working
    <3> QED BY <3>1, <3>2, <3>3
  <2> QED BY <1>2, <2>1 DEF Disk, Out
<1>4. Counts'
  <2>1. \A q \in Positions : w'[q] = "done" <=> w[q] = "done"
    BY <1>1 DEF Working
  <2>2. DoneSet' = DoneSet
    BY <2>1 DEF DoneSet
  <2>3. \A q \in DOMAIN todo : w'[q] = "done" => w[q] = "done"
    BY <2>1, PositionFacts
  <2> QED BY <1>2, <2>2, <2>3 DEF Counts, OnDisk, Served, Out
<1> QED BY <1>1, <1>3, <1>4

\* A goroutine that ends without writing: an error, or a file that was already there.
LEMMA WorkerEnds ==
  ASSUME DownloadInv, NEW p \in Positions, w[p] \in Working,
         StepTo(p, "done"), Same, UNCHANGED <<disk, downloaded>>, temp' = temp \ {p},
         \/ errors' = errors + 1 /\ skipped' = skipped
         \/ errors' = errors /\ skipped' = skipped + 1 /\ ~flags.overwrite /\ disk[Out(todo[p])] # "none"
  PROVE  DownloadInv'
<1> USE DEF DownloadInv
<1>1. /\ Typed' /\ Pages' /\ Complete' /\ Planned' /\ Pool'
      /\ w'[p] = "done" /\ \A q \in Positions : q # p => w'[q] = w[q]
  BY WorkerFrame DEF Typed, Working
<1>2. flags' = flags /\ todo' = todo
  BY DEF Same
<1>3. Disk'
  <2>1. \A q \in Positions : w'[q] \in {"request", "copy", "rename"} => w[q] = w'[q]
    BY <1>1
  <2> QED BY <1>2, <2>1 DEF Disk, Out
<1>4. Cardinality(DoneSet') = Cardinality(DoneSet) + 1
  BY <1>1, OneMoreDone DEF Working
<1>5. p \in DOMAIN todo /\ Out(todo[p]) \in Paths
  BY PositionFacts DEF Working
<1>6. ~flags.overwrite /\ disk[Out(todo[p])] # "none" => Served(p)
  <2> SUFFICES ASSUME ~flags.overwrite, disk[Out(todo[p])] # "none" PROVE Served(p)
    OBVIOUS
  <2>1. CASE disk[Out(todo[p])] = "old"
    BY <2>1 DEF Served
  <2>2. CASE \E q \in DOMAIN todo : disk[Out(todo[p])] = todo[q] /\ Out(todo[q]) = Out(todo[p])
    BY <1>5, <2>2, OneItemPerTarget DEF Served
  <2> QED BY <1>5, <2>1, <2>2 DEF Disk
<1>7. Counts'
  <2>1. /\ downloaded \in Nat /\ skipped \in Nat /\ errors \in Nat
        /\ downloaded + skipped + errors = Cardinality(DoneSet)
    BY DEF Counts
  <2>2. downloaded + skipped' + errors' = Cardinality(DoneSet) + 1 /\ skipped' \in Nat /\ errors' \in Nat
    BY <2>1
  <2>3. errors' = 0 => errors = 0 /\ Served(p)
    BY <1>6, <2>1
  <2>4. errors' = 0 => \A q \in DOMAIN todo : w'[q] = "done" => Served(q)
    BY <1>1, <2>3, PositionFacts DEF Counts
  <2>5. \A q \in DOMAIN todo : Served(q) => Served(q)'
    BY <1>2 DEF Served, Out
  <2>6. OnDisk' = OnDisk
    BY <1>2 DEF OnDisk, Out
  <2> QED BY <1>2, <1>4, <2>1, <2>2, <2>4, <2>5, <2>6 DEF Counts
<1> QED BY <1>1, <1>3, <1>7

\* A goroutine that renames its file: the target was its own, and no old file is lost.
LEMMA WorkerRenames ==
  ASSUME DownloadInv, NEW p \in Positions, w[p] = "rename",
         StepTo(p, "done"), Same, temp' = temp \ {p},
         downloaded' = downloaded + 1, UNCHANGED <<skipped, errors>>,
         disk' = [disk EXCEPT ![Out(todo[p])] = todo[p]]
  PROVE  DownloadInv'
<1> USE DEF DownloadInv
<1>0. /\ p \in DOMAIN todo /\ todo[p] \in Items /\ Out(todo[p]) \in Paths
      /\ DOMAIN todo \subseteq Positions /\ \A q \in DOMAIN todo : todo[q] \in Items /\ Out(todo[q]) \in Paths
  BY PositionFacts
<1>1. /\ Typed' /\ Pages' /\ Complete' /\ Planned' /\ Pool'
      /\ w'[p] = "done" /\ \A q \in Positions : q # p => w'[q] = w[q]
  <2>1. disk' \in [Paths -> {"none", "old", "part"} \cup Items]
    BY <1>0 DEF Typed
  <2> QED BY <2>1, WorkerFrame DEF Working
<1>2. flags' = flags /\ todo' = todo
  BY DEF Same
<1>3. /\ disk'[Out(todo[p])] = todo[p]
      /\ \A f \in Paths : f # Out(todo[p]) => disk'[f] = disk[f]
  BY <1>0 DEF Typed
<1>4. ~flags.overwrite => Out(todo[p]) \notin Old
  BY DEF Disk
<1>5. Disk'
  <2>1. ASSUME NEW f \in Paths
        PROVE  \/ disk'[f] = "none"
               \/ disk'[f] = "old" /\ f \in Old
               \/ \E q \in DOMAIN todo : disk'[f] = todo[q] /\ Out(todo[q]) = f
    BY <1>0, <1>3 DEF Disk
  <2>2. ASSUME ~flags.overwrite, NEW f \in Old PROVE disk'[f] = "old"
    BY <1>3, <1>4, <2>2, DownloadConstants DEF Disk
  <2>3. \A q \in Positions : w'[q] \in {"request", "copy", "rename"} => w[q] = w'[q]
    BY <1>1
  <2> QED BY <1>2, <2>1, <2>2, <2>3 DEF Disk, Out
<1>6. Cardinality(DoneSet') = Cardinality(DoneSet) + 1
  BY <1>1, OneMoreDone
<1>7. IsFiniteSet(OnDisk') /\ Cardinality(OnDisk') <= downloaded + 1
  <2>1. OnDisk' \subseteq OnDisk \cup {todo[p]}
    <3> SUFFICES ASSUME NEW i \in ToSet(todo), disk'[Out(i)] = i, i # todo[p]  PROVE disk[Out(i)] = i
      BY <1>2 DEF OnDisk, Out
    <3>1. i \in Items /\ Out(i) \in Paths
      BY <1>0 DEF ToSet
    <3>2. Out(i) # Out(todo[p])
      BY <1>3
    <3> QED BY <1>3, <3>1, <3>2
  <2>2. IsFiniteSet(OnDisk) /\ Cardinality(OnDisk) <= downloaded /\ downloaded \in Nat
    BY DEF Counts
  <2>3. /\ IsFiniteSet(OnDisk \cup {todo[p]})
        /\ Cardinality(OnDisk \cup {todo[p]}) \in {Cardinality(OnDisk), Cardinality(OnDisk) + 1}
    BY <2>2, FS_AddElement
  <2>4. IsFiniteSet(OnDisk') /\ Cardinality(OnDisk') <= Cardinality(OnDisk \cup {todo[p]})
    BY <2>1, <2>3, FS_Subset
  <2>5. Cardinality(OnDisk) \in Nat /\ Cardinality(OnDisk') \in Nat
    BY <2>2, <2>4, FS_CardinalityType
  <2> QED BY <2>2, <2>3, <2>4, <2>5
<1>8. ASSUME NEW q \in DOMAIN todo, w'[q] = "done", errors = 0  PROVE Served(q)'
  <2>1. CASE Out(todo[q]) = Out(todo[p])
    <3>1. todo[q] = todo[p]
      BY <1>0, <2>1, OneItemPerTarget
    <3> QED BY <1>2, <1>3, <3>1 DEF Served, Out
  <2>2. CASE Out(todo[q]) # Out(todo[p])
    <3>1. q # p /\ Served(q)
      BY <1>0, <1>1, <1>8, <2>2 DEF Counts
    <3>2. disk'[Out(todo[q])] = disk[Out(todo[q])]
      BY <1>0, <1>3, <2>2
    <3> QED BY <1>2, <3>1, <3>2 DEF Served, Out
  <2> QED BY <2>1, <2>2
<1>9. Counts'
  <2>1. /\ downloaded \in Nat /\ skipped \in Nat /\ errors \in Nat
        /\ downloaded + skipped + errors = Cardinality(DoneSet)
    BY DEF Counts
  <2>2. downloaded' \in Nat /\ downloaded' + skipped + errors = Cardinality(DoneSet) + 1
    BY <2>1
  <2> QED BY <1>2, <1>6, <1>7, <1>8, <2>1, <2>2 DEF Counts
<1> QED BY <1>1, <1>5, <1>9

\* Every step of a goroutine is one of the three.
LEMMA WorkerKeeps ==
  ASSUME DownloadInv, NEW p \in Positions, Worker(p)
  PROVE  DownloadInv'
<1>0. w[p] \in Working => (w[p] \notin {"copy", "rename"} => temp \ {p} = temp)
  BY DEF DownloadInv, Pool
<1>1. CASE Stat(p)
  <2>1. CASE ~flags.overwrite /\ disk[Out(todo[p])] # "none"
    BY <1>0, <1>1, <2>1, WorkerEnds DEF Stat, Working, diskVars
  <2>2. CASE ~(~flags.overwrite /\ disk[Out(todo[p])] # "none")
    BY <1>0, <1>1, <2>2, WorkerMoves DEF Stat, Working, diskVars
  <2> QED BY <2>1, <2>2
<1>2. CASE Request(p)
  <2>1. CASE Fail(p) /\ UNCHANGED diskVars
    BY <1>0, <1>2, <2>1, WorkerEnds DEF Request, Fail, Working, diskVars
  <2>2. CASE /\ StepTo(p, "copy") /\ temp' = temp \cup {p}
             /\ UNCHANGED <<disk, downloaded, skipped, errors>>
    BY <1>2, <2>2, WorkerMoves DEF Request, Working
  <2> QED BY <1>2, <2>1, <2>2 DEF Request
<1>3. CASE Copy(p)
  <2>1. CASE Fail(p) /\ temp' = temp \ {p} /\ UNCHANGED disk
    BY <1>3, <2>1, WorkerEnds DEF Copy, Fail, Working
  <2>2. CASE StepTo(p, "rename") /\ UNCHANGED <<diskVars, downloaded, skipped, errors>>
    <3>1. temp \cup {p} = temp
      BY <1>3 DEF Copy, DownloadInv, Pool
    <3> QED BY <1>3, <2>2, <3>1, WorkerMoves DEF Copy, Working, diskVars
  <2> QED BY <1>3, <2>1, <2>2 DEF Copy
<1>4. CASE Rename(p)
  <2>1. CASE Fail(p) /\ UNCHANGED disk
    BY <1>4, <2>1, WorkerEnds DEF Rename, Fail, Working
  <2>2. CASE /\ StepTo(p, "done") /\ downloaded' = downloaded + 1 /\ UNCHANGED <<skipped, errors>>
             /\ disk' = [disk EXCEPT ![Out(todo[p])] = todo[p]]
    BY <1>4, <2>2, WorkerRenames DEF Rename
  <2> QED BY <1>4, <2>1, <2>2 DEF Rename
<1> QED BY <1>1, <1>2, <1>3, <1>4 DEF Worker

(***************************************************************************)
(* The theorems.                                                            *)
(***************************************************************************)
\* The inductive invariant of the download, from the first page to the exit or a kill.
THEOREM Invariant == Spec => []DownloadInv
<1>1. DownloadInv /\ [Next]_vars => DownloadInv'
  <2> SUFFICES ASSUME DownloadInv, [Next]_vars PROVE DownloadInv'
    OBVIOUS
  <2>1. CASE Drift
    BY <2>1, DriftKeeps
  <2>2. CASE Search
    BY <2>2, SearchKeeps
  <2>3. CASE Plan
    BY <2>3, PlanKeeps
  <2>4. CASE Launch
    BY <2>4, LaunchKeeps
  <2>5. CASE Interrupt \/ Kill \/ SearchFails \/ Check \/ LaunchStops \/ Return
    BY <2>5, QuietKeeps
  <2>6. CASE \E p \in Positions : Worker(p)
    BY <2>6, WorkerKeeps
  <2>7. CASE UNCHANGED vars
    BY <2>7, ControlKeeps DEF vars, DownloadInv, Typed, Planned, Pool
  <2> QED BY <2>1, <2>2, <2>3, <2>4, <2>5, <2>6, <2>7 DEF Next, Handler
<1> QED BY <1>1, InitInv, PTL DEF Spec

\* What the invariant says of the disk.
LEMMA WholeByInv == DownloadInv => FilesWhole
<1> SUFFICES ASSUME DownloadInv PROVE FilesWhole
  OBVIOUS
<1> USE DEF DownloadInv
<1>1. TypeOK
  <2>1. /\ Len(todo) \in Nat /\ Len(all) \in Nat /\ Len(Catalog) \in Nat /\ MaxDrift \in Nat
        /\ drift \in Nat /\ drift <= MaxDrift
    BY LenProperties, DownloadConstants DEF Typed
  <2>2. Len(todo) <= Len(all)
    <3>1. CASE todo = <<>>
      BY <2>1, <3>1
    <3>2. CASE Started
      BY <3>2, DownloadableFacts DEF Planned, Typed
    <3> QED BY <3>1, <3>2 DEF Started
  <2>3. Len(all) <= Len(Catalog) + MaxDrift
    BY <2>1 DEF Pages
  <2> QED BY <2>2, <2>3 DEF TypeOK, Typed, Pool, Phases, Working
<1>2. NoPartialFile
  BY PositionFacts DEF NoPartialFile, Disk
<1>3. OldKept
  BY DEF OldKept, Disk
<1>4. NoLitter
  <2>1. Active = {} => temp = {}
    BY DEF Active, Pool
  <2> QED BY <2>1 DEF NoLitter, Pool
<1> QED BY <1>1, <1>2, <1>3, <1>4 DEF FilesWhole

\* FilesWhole, for every catalog: whatever the goroutines of one target, the signals and
\* a kill do, no path holds part of an artifact or one that is not its own, an old file
\* stays without --overwrite, and a run that ends leaves no temporary file.
THEOREM FilesAlwaysWhole == Spec => []FilesWhole
  BY Invariant, WholeByInv, PTL

\* What the invariant says of the counts and of exit 0.
LEMMA AccountedByInv == DownloadInv => Accounted
<1> SUFFICES ASSUME DownloadInv PROVE Accounted
  OBVIOUS
<1> USE DEF DownloadInv
<1>1. ASSUME ret = "ok", Started, ~cancelled, NEW p \in DOMAIN todo
      PROVE  disk[Out(todo[p])] = todo[p] \/ (~flags.overwrite /\ disk[Out(todo[p])] = "old")
  <2>1. Active = {} /\ next > Len(todo) /\ errors = 0
    BY <1>1 DEF Pool
  <2>2. p \in Positions /\ p \in Nat /\ p <= Len(todo) /\ Len(todo) \in Nat
    BY PositionFacts
  <2>3. w[p] # "none"
    BY <2>1, <2>2 DEF Pool, Typed
  <2>4. w[p] = "done"
    BY <2>1, <2>2, <2>3 DEF Typed, Working, Active
  <2> QED BY <2>1, <2>4 DEF Counts, Served
<1>2. AccountedFor
  <2>1. downloaded + skipped + errors = Cardinality({p \in Positions : w[p] = "done"})
    BY DEF Counts, DoneSet
  <2>2. Cardinality({i \in ToSet(todo) : disk[Out(i)] = i}) <= downloaded
    BY DEF Counts, OnDisk
  <2>3. flags.dryRun => todo = <<>> /\ (ret = "ok" /\ all # <<>> => report = Downloadable)
    BY DEF Planned, Started
  <2> QED BY <1>1, <2>1, <2>2, <2>3 DEF AccountedFor
<1>3. EveryMatchDownloaded
  <2> SUFFICES ASSUME ret = "ok", Started, ~cancelled, ~shrunk, NEW i \in ToSet(Catalog) \ (NoUrl \cup Unsafe)
      PROVE  disk[Out(i)] = i \/ (~flags.overwrite /\ disk[Out(i)] = "old")
    BY DEF EveryMatchDownloaded
  <2>1. i \in ToSet(all) \ Rejected
    BY DEF Complete, Rejected
  <2>2. i \in ToSet(todo)
    BY <2>1, DownloadableFacts DEF Typed, Planned
  <2>3. PICK p \in DOMAIN todo : todo[p] = i
    BY <2>2 DEF ToSet
  <2> QED BY <1>1, <2>3
<1> QED BY <1>2, <1>3 DEF Accounted

\* Accounted, for every catalog, page size and concurrency: the counts are those of the
\* disk, exit 0 of a run that was not interrupted means that every match is there, unless
\* one was deleted during the search, and a dry run reports what a run would write.
THEOREM DownloadAlwaysAccounted == Spec => []Accounted
  BY Invariant, AccountedByInv, PTL
=============================================================================
