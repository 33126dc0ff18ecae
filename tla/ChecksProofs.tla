------------------------------ MODULE ChecksProofs ------------------------------
(***************************************************************************)
(* The two checks of a build hold what they promise.                        *)
(*                                                                          *)
(* An audit is whole: its table has one line for every package of the lock  *)
(* file, and without all answers of the firewall it does not exit 0, for    *)
(* every file, batch size, number of workers and of polls.                  *)
(* The lines are followed from the file to the table.  A parser takes one   *)
(* entry of each name, whatever it sees first (TakenOnce).  The cut into    *)
(* batches is one of the list (ItemsMeet, ItemsCover), by the arithmetic of *)
(* the bounds.  And each batch is sent once and collected once, in whatever *)
(* order: the lines received so far are those of the batches gathered.      *)
(*                                                                          *)
(* Coverage is true: counts are those of the lines, the uploaded rows and   *)
(* the analysis agree, and both speak only of what was asked for, for every *)
(* repository and every set of reports.                                     *)
(***************************************************************************)
EXTENDS Checks, FiniteSetTheorems, SequenceTheorems, WellFoundedInduction, TLAPS

FileEntry  == [kind : {"locked", "loose", "link", "other"}, name : Nat, version : STRING, section : {"main", "dev"}]
Dependency == [name : Nat, version : STRING \cup {"none"}]
Verdict    == [dep : Dependency, status : {"JUDGED", "UNKNOWN"}]

Typed ==
  /\ lock \in [format : Formats, file : Files] /\ {async, failed, cancelled} \subseteq BOOLEAN
  /\ phase \in {"look", "scan", "print", "exited"} /\ code \in {-1, 0, 1}
  /\ deps \in Seq(Dependency) /\ results \in Seq(Verdict)
  /\ batch \in [DOMAIN batch -> {"waiting", "asking", "polling", "sent"}] /\ polls \in [DOMAIN batch -> 0..MaxPolls]
  /\ outcomes \subseteq [index : DOMAIN batch, results : Seq(Verdict), bad : BOOLEAN]
  /\ lost \subseteq DOMAIN batch

\* Before the scan there is nothing; in it, what was parsed is cut into batches.
Planned ==
  /\ phase = "look" => batch = <<>> /\ results = <<>> /\ outcomes = {} /\ lost = {} /\ ~failed
  /\ phase \in {"scan", "print"} =>
       /\ \E ds \in ParseLockFile(lock.format, lock.file) : deps \in Sorted(ds)
       /\ DOMAIN batch = 1..BatchCount(Len(deps))

\* After it, every batch was sent and received.
Settled ==
  /\ phase \in {"print", "exited"} => outcomes = {} /\ \A b \in DOMAIN batch : batch[b] = "sent"
  /\ code = 0 => phase = "exited" /\ ~failed
  /\ lost # {} => failed \/ \E o \in outcomes : o.bad

\* An outcome has a line for each item of its batch, and a batch has one.
Sent ==
  /\ \A o \in outcomes : /\ batch[o.index] = "sent" /\ DOMAIN o.results = DOMAIN Items(o.index)
                         /\ \A i \in DOMAIN o.results : o.results[i].dep = Items(o.index)[i]
  /\ \A o1, o2 \in outcomes : o1.index = o2.index => o1 = o2

Gathered(b) == batch[b] = "sent" /\ \A o \in outcomes : o.index # b

\* The lines received are those of the batches gathered, one for each item.
Received ==
  /\ \A i \in DOMAIN results : \E b \in DOMAIN batch : Gathered(b) /\ results[i].dep \in Range(Items(b))
  /\ \A i, j \in DOMAIN results : results[i].dep = results[j].dep => i = j
  /\ \A b \in DOMAIN batch : Gathered(b) => \A d \in Range(Items(b)) : \E i \in DOMAIN results : results[i].dep = d

ScanInv == Typed /\ Planned /\ Settled /\ Sent /\ Received
-----------------------------------------------------------------------------
(* The cut into batches *)

\* Integer division.
LEMMA DivFacts ==
  ASSUME NEW a \in Nat, NEW d \in Nat \ {0}
  PROVE a \div d \in Nat /\ (a \div d) * d <= a /\ a < (a \div d) * d + d
OBVIOUS

\* Of n dependencies, each batch begins within them, and the last one ends at or after the last of them.
LEMMA CountFacts ==
  ASSUME NEW n \in Nat
  PROVE BatchCount(n) \in Nat /\ BatchCount(n) * BatchSize <= n + BatchSize - 1 /\ n <= BatchCount(n) * BatchSize
<1>1. BatchSize \in Nat \ {0} /\ n + BatchSize - 1 \in Nat
  BY ScanAssumption
<1> QED BY <1>1, DivFacts DEF BatchCount

\* Products with the batch size grow.
LEMMA Grows ==
  ASSUME NEW a \in Nat, NEW b \in Nat, a <= b
  PROVE a * BatchSize <= b * BatchSize /\ a * BatchSize \in Nat
<1>1. BatchSize \in Nat
  BY ScanAssumption
<1>2. b = a + (b - a) /\ b - a \in Nat
  OBVIOUS
<1>3. b * BatchSize = a * BatchSize + (b - a) * BatchSize
  BY <1>1, <1>2
<1>4. (b - a) * BatchSize \in Nat /\ a * BatchSize \in Nat
  BY <1>1, <1>2
<1> QED BY <1>1, <1>3, <1>4

First(b) == (b - 1) * BatchSize
Last(b)  == IF b * BatchSize > Len(deps) THEN Len(deps) ELSE b * BatchSize

\* The bounds of a batch.
LEMMA BoundsFacts ==
  ASSUME deps \in Seq(Dependency), NEW b \in 1..BatchCount(Len(deps))
  PROVE /\ First(b) \in Nat /\ Last(b) \in Nat /\ First(b) < Last(b) /\ Last(b) <= Len(deps)
        /\ Last(b) <= b * BatchSize
<1> DEFINE n == Len(deps)
<1>1. n \in Nat /\ BatchSize \in Nat \ {0}
  BY ScanAssumption
<1>2. BatchCount(n) \in Nat /\ BatchCount(n) * BatchSize <= n + BatchSize - 1
  BY <1>1, CountFacts
<1>3. b \in Nat /\ b - 1 \in Nat /\ b <= BatchCount(n) /\ b - 1 <= b
  BY <1>2
<1>4. b * BatchSize <= BatchCount(n) * BatchSize /\ b * BatchSize \in Nat /\ (b - 1) * BatchSize \in Nat
  <2>1. b * BatchSize <= BatchCount(n) * BatchSize /\ b * BatchSize \in Nat
    BY <1>2, <1>3, Grows
  <2>2. (b - 1) * BatchSize \in Nat
    BY <1>3, Grows
  <2> QED BY <2>1, <2>2
<1>5. b * BatchSize = (b - 1) * BatchSize + BatchSize /\ BatchCount(n) * BatchSize \in Nat
  BY <1>1, <1>2, <1>3
<1>6. (b - 1) * BatchSize < n /\ (b - 1) * BatchSize < b * BatchSize
  BY <1>1, <1>2, <1>4, <1>5
<1> QED BY <1>1, <1>4, <1>6 DEF First, Last

\* The items of a batch are those between its bounds.
LEMMA ItemsAre ==
  ASSUME deps \in Seq(Dependency), NEW b \in 1..BatchCount(Len(deps))
  PROVE /\ Items(b) \in Seq(Dependency) /\ DOMAIN Items(b) = 1..(Last(b) - First(b))
        /\ \A x \in DOMAIN Items(b) : Items(b)[x] = deps[First(b) + x] /\ First(b) + x \in 1..Len(deps)
<1>1. First(b) \in Nat /\ Last(b) \in Nat /\ First(b) < Last(b) /\ Last(b) <= Len(deps)
  BY BoundsFacts
<1>2. Items(b) = SubSeq(deps, First(b) + 1, Last(b))
  BY DEF Items, First, Last
<1>3. \A i \in First(b) + 1..Last(b) : deps[i] \in Dependency
  BY <1>1
<1>4. /\ Items(b) \in Seq(Dependency)
      /\ Len(Items(b)) = IF First(b) + 1 <= Last(b) THEN Last(b) - (First(b) + 1) + 1 ELSE 0
      /\ \A i \in 1..Last(b) - (First(b) + 1) + 1 : Items(b)[i] = deps[First(b) + 1 + i - 1]
  <2>1. First(b) + 1 \in Int /\ Last(b) \in Int
    BY <1>1
  <2> QED BY <1>2, <1>3, <2>1, SubSeqProperties
<1>5. First(b) + 1 <= Last(b) /\ Last(b) - (First(b) + 1) + 1 = Last(b) - First(b)
  BY <1>1
<1>6. DOMAIN Items(b) = 1..(Last(b) - First(b))
  <2>1. Len(Items(b)) = Last(b) - First(b)
    BY <1>4, <1>5
  <2> QED BY <1>4, <2>1
<1>7. \A x \in 1..(Last(b) - First(b)) : First(b) + x \in 1..Len(deps) /\ First(b) + 1 + x - 1 = First(b) + x
  BY <1>1
<1> QED BY <1>4, <1>5, <1>6, <1>7

\* Two batches have no position in common.
LEMMA ItemsMeet ==
  ASSUME deps \in Seq(Dependency), \A i, j \in DOMAIN deps : deps[i] = deps[j] => i = j,
         NEW b \in 1..BatchCount(Len(deps)), NEW c \in 1..BatchCount(Len(deps)),
         NEW x \in DOMAIN Items(b), NEW y \in DOMAIN Items(c), Items(b)[x] = Items(c)[y]
  PROVE b = c /\ x = y
<1>1. /\ First(b) \in Nat /\ Last(b) \in Nat /\ Last(b) <= b * BatchSize /\ x \in 1..(Last(b) - First(b))
      /\ First(c) \in Nat /\ Last(c) \in Nat /\ Last(c) <= c * BatchSize /\ y \in 1..(Last(c) - First(c))
  BY BoundsFacts, ItemsAre
<1>2. First(b) + x = First(c) + y
  <2>1. deps[First(b) + x] = deps[First(c) + y] /\ First(b) + x \in DOMAIN deps /\ First(c) + y \in DOMAIN deps
    BY ItemsAre
  <2> QED BY <2>1
<1>3. b \in Nat /\ c \in Nat /\ b - 1 \in Nat /\ c - 1 \in Nat
  BY CountFacts
<1>4. ~(b < c)
  <2> SUFFICES ASSUME b < c PROVE FALSE
    OBVIOUS
  <2>1. b * BatchSize <= First(c) /\ b * BatchSize \in Nat
    BY <1>3, Grows DEF First
  <2> QED BY <1>1, <1>2, <2>1
<1>5. ~(c < b)
  <2> SUFFICES ASSUME c < b PROVE FALSE
    OBVIOUS
  <2>1. c * BatchSize <= First(b) /\ c * BatchSize \in Nat
    BY <1>3, Grows DEF First
  <2> QED BY <1>1, <1>2, <2>1
<1> QED BY <1>1, <1>2, <1>3, <1>4, <1>5

\* Every position is in a batch.
LEMMA ItemsCover ==
  ASSUME deps \in Seq(Dependency), NEW k \in DOMAIN deps
  PROVE \E b \in 1..BatchCount(Len(deps)) : deps[k] \in Range(Items(b))
<1>1. Len(deps) \in Nat /\ BatchSize \in Nat \ {0} /\ k \in 1..Len(deps) /\ k \in Nat
  BY ScanAssumption
<1>2. PICK b \in Nat : b = BatchCount(k)
  BY <1>1, CountFacts
<1>3. PICK c \in Nat : c = BatchCount(Len(deps))
  BY <1>1, CountFacts
<1>4. b * BatchSize <= k + BatchSize - 1 /\ k <= b * BatchSize
  BY <1>1, <1>2, CountFacts
<1>5. Len(deps) <= c * BatchSize
  BY <1>1, <1>3, CountFacts
<1>6. b # 0
  BY <1>1, <1>4
<1>7. b - 1 \in Nat /\ b * BatchSize = (b - 1) * BatchSize + BatchSize /\ (b - 1) * BatchSize \in Nat
  BY <1>1, <1>6
<1>8. (b - 1) * BatchSize < k
  BY <1>1, <1>4, <1>7
<1>9. b <= c
  <2> SUFFICES ASSUME c <= b - 1 PROVE FALSE
    BY <1>7
  <2>1. c * BatchSize <= (b - 1) * BatchSize /\ c * BatchSize \in Nat
    BY <1>7, Grows
  <2> QED BY <1>1, <1>5, <1>7, <1>8, <2>1
<1>10. b \in 1..BatchCount(Len(deps))
  BY <1>3, <1>6, <1>9
<1>11. First(b) \in Nat /\ First(b) < k
  BY <1>7, <1>8 DEF First
<1>12. Last(b) \in Nat /\ k <= Last(b)
  <2>1. b * BatchSize \in Nat
    BY <1>1
  <2> QED BY <1>1, <1>4, <2>1 DEF Last
<1>13. PICK x \in 1..(Last(b) - First(b)) : First(b) + x = k
  <2>1. k - First(b) \in 1..(Last(b) - First(b)) /\ First(b) + (k - First(b)) = k
    BY <1>1, <1>11, <1>12
  <2> QED BY <2>1
<1>14. x \in DOMAIN Items(b) /\ Items(b)[x] = deps[k]
  BY <1>10, <1>13, ItemsAre
<1> QED BY <1>10, <1>14 DEF Range
-----------------------------------------------------------------------------
(* What a parser takes *)

LEMMA Least ==
  ASSUME NEW T \in SUBSET Nat, T # {}
  PROVE  \E m \in T : \A k \in T : m <= k
<1>1. PICK x \in T : \A y \in T : ~ (<<y, x>> \in OpToRel(<, Nat))
  BY NatLessThanWellFounded, WFMin
<1>2. \A y \in T : ~(y < x)
  BY <1>1 DEF OpToRel
<1> QED BY <1>2

\* Of the entries I of a file, exactly one has the name of entry i.
OneOf(file, I, i) == \E j \in I : SameName(file, i, j) /\ \A k \in I : SameName(file, i, k) => k = j

\* Line by line, the first of each name is taken.
LEMMA FirstIsOne ==
  ASSUME NEW file \in Seq(FileEntry), NEW I \in SUBSET DOMAIN file, NEW i \in I
  PROVE  OneOf(file, FirstOfName(file, I), i)
<1> DEFINE T == {j \in I : SameName(file, i, j)}
<1>1. T \in SUBSET Nat /\ i \in T /\ I \in SUBSET Nat
  BY DEF SameName
<1>2. PICK m \in T : \A k \in T : m <= k
  BY <1>1, Least
<1>3. m \in FirstOfName(file, I) /\ SameName(file, i, m)
  <2>1. m \in I /\ SameName(file, i, m)
    OBVIOUS
  <2>2. \A j \in I : j < m => ~SameName(file, m, j)
    BY <1>1, <1>2, <2>1 DEF SameName
  <2> QED BY <2>1, <2>2 DEF FirstOfName, SameName
<1>4. \A k \in FirstOfName(file, I) : SameName(file, i, k) => k = m
  <2> SUFFICES ASSUME NEW k \in FirstOfName(file, I), SameName(file, i, k) PROVE k = m
    OBVIOUS
  <2>1. k \in T /\ m <= k
    BY <1>2 DEF FirstOfName
  <2>2. ~(m < k)
    BY <1>3 DEF FirstOfName, SameName
  <2> QED BY <1>1, <2>1, <2>2
<1> QED BY <1>3, <1>4 DEF OneOf

\* In a map, any of each name is.
LEMMA AnyIsOne ==
  ASSUME NEW file \in Seq(FileEntry), NEW I \in SUBSET DOMAIN file, NEW J \in AnyOfName(file, I), NEW i \in I
  PROVE  OneOf(file, J, i)
BY DEF OneOf, AnyOfName, SameName

\* And of one list after the other, if the second one adds only what is not named by the first.
LEMMA BothAreOne ==
  ASSUME NEW file \in Seq(FileEntry), NEW I \in SUBSET DOMAIN file, NEW J \in SUBSET DOMAIN file,
         NEW A \in SUBSET I, \A i \in I : OneOf(file, A, i),
         NEW B \in SUBSET Unseen(file, I, J), \A j \in Unseen(file, I, J) : OneOf(file, B, j),
         NEW i \in I \cup J
  PROVE  OneOf(file, A \cup B, i)
<1>1. CASE \E k \in I : SameName(file, i, k)
  <2>1. PICK k \in I : SameName(file, i, k)
    BY <1>1
  <2>2. PICK j \in A : SameName(file, k, j) /\ \A x \in A : SameName(file, k, x) => x = j
    BY DEF OneOf
  <2>3. \A x \in B : ~SameName(file, i, x)
    BY <2>1 DEF Unseen, SameName
  <2> QED BY <2>1, <2>2, <2>3 DEF OneOf, SameName
<1>2. CASE \A k \in I : ~SameName(file, i, k)
  <2>1. i \in Unseen(file, I, J)
    BY <1>2 DEF Unseen, SameName
  <2>2. PICK j \in B : SameName(file, i, j) /\ \A x \in B : SameName(file, i, x) => x = j
    BY <2>1 DEF OneOf
  <2> QED BY <1>2, <2>2 DEF OneOf
<1> QED BY <1>1, <1>2

\* Of the sections of a file, in either way.
LEMMA SectionsOnce ==
  ASSUME NEW file \in Seq(FileEntry), NEW I \in SUBSET DOMAIN file, NEW J \in SUBSET DOMAIN file, NEW i \in I \cup J
  PROVE  /\ OneOf(file, FirstOfBoth(file, I, J), i) /\ FirstOfBoth(file, I, J) \subseteq I \cup J
         /\ \A A \in AnyOfName(file, I), B \in AnyOfName(file, Unseen(file, I, J)) :
              OneOf(file, A \cup B, i) /\ A \cup B \subseteq I \cup J
<1>1. Unseen(file, I, J) \in SUBSET J /\ Unseen(file, I, J) \in SUBSET DOMAIN file
  BY DEF Unseen
<1>2. OneOf(file, FirstOfBoth(file, I, J), i) /\ FirstOfBoth(file, I, J) \subseteq I \cup J
  <2> DEFINE A == FirstOfName(file, I)
             B == FirstOfName(file, Unseen(file, I, J))
  <2>1. A \in SUBSET I /\ B \in SUBSET Unseen(file, I, J)
    BY DEF FirstOfName
  <2>2. \A k \in I : OneOf(file, A, k)
    BY FirstIsOne
  <2>3. \A k \in Unseen(file, I, J) : OneOf(file, B, k)
    BY <1>1, FirstIsOne
  <2> HIDE DEF A, B
  <2>4. OneOf(file, A \cup B, i)
    BY <2>1, <2>2, <2>3, BothAreOne
  <2> QED BY <1>1, <2>1, <2>4 DEF A, B, FirstOfBoth
<1>3. ASSUME NEW A \in AnyOfName(file, I), NEW B \in AnyOfName(file, Unseen(file, I, J))
      PROVE  OneOf(file, A \cup B, i) /\ A \cup B \subseteq I \cup J
  <2>1. A \in SUBSET I /\ B \in SUBSET Unseen(file, I, J)
    BY DEF AnyOfName
  <2>2. \A k \in I : OneOf(file, A, k)
    BY AnyIsOne
  <2>3. \A k \in Unseen(file, I, J) : OneOf(file, B, k)
    BY <1>1, AnyIsOne
  <2>4. OneOf(file, A \cup B, i)
    BY <2>1, <2>2, <2>3, BothAreOne
  <2> QED BY <1>1, <2>1, <2>4
<1> QED BY <1>2, <1>3

\* A parser takes entries that name something.
LEMMA TakenNamed ==
  ASSUME NEW file \in Seq(FileEntry), NEW format \in Parsers, NEW T \in Taken(format, file)
  PROVE  T \subseteq Named(file)
<1>1. Locked(file) \subseteq Named(file) /\ \A section : OnlyIn(file, Named(file), section) \subseteq Named(file)
  BY DEF Named, Locked, Entries, OnlyIn
<1>2. \A section : OnlyIn(file, Locked(file), section) \subseteq Named(file)
  BY <1>1 DEF OnlyIn
<1>3. CASE format \in {"package.json", "Pipfile.lock"}
  BY <1>1, <1>3 DEF Taken, ParsePackageJSON, ParsePipfileLock, InSection, AnyOfName, Unseen
<1>4. CASE format \in {"package-lock.json", "pnpm-lock.yaml"}
  BY <1>1, <1>4 DEF Taken, ParsePackageLock, ParsePnpmLock, AnyOfName
<1>5. CASE format \in {"yarn.lock", "requirements.txt", "pyproject.toml", "poetry.lock"}
  BY <1>1, <1>5 DEF Taken, ParseYarnLock, ParseRequirementsTxt, ParsePyProjectToml, ParsePoetryLock, FirstOfName
<1>6. CASE format \in {"pom.xml", "build.gradle"}
  BY <1>1, <1>2, <1>6 DEF Taken, ParsePomXml, ParseBuildGradle, InSection, FirstOfBoth, FirstOfName, Unseen
<1>7. CASE format = "packages.lock.json"
  BY <1>7 DEF Taken, NugetParseLockFile
<1> QED BY <1>3, <1>4, <1>5, <1>6, <1>7 DEF Parsers

\* Every entry is in one of the sections.
LEMMA InSections ==
  ASSUME NEW file \in Seq(FileEntry), NEW I \in SUBSET DOMAIN file
  PROVE  OnlyIn(file, I, "main") \cup OnlyIn(file, I, "dev") = I
<1>1. \A i \in DOMAIN file : file[i] \in FileEntry
  OBVIOUS
<1>2. \A i \in DOMAIN file : file[i].section \in {"main", "dev"}
  BY <1>1 DEF FileEntry
<1> QED BY <1>2 DEF OnlyIn

\* Every parser but that of NuGet takes one entry of the name of a locked one.
LEMMA TakenOnce ==
  ASSUME NEW file \in Seq(FileEntry), NEW format \in Parsers, format # "packages.lock.json",
         NEW T \in Taken(format, file), NEW i \in Locked(file)
  PROVE  OneOf(file, T, i)
<1> DEFINE main == OnlyIn(file, Named(file), "main")
           dev == OnlyIn(file, Named(file), "dev")
<1>1. Named(file) \in SUBSET DOMAIN file /\ Locked(file) \in SUBSET Named(file) /\ i \in Named(file)
  BY DEF Named, Locked, Entries
<1>2. main \in SUBSET DOMAIN file /\ dev \in SUBSET DOMAIN file /\ main \cup dev = Named(file)
  BY <1>1, InSections DEF OnlyIn
<1>3. CASE format \in {"package.json", "Pipfile.lock"}
  <2>1. PICK A \in AnyOfName(file, main), B \in AnyOfName(file, Unseen(file, main, dev)) : T = A \cup B
    BY <1>3 DEF Taken, ParsePackageJSON, ParsePipfileLock, InSection
  <2> HIDE DEF main, dev
  <2> QED BY <1>1, <1>2, <2>1, SectionsOnce
<1>4. CASE format = "package-lock.json"
  <2>1. T \in AnyOfName(file, Locked(file)) /\ Locked(file) \in SUBSET DOMAIN file
    BY <1>1, <1>4 DEF Taken, ParsePackageLock
  <2> QED BY <1>1, <2>1, AnyIsOne DEF AnyOfName
<1>5. CASE format = "pnpm-lock.yaml"
  <2>1. T \in AnyOfName(file, Named(file))
    BY <1>5 DEF Taken, ParsePnpmLock
  <2> QED BY <1>1, <2>1, AnyIsOne DEF AnyOfName
<1>6. CASE format = "yarn.lock"
  <2>1. T = FirstOfName(file, Locked(file)) /\ Locked(file) \in SUBSET DOMAIN file
    BY <1>1, <1>6 DEF Taken, ParseYarnLock
  <2> QED BY <1>1, <2>1, FirstIsOne DEF FirstOfName
<1>7. CASE format \in {"requirements.txt", "pyproject.toml", "poetry.lock"}
  <2>1. T = FirstOfName(file, Named(file))
    BY <1>7 DEF Taken, ParseRequirementsTxt, ParsePyProjectToml, ParsePoetryLock
  <2> QED BY <1>1, <2>1, FirstIsOne DEF FirstOfName
<1>8. CASE format = "pom.xml"
  <2>1. T = FirstOfBoth(file, main, dev)
    BY <1>8 DEF Taken, ParsePomXml, InSection
  <2> HIDE DEF main, dev
  <2> QED BY <1>1, <1>2, <2>1, SectionsOnce
<1>9. CASE format = "build.gradle"
  <2> DEFINE I == OnlyIn(file, Locked(file), "main")
             J == OnlyIn(file, Locked(file), "dev")
  <2>1. T = FirstOfBoth(file, I, J)
    BY <1>9 DEF Taken, ParseBuildGradle
  <2>2. I \in SUBSET DOMAIN file /\ J \in SUBSET DOMAIN file /\ I \cup J = Locked(file)
    BY <1>1, InSections DEF OnlyIn
  <2> HIDE DEF I, J
  <2> QED BY <1>1, <2>1, <2>2, SectionsOnce
<1> QED BY <1>3, <1>4, <1>5, <1>6, <1>7, <1>8, <1>9 DEF Parsers

\* The line of a locked entry: its name, and for NuGet its version.
IsLineOf(d, e) == d.name = e.name /\ (lock.format = "packages.lock.json" => d.version = e.version)

\* Of what was parsed, exactly one dependency is the line of a locked entry.
LEMMA ParsedOnce ==
  ASSUME NEW file \in Seq(FileEntry), lock.format \in Parsers,
         NEW ds \in ParseLockFile(lock.format, file), NEW i \in Locked(file)
  PROVE  \E d \in ds : \A x \in ds : IsLineOf(x, file[i]) <=> x = d
<1>1. PICK T \in Taken(lock.format, file) : ds = {Dep(file[j]) : j \in T}
  BY DEF ParseLockFile
<1>2. CASE lock.format # "packages.lock.json"
  <2>1. OneOf(file, T, i)
    BY <1>2, TakenOnce
  <2>2. PICK j \in T : SameName(file, i, j) /\ \A k \in T : SameName(file, i, k) => k = j
    BY <2>1 DEF OneOf
  <2>3. \A k \in T : Dep(file[k]).name = file[k].name
    BY DEF Dep
  <2>4. \A k \in T : IsLineOf(Dep(file[k]), file[i]) <=> SameName(file, i, k)
    BY <1>2, <2>3 DEF IsLineOf, SameName
  <2>5. \A x \in ds : IsLineOf(x, file[i]) <=> x = Dep(file[j])
    BY <1>1, <2>2, <2>4
  <2> QED BY <1>1, <2>5
<1>3. CASE lock.format = "packages.lock.json"
  <2>1. T = Named(file)
    BY <1>3 DEF Taken, NugetParseLockFile
  <2>2. i \in T /\ i \in DOMAIN file /\ file[i].kind = "locked"
    BY <2>1 DEF Named, Locked, Entries
  <2>3. Dep(file[i]) = [name |-> file[i].name, version |-> file[i].version]
    BY <2>2 DEF Dep
  <2>4. \A k \in T : IsLineOf(Dep(file[k]), file[i]) <=> Dep(file[k]) = Dep(file[i])
    BY <1>3, <2>3 DEF IsLineOf, Dep
  <2> QED BY <1>1, <2>2, <2>4
<1> QED BY <1>2, <1>3

\* Dependencies are a name and a version, and there are finitely many.
LEMMA ParsedType ==
  ASSUME NEW file \in Seq(FileEntry), NEW format \in Parsers, NEW ds \in ParseLockFile(format, file)
  PROVE  IsFiniteSet(ds) /\ ds \subseteq Dependency
<1>1. PICK T \in Taken(format, file) : ds = {Dep(file[j]) : j \in T}
  BY DEF ParseLockFile
<1>2. T \in SUBSET DOMAIN file
  BY TakenNamed DEF Named, Entries
<1>3. IsFiniteSet(T)
  <2>1. Len(file) \in Nat /\ DOMAIN file = 1..Len(file)
    OBVIOUS
  <2>2. IsFiniteSet(1..Len(file))
    BY <2>1, FS_Interval
  <2> QED BY <1>2, <2>1, <2>2, FS_Subset
<1>4. [j \in T |-> Dep(file[j])] \in Surjection(T, ds)
  BY <1>1 DEF Surjection
<1>5. IsFiniteSet(ds)
  BY <1>3, <1>4, FS_Surjection
<1>6. \A j \in T : Dep(file[j]) \in Dependency
  <2>1. \A j \in T : file[j] \in FileEntry
    BY <1>2
  <2>2. \A e \in FileEntry : e.name \in Nat /\ e.version \in STRING
    BY DEF FileEntry
  <2>3. ASSUME NEW e \in FileEntry PROVE Dep(e) \in Dependency
    <3>1. (IF e.kind = "loose" THEN "none" ELSE e.version) \in STRING \cup {"none"}
      BY <2>2
    <3> QED BY <2>2, <3>1 DEF Dep, Dependency
  <2> QED BY <2>1, <2>3
<1> QED BY <1>1, <1>5, <1>6

\* Sorted, they are a list without repetitions.
LEMMA SortedList ==
  ASSUME NEW ds, IsFiniteSet(ds), ds \subseteq Dependency, NEW s \in Sorted(ds)
  PROVE  /\ s \in Seq(Dependency) /\ Range(s) = ds
         /\ \A i, j \in DOMAIN s : s[i] = s[j] => i = j
<1>1. Cardinality(ds) \in Nat
  BY FS_CardinalityType
<1>2. s \in Injection(1..Cardinality(ds), ds) /\ s \in Surjection(1..Cardinality(ds), ds)
  BY DEF Sorted, Bijection
<1>3. s \in [1..Cardinality(ds) -> ds] /\ IsInjective(s) /\ \A d \in ds : \E i \in 1..Cardinality(ds) : s[i] = d
  BY <1>2 DEF Injection, Surjection
<1>4. s \in Seq(Dependency)
  BY <1>1, <1>3
<1>5. Range(s) = ds
  BY <1>3 DEF Range
<1>6. \A i, j \in DOMAIN s : s[i] = s[j] => i = j
  BY <1>3 DEF IsInjective
<1> QED BY <1>4, <1>5, <1>6
-----------------------------------------------------------------------------
(* The invariant *)

\* The file and its format.
LEMMA LockFacts ==
  ASSUME Typed
  PROVE  lock.file \in Seq(FileEntry) /\ lock.format \in Parsers
BY ScanAssumption DEF Typed, FileEntry

\* The list that the batches cut.
LEMMA ListFacts ==
  ASSUME ScanInv, phase \in {"scan", "print"}
  PROVE  /\ deps \in Seq(Dependency) /\ DOMAIN batch = 1..BatchCount(Len(deps))
         /\ \A i, j \in DOMAIN deps : deps[i] = deps[j] => i = j
         /\ \E ds \in ParseLockFile(lock.format, lock.file) : Range(deps) = ds
<1>1. PICK ds \in ParseLockFile(lock.format, lock.file) : deps \in Sorted(ds)
  BY DEF ScanInv, Planned
<1>2. IsFiniteSet(ds) /\ ds \subseteq Dependency
  BY LockFacts, ParsedType DEF ScanInv
<1>3. Range(deps) = ds /\ \A i, j \in DOMAIN deps : deps[i] = deps[j] => i = j
  BY <1>1, <1>2, SortedList
<1> QED BY <1>3 DEF ScanInv, Typed, Planned

LEMMA InitScan == Init => ScanInv
<1> SUFFICES ASSUME Init PROVE ScanInv
  OBVIOUS
<1>1. DOMAIN batch = {} /\ DOMAIN results = {}
  BY DEF Init
<1>2. deps \in Seq(Dependency) /\ results \in Seq(Verdict)
  BY DEF Init
<1>3. batch \in [DOMAIN batch -> {"waiting", "asking", "polling", "sent"}] /\ polls \in [DOMAIN batch -> 0..MaxPolls]
  BY <1>1 DEF Init
<1>4. Typed
  BY <1>2, <1>3 DEF Init, Typed
<1>5. Planned /\ Settled /\ Sent
  BY DEF Init, Planned, Settled, Sent
<1>6. Received
  BY <1>1 DEF Received
<1> QED BY <1>4, <1>5, <1>6 DEF ScanInv

\* Nothing is sent or received.
LEMMA Frame ==
  ASSUME Sent, Received, UNCHANGED <<deps, batch, outcomes, results>>
  PROVE  Sent' /\ Received'
<1>1. \A b : Items(b)' = Items(b)
  BY DEF Items
<1>2. \A b : Gathered(b)' <=> Gathered(b)
  BY DEF Gathered
<1>3. Sent'
  BY <1>1 DEF Sent
<1>4. Received'
  BY <1>1, <1>2 DEF Received
<1> QED BY <1>3, <1>4

\* A goroutine goes on to ask, or to poll.
LEMMA MoveStep ==
  ASSUME ScanInv, phase = "scan", NEW b \in DOMAIN batch, batch[b] # "sent", NEW w \in {"asking", "polling"},
         batch' = [batch EXCEPT ![b] = w], polls' \in [DOMAIN batch -> 0..MaxPolls],
         UNCHANGED <<input, deps, outcomes, lost, answer, cancelled, phase, code>>
  PROVE  ScanInv'
<1>1. DOMAIN batch' = DOMAIN batch /\ \A c \in DOMAIN batch : batch'[c] = "sent" <=> batch[c] = "sent"
  BY DEF ScanInv, Typed
<1>2. \A c : Items(c)' = Items(c)
  BY DEF Items
<1>3. \A c \in DOMAIN batch : Gathered(c)' <=> Gathered(c)
  BY <1>1 DEF Gathered, answer
<1>4. Typed'
  <2>1. batch' \in [DOMAIN batch' -> {"waiting", "asking", "polling", "sent"}]
    BY DEF ScanInv, Typed
  <2> QED BY <1>1, <2>1 DEF ScanInv, Typed, input, answer
<1>5. Planned'
  BY <1>1 DEF ScanInv, Planned, input
<1>6. Settled'
  BY DEF ScanInv, Settled, answer
<1>7. Sent'
  BY <1>1, <1>2 DEF ScanInv, Sent, Typed
<1>8. Received'
  BY <1>1, <1>2, <1>3 DEF ScanInv, Received, answer
<1> QED BY <1>4, <1>5, <1>6, <1>7, <1>8 DEF ScanInv

\* A goroutine ends, with a verdict for each item of its batch.
LEMMA SendStep ==
  ASSUME ScanInv, phase = "scan", NEW b \in DOMAIN batch, batch[b] # "sent",
         NEW verdicts \in Seq(Verdict), NEW bad \in BOOLEAN, SendOutcome(b, verdicts, bad),
         DOMAIN verdicts = DOMAIN Items(b), \A i \in DOMAIN verdicts : verdicts[i].dep = Items(b)[i],
         lost' = lost \cup (IF bad THEN {b} ELSE {}),
         UNCHANGED <<input, deps, polls, answer, cancelled, phase, code>>
  PROVE  ScanInv'
<1> DEFINE o == [index |-> b, results |-> verdicts, bad |-> bad]
<1>1. /\ DOMAIN batch' = DOMAIN batch /\ batch'[b] = "sent"
      /\ \A c \in DOMAIN batch : c # b => batch'[c] = batch[c]
  BY DEF ScanInv, Typed, SendOutcome
<1>2. \A c : Items(c)' = Items(c)
  BY DEF Items
<1>3. outcomes' = outcomes \cup {o} /\ o.index = b /\ o.results = verdicts /\ o.bad = bad
  BY DEF SendOutcome
<1>4. o \in [index : DOMAIN batch, results : Seq(Verdict), bad : BOOLEAN]
  OBVIOUS
<1> HIDE DEF o
<1>5. \A x \in outcomes : x.index \in DOMAIN batch /\ x.index # b
  BY DEF ScanInv, Typed, Sent
<1>6. \A c \in DOMAIN batch : Gathered(c)' <=> Gathered(c)
  BY <1>1, <1>3 DEF Gathered
<1>7. Typed'
  <2>1. batch' \in [DOMAIN batch' -> {"waiting", "asking", "polling", "sent"}] /\ lost' \subseteq DOMAIN batch'
    BY <1>1 DEF ScanInv, Typed, SendOutcome
  <2>2. outcomes' \subseteq [index : DOMAIN batch', results : Seq(Verdict), bad : BOOLEAN]
    BY <1>1, <1>3, <1>4 DEF ScanInv, Typed
  <2>3. polls' \in [DOMAIN batch' -> 0..MaxPolls]
    BY <1>1 DEF ScanInv, Typed
  <2> QED BY <2>1, <2>2, <2>3 DEF ScanInv, Typed, input, answer
<1>8. Planned'
  BY <1>1 DEF ScanInv, Planned, input
<1>9. Settled'
  BY <1>3 DEF ScanInv, Settled, answer
<1>10. Sent'
  <2>1. ASSUME NEW x \in outcomes'
        PROVE  /\ batch'[x.index] = "sent" /\ DOMAIN x.results = DOMAIN Items(x.index)
               /\ \A i \in DOMAIN x.results : x.results[i].dep = Items(x.index)[i]
    BY <1>1, <1>3, <1>5 DEF ScanInv, Sent
  <2>2. \A x, y \in outcomes' : x.index = y.index => x = y
    BY <1>3, <1>5 DEF ScanInv, Sent
  <2> QED BY <1>2, <2>1, <2>2 DEF Sent
<1>11. Received'
  BY <1>1, <1>2, <1>6 DEF ScanInv, Received, answer
<1> QED BY <1>7, <1>8, <1>9, <1>10, <1>11 DEF ScanInv

\* The verdicts of a batch are appended to those received.
LEMMA CollectStep == ScanInv /\ Collect => ScanInv'
<1> SUFFICES ASSUME ScanInv, Collect PROVE ScanInv'
  OBVIOUS
<1>1. phase = "scan" /\ UNCHANGED <<input, deps, batch, polls, lost, cancelled, phase, code>>
  BY DEF Collect
<1>2. PICK o \in outcomes : /\ outcomes' = outcomes \ {o} /\ results' = results \o o.results
                            /\ failed' = (failed \/ o.bad)
  BY DEF Collect
<1>3. PICK b \in DOMAIN batch : b = o.index
  BY DEF ScanInv, Typed
<1>4. /\ results \in Seq(Verdict) /\ o.results \in Seq(Verdict) /\ o.bad \in BOOLEAN /\ failed \in BOOLEAN
  BY DEF ScanInv, Typed
<1>5. /\ batch[b] = "sent" /\ DOMAIN o.results = DOMAIN Items(b)
      /\ \A i \in DOMAIN o.results : o.results[i].dep = Items(b)[i]
      /\ \A x \in outcomes : x.index = b => x = o
  BY <1>3 DEF ScanInv, Sent
<1>6. \A c : Items(c)' = Items(c)
  BY <1>1 DEF Items
<1>7. ~Gathered(b) /\ \A c \in DOMAIN batch : Gathered(c)' <=> Gathered(c) \/ c = b
  BY <1>1, <1>2, <1>3, <1>5 DEF Gathered
<1>8. Typed'
  BY <1>1, <1>2, <1>4 DEF ScanInv, Typed, input
<1>9. Planned'
  BY <1>1 DEF ScanInv, Planned, input
<1>10. Settled'
  BY <1>1, <1>2, <1>4 DEF ScanInv, Settled
<1>11. Sent'
  BY <1>1, <1>2, <1>6 DEF ScanInv, Sent
<1> DEFINE n == Len(results)
           m == Len(o.results)
<1>12. /\ n \in Nat /\ m \in Nat /\ DOMAIN results = 1..n /\ DOMAIN o.results = 1..m /\ DOMAIN results' = 1..(n + m)
       /\ \A i \in 1..n : results'[i] = results[i]
       /\ \A i \in 1..m : results'[n + i] = o.results[i] /\ n + i \in 1..(n + m)
  BY <1>2, <1>4
<1>13. \A i \in 1..(n + m) : i \in 1..n \/ (i - n \in 1..m /\ n + (i - n) = i)
  BY <1>12
<1> HIDE DEF n, m
\* A line received is one of before, of a batch gathered then, or a line of the outcome.
<1>14. ASSUME NEW i \in 1..n
       PROVE  \E c \in DOMAIN batch : Gathered(c) /\ results'[i].dep \in Range(Items(c))
  BY <1>12 DEF ScanInv, Received
<1>15. ASSUME NEW i \in 1..(n + m), i \notin 1..n
       PROVE  \E x \in 1..m : i = n + x /\ x \in DOMAIN Items(b) /\ results'[i].dep = Items(b)[x]
  <2>1. i - n \in 1..m /\ n + (i - n) = i
    BY <1>13, <1>15
  <2>2. PICK x \in 1..m : x = i - n
    BY <2>1
  <2>3. results'[n + x] = o.results[x] /\ n + x = i
    BY <1>12, <2>1, <2>2
  <2>4. x \in DOMAIN Items(b) /\ o.results[x].dep = Items(b)[x]
    BY <1>5, <1>12
  <2> QED BY <2>3, <2>4
<1>16. /\ deps \in Seq(Dependency) /\ DOMAIN batch = 1..BatchCount(Len(deps))
       /\ \A i, j \in DOMAIN deps : deps[i] = deps[j] => i = j
  BY <1>1, ListFacts
<1>17. ASSUME NEW i \in 1..n, NEW j \in 1..(n + m), j \notin 1..n PROVE results'[i].dep # results'[j].dep
  <2> SUFFICES ASSUME results'[i].dep = results'[j].dep PROVE FALSE
    OBVIOUS
  <2>1. PICK c \in DOMAIN batch : Gathered(c) /\ results'[i].dep \in Range(Items(c))
    BY <1>14
  <2>2. PICK y \in DOMAIN Items(c) : results'[i].dep = Items(c)[y]
    BY <2>1 DEF Range
  <2>3. PICK x \in DOMAIN Items(b) : results'[j].dep = Items(b)[x]
    BY <1>15, <1>17
  <2>4. c = b
    BY <1>16, <2>2, <2>3, ItemsMeet
  <2> QED BY <1>7, <2>1, <2>4
<1>18. ASSUME NEW i \in 1..(n + m), i \notin 1..n, NEW j \in 1..(n + m), j \notin 1..n,
              results'[i].dep = results'[j].dep
       PROVE  i = j
  <2>1. PICK x \in DOMAIN Items(b) : i = n + x /\ results'[i].dep = Items(b)[x]
    BY <1>15, <1>18
  <2>2. PICK y \in DOMAIN Items(b) : j = n + y /\ results'[j].dep = Items(b)[y]
    BY <1>15, <1>18
  <2>3. x = y
    BY <1>16, <1>18, <2>1, <2>2, ItemsMeet
  <2> QED BY <2>1, <2>2, <2>3
<1>19. Received'
  <2>1. ASSUME NEW i \in 1..(n + m)
        PROVE  \E c \in DOMAIN batch : Gathered(c)' /\ results'[i].dep \in Range(Items(c))
    <3>1. CASE i \in 1..n
      BY <1>7, <1>14, <3>1
    <3>2. CASE i \notin 1..n
      BY <1>7, <1>15, <3>2 DEF Range
    <3> QED BY <3>1, <3>2
  <2>2. ASSUME NEW i \in 1..(n + m), NEW j \in 1..(n + m), results'[i].dep = results'[j].dep PROVE i = j
    <3>1. CASE i \in 1..n /\ j \in 1..n
      <4>1. \A x, y \in 1..n : results[x].dep = results[y].dep => x = y
        BY <1>12 DEF ScanInv, Received
      <4>2. results[i].dep = results[j].dep
        BY <1>12, <2>2, <3>1
      <4> QED BY <3>1, <4>1, <4>2
    <3>2. CASE i \notin 1..n \/ j \notin 1..n
      BY <1>17, <1>18, <2>2, <3>2
    <3> QED BY <3>1, <3>2
  <2>3. ASSUME NEW c \in DOMAIN batch, Gathered(c)', NEW d \in Range(Items(c))
        PROVE  \E i \in 1..(n + m) : results'[i].dep = d
    <3>1. CASE c = b
      <4>1. PICK x \in DOMAIN Items(b) : Items(b)[x] = d
        BY <3>1 DEF Range
      <4>2. x \in 1..m /\ results'[n + x].dep = d /\ n + x \in 1..(n + m)
        BY <1>5, <1>12, <4>1
      <4> QED BY <4>2
    <3>2. CASE c # b
      <4>1. Gathered(c)
        BY <1>7, <2>3, <3>2
      <4>2. PICK i \in 1..n : results[i].dep = d
        BY <1>12, <4>1 DEF ScanInv, Received
      <4>3. results'[i].dep = d /\ i \in 1..(n + m)
        BY <1>12, <4>2
      <4> QED BY <4>3
    <3> QED BY <3>1, <3>2
  <2> QED BY <1>1, <1>6, <1>12, <2>1, <2>2, <2>3 DEF Received
<1> QED BY <1>8, <1>9, <1>10, <1>11, <1>19 DEF ScanInv

\* The file is read and cut.
LEMMA BeginStep == ScanInv /\ Begin => ScanInv'
<1> SUFFICES ASSUME ScanInv, Begin PROVE ScanInv'
  OBVIOUS
<1>1. /\ phase = "look" /\ phase' = "scan" /\ UNCHANGED <<input, outcomes, lost, answer, cancelled, code>>
      /\ batch' = [b \in 1..BatchCount(Len(deps')) |-> "waiting"]
      /\ polls' = [b \in 1..BatchCount(Len(deps')) |-> 0]
  BY DEF Begin
<1>2. PICK ds \in ParseLockFile(lock.format, lock.file) : deps' \in Sorted(ds)
  BY DEF Begin
<1>3. deps' \in Seq(Dependency)
  <2>1. IsFiniteSet(ds) /\ ds \subseteq Dependency
    BY LockFacts, ParsedType DEF ScanInv
  <2> QED BY <1>2, <2>1, SortedList
<1>4. batch = <<>> /\ results = <<>> /\ outcomes = {} /\ lost = {} /\ ~failed
  BY <1>1 DEF ScanInv, Planned
<1>5. DOMAIN batch' = 1..BatchCount(Len(deps')) /\ \A b \in DOMAIN batch' : batch'[b] = "waiting"
  BY <1>1
<1>6. Typed'
  <2>1. batch' \in [DOMAIN batch' -> {"waiting", "asking", "polling", "sent"}] /\ polls' \in [DOMAIN batch' -> 0..MaxPolls]
    <3>1. 0 \in 0..MaxPolls
      BY ScanAssumption
    <3> QED BY <1>1, <3>1
  <2> QED BY <1>1, <1>3, <1>4, <2>1 DEF ScanInv, Typed, input, answer
<1>7. Planned'
  BY <1>1, <1>2, <1>5 DEF Planned, input
<1>8. Settled'
  BY <1>1, <1>4 DEF ScanInv, Settled, answer
<1>9. Sent'
  BY <1>1, <1>4 DEF Sent
<1>10. Received'
  <2>1. DOMAIN results' = {}
    BY <1>1, <1>4 DEF answer
  <2>2. \A b \in DOMAIN batch' : ~Gathered(b)'
    BY <1>5 DEF Gathered
  <2> QED BY <2>1, <2>2 DEF Received
<1> QED BY <1>6, <1>7, <1>8, <1>9, <1>10 DEF ScanInv

\* The caller refuses the file, has drained the channel, exits or is cancelled.
LEMMA CallerStep == ScanInv /\ (Refuse \/ Drained \/ Finish \/ Cancel \/ UNCHANGED vars) => ScanInv'
<1> SUFFICES ASSUME ScanInv, Refuse \/ Drained \/ Finish \/ Cancel \/ UNCHANGED vars PROVE ScanInv'
  OBVIOUS
<1>1. UNCHANGED <<lock, async, deps, batch, polls, outcomes, lost, results, failed>>
  BY DEF Refuse, Drained, Finish, Cancel, vars, input, pool, answer
<1>2. Sent' /\ Received'
  BY <1>1, Frame DEF ScanInv
<1>3. Typed'
  BY <1>1 DEF ScanInv, Typed, Refuse, Drained, Finish, Cancel, vars
<1>4. Planned' /\ Settled'
  <2>1. CASE Refuse
    BY <1>1, <2>1 DEF ScanInv, Planned, Settled, Refuse
  <2>2. CASE Drained
    BY <1>1, <2>2 DEF ScanInv, Planned, Settled, Drained
  <2>3. CASE Finish
    BY <1>1, <2>3 DEF ScanInv, Planned, Settled, Finish
  <2>4. CASE Cancel
    BY <1>1, <2>4 DEF ScanInv, Planned, Settled, Cancel
  <2>5. CASE UNCHANGED vars
    BY <1>1, <2>5 DEF ScanInv, Planned, Settled, vars
  <2> QED BY <2>1, <2>2, <2>3, <2>4, <2>5
<1> QED BY <1>2, <1>3, <1>4 DEF ScanInv

\* The verdicts of a batch that is answered, in part or as a whole, or that failed.
LEMMA VerdictFacts ==
  ASSUME ScanInv, phase = "scan", NEW b \in DOMAIN batch, NEW answered
  PROVE  /\ Matched(Items(b), answered) \in Seq(Verdict) /\ Unknown(Items(b)) \in Seq(Verdict)
         /\ DOMAIN Matched(Items(b), answered) = DOMAIN Items(b) /\ DOMAIN Unknown(Items(b)) = DOMAIN Items(b)
         /\ \A i \in DOMAIN Items(b) : Matched(Items(b), answered)[i].dep = Items(b)[i] /\ Unknown(Items(b))[i].dep = Items(b)[i]
<1>1. PICK s \in Seq(Dependency) : s = Items(b)
  BY ListFacts, ItemsAre
<1>2. Len(s) \in Nat /\ DOMAIN s = 1..Len(s) /\ \A i \in DOMAIN s : s[i] \in Dependency
  OBVIOUS
<1>3. Matched(s, answered) \in [1..Len(s) -> Verdict]
  BY <1>2 DEF Matched, Verdict
<1>4. Unknown(s) \in [1..Len(s) -> Verdict]
  BY <1>2 DEF Unknown, Verdict
<1>5. \A f \in [1..Len(s) -> Verdict] : f \in Seq(Verdict)
  BY <1>2
<1>6. Matched(s, answered) \in Seq(Verdict) /\ Unknown(s) \in Seq(Verdict)
  BY <1>3, <1>4, <1>5
<1> QED BY <1>1, <1>6 DEF Matched, Unknown

\* A goroutine of a batch.
LEMMA GoroutineStep == ScanInv /\ phase = "scan" /\ (\E b \in DOMAIN batch : Goroutine(b)) => ScanInv'
<1> SUFFICES ASSUME ScanInv, phase = "scan", NEW b \in DOMAIN batch, Goroutine(b) PROVE ScanInv'
  OBVIOUS
<1>1. polls \in [DOMAIN batch -> 0..MaxPolls]
  BY DEF ScanInv, Typed
<1>2. ASSUME batch[b] # "sent", FailBatch(b), UNCHANGED <<input, deps, polls, answer, cancelled, phase, code>>
      PROVE  ScanInv'
  BY <1>2, VerdictFacts, SendStep DEF FailBatch
<1>3. ASSUME batch[b] # "sent", Answer(b), UNCHANGED <<input, deps, polls, answer, cancelled, phase, code>>
      PROVE  ScanInv'
  <2>1. PICK answered : SendOutcome(b, Matched(Items(b), answered), FALSE)
    BY <1>3 DEF Answer
  <2>2. lost' = lost \cup (IF FALSE THEN {b} ELSE {})
    BY <1>3 DEF Answer
  <2>3. PICK verdicts \in Seq(Verdict) :
          /\ verdicts = Matched(Items(b), answered) /\ DOMAIN verdicts = DOMAIN Items(b)
          /\ \A i \in DOMAIN verdicts : verdicts[i].dep = Items(b)[i]
    BY VerdictFacts
  <2>4. SendOutcome(b, verdicts, FALSE)
    BY <2>1, <2>3
  <2> QED BY <1>3, <2>2, <2>3, <2>4, SendStep
<1>4. CASE Acquire(b)
  BY <1>1, <1>4, MoveStep DEF Acquire
<1>5. CASE Abandon(b)
  BY <1>2, <1>5 DEF Abandon
<1>6. CASE EvaluateSync(b)
  BY <1>2, <1>3, <1>6 DEF EvaluateSync
<1>7. CASE Initiate(b)
  <2>1. batch[b] # "sent" /\ UNCHANGED <<input, deps, polls, answer, cancelled, phase, code>>
    BY <1>7 DEF Initiate
  <2>2. CASE FailBatch(b)
    BY <1>2, <2>1, <2>2
  <2>3. CASE batch' = [batch EXCEPT ![b] = "polling"] /\ UNCHANGED <<outcomes, lost>>
    BY <1>1, <2>1, <2>3, MoveStep
  <2> QED BY <1>7, <2>2, <2>3 DEF Initiate
<1>8. CASE PollStatus(b)
  <2>1. batch[b] # "sent" /\ UNCHANGED <<input, deps, answer, cancelled, phase, code>>
    BY <1>8 DEF PollStatus
  <2>2. CASE (Answer(b) \/ FailBatch(b)) /\ UNCHANGED polls
    BY <1>2, <1>3, <2>1, <2>2
  <2>3. CASE polls[b] < MaxPolls /\ polls' = [polls EXCEPT ![b] = @ + 1] /\ UNCHANGED <<batch, outcomes, lost>>
    <3>1. batch' = [batch EXCEPT ![b] = "polling"]
      BY <1>8, <2>3 DEF ScanInv, Typed, PollStatus
    <3>2. polls[b] + 1 \in 0..MaxPolls
      BY <1>1, <2>3, ScanAssumption
    <3>3. polls' \in [DOMAIN batch -> 0..MaxPolls]
      BY <1>1, <2>3, <3>2
    <3> QED BY <2>1, <2>3, <3>1, <3>3, MoveStep
  <2> QED BY <1>8, <2>2, <2>3 DEF PollStatus
<1> QED BY <1>4, <1>5, <1>6, <1>7, <1>8 DEF Goroutine

LEMMA NextScan == ScanInv /\ [Next]_vars => ScanInv'
<1> SUFFICES ASSUME ScanInv, [Next]_vars PROVE ScanInv'
  OBVIOUS
<1>1. CASE Begin
  BY <1>1, BeginStep
<1>2. CASE Collect
  BY <1>2, CollectStep
<1>3. CASE Refuse \/ Drained \/ Finish \/ Cancel \/ UNCHANGED vars
  BY <1>3, CallerStep
<1>4. CASE \E b \in DOMAIN batch : Goroutine(b)
  <2>1. PICK b \in DOMAIN batch : Goroutine(b)
    BY <1>4
  <2>2. batch[b] # "sent"
    BY <2>1 DEF Goroutine, Acquire, Abandon, EvaluateSync, Initiate, PollStatus
  <2>3. phase = "scan"
    BY <2>2 DEF ScanInv, Typed, Planned, Settled
  <2> QED BY <1>4, <2>3, GoroutineStep
<1> QED BY <1>1, <1>2, <1>3, <1>4 DEF Next

LEMMA ScanInvariant == Spec => []ScanInv
<1>1. Init => ScanInv
  BY InitScan
<1>2. ScanInv /\ [Next]_vars => ScanInv'
  BY NextScan
<1> QED BY <1>1, <1>2, PTL DEF Spec
-----------------------------------------------------------------------------
\* Once all batches are gathered, one line received is that of a locked entry.
LEMMA OneLine ==
  ASSUME ScanInv, phase = "print", NEW i \in DOMAIN lock.file, lock.file[i].kind = "locked"
  PROVE  Cardinality({x \in DOMAIN results : IsLineOf(results[x].dep, lock.file[i])}) = 1
<1>1. /\ deps \in Seq(Dependency) /\ DOMAIN batch = 1..BatchCount(Len(deps))
      /\ \E ds \in ParseLockFile(lock.format, lock.file) : Range(deps) = ds
  BY ListFacts
<1>2. \A b \in DOMAIN batch : Gathered(b)
  BY DEF ScanInv, Settled, Gathered
<1>3. PICK d \in Range(deps) : \A x \in Range(deps) : IsLineOf(x, lock.file[i]) <=> x = d
  <2>1. i \in Locked(lock.file) /\ lock.file \in Seq(FileEntry) /\ lock.format \in Parsers
    BY LockFacts DEF Locked, Entries, ScanInv
  <2> QED BY <1>1, <2>1, ParsedOnce
<1>4. PICK x \in DOMAIN results : results[x].dep = d
  <2>1. PICK k \in DOMAIN deps : deps[k] = d
    BY DEF Range
  <2>2. PICK b \in DOMAIN batch : d \in Range(Items(b))
    BY <1>1, <2>1, ItemsCover
  <2> QED BY <1>2, <2>2 DEF ScanInv, Received
<1>5. ASSUME NEW y \in DOMAIN results PROVE results[y].dep \in Range(deps)
  <2>1. PICK b \in DOMAIN batch : results[y].dep \in Range(Items(b))
    BY DEF ScanInv, Received
  <2>2. PICK z \in DOMAIN Items(b) : results[y].dep = Items(b)[z]
    BY <2>1 DEF Range
  <2>3. Items(b)[z] = deps[First(b) + z] /\ First(b) + z \in 1..Len(deps)
    BY <1>1, ItemsAre
  <2> QED BY <1>1, <2>2, <2>3 DEF Range
<1>6. ASSUME NEW y \in DOMAIN results PROVE IsLineOf(results[y].dep, lock.file[i]) <=> y = x
  <2>1. IsLineOf(results[y].dep, lock.file[i]) <=> results[y].dep = d
    BY <1>3, <1>5
  <2>2. results[y].dep = results[x].dep => y = x
    BY DEF ScanInv, Received
  <2> QED BY <1>4, <2>1, <2>2
<1>7. {y \in DOMAIN results : IsLineOf(results[y].dep, lock.file[i])} = {x}
  BY <1>6
<1> QED BY <1>7, FS_Singleton

(***************************************************************************)
(* Whatever the lock file and its format, the cut into batches, the order   *)
(* in which they end and what the firewall leaves out: every package locked *)
(* with a version has one line in the table, and an audit without all       *)
(* answers fails (evaluateFirewallBatches,                                  *)
(* executeRegistryFirewallScanHandler).                                     *)
(***************************************************************************)
THEOREM AuditAlwaysWhole == Spec => []AuditIsWhole
<1>1. ScanInv => AuditIsWhole
  <2> SUFFICES ASSUME ScanInv PROVE AuditIsWhole
    OBVIOUS
  <2>1. TypeOK
    <3>1. \A b \in DOMAIN batch : batch[b] \in {"waiting", "asking", "polling", "sent"} /\ polls[b] \in 0..MaxPolls
      BY DEF ScanInv, Typed
    <3>2. \A o \in outcomes : o.index \in DOMAIN batch
      BY DEF ScanInv, Typed
    <3>3. \A i \in DOMAIN results : results[i].status \in {"JUDGED", "UNKNOWN"}
      <4>1. \A i \in DOMAIN results : results[i] \in Verdict
        BY DEF ScanInv, Typed
      <4> QED BY <4>1 DEF Verdict
    <3> QED BY <3>1, <3>2, <3>3 DEF ScanInv, Typed, TypeOK
  <2>2. OneLineForEachPackage
    BY OneLine DEF OneLineForEachPackage, Shown, IsLineOf
  <2>3. LostBatchFails
    BY DEF ScanInv, Settled, LostBatchFails
  <2> QED BY <2>1, <2>2, <2>3 DEF AuditIsWhole
<1> QED BY <1>1, ScanInvariant, PTL

-----------------------------------------------------------------------------
(* Coverage: what the rows and the lines say, how the counts follow the lines, and how reports
   agree. What a line of several reports is does not depend on their order: IsJoin.         *)

\* How many there are, as Coverage counts them.
LEMMA Counting == \A S : C!Cardinality(S) = Cardinality(S)
  BY DEF C!Cardinality, Cardinality


Counters == {"hit", "partial", "miss", "patchHit", "patchPartial", "patchMiss"}
LineInfo == [type : C!Types, diff : BOOLEAN]

\* What is known of a line is a type, and whether the diff has it.
Tagged(k, l) == l \in LineInfo /\ l.diff = (k \in Changed)
Judged(f) == \A k \in DOMAIN f : Tagged(k, f[k])

\* And the rows, moreover, are of files and lines that were asked for.
Wanted(f) == \A k \in DOMAIN f : k[1] \notin Excluded /\ (patch => k[1] \in Tracked /\ k \in Changed)

Of(f, p, t) == {k \in DOMAIN f : k[1] = p /\ f[k].type = t}
OfDiff(f, p, t) == {k \in Of(f, p, t) : f[k].diff}

\* The counters s of file p are those of the lines f.
Counts(s, f, p) ==
  /\ s \in [Counters -> Int]
  /\ \A t \in C!Types : /\ s[t] = Cardinality(Of(f, p, t))
                      /\ s[C!PatchCounter[t]] = Cardinality(OfDiff(f, p, t))

Counted ==
  /\ IsFiniteSet(DOMAIN lines) /\ Cardinality(DOMAIN lines) <= seen
  /\ \A k \in DOMAIN lines : k[1] \in DOMAIN stats
  /\ \A p \in DOMAIN stats : Counts(stats[p], lines, p)

\* What several reports say of a line together: that of which all of them speak, or "partial".
IsJoin(T, t) == T = {t} \/ (t = "partial" /\ \E a, b \in T : a # b)

SentTypes(k) == {f[k].type : f \in {g \in sent : k \in DOMAIN g}}
RowType(k) == IF k \in DOMAIN rows THEN {rows[k].type} ELSE {}
Reported == {k \in DOMAIN lines : patch => k \in Changed}

\* Until a report fails, uploaded rows and the analysis agree.
Agreed ==
  analysis = "open" =>
    /\ \A k : k \in Reported <=> (k \in DOMAIN rows \/ \E f \in sent : k \in DOMAIN f)
    /\ \A k \in Reported : IsJoin(SentTypes(k) \cup RowType(k), lines[k].type)

Shaped ==
  /\ {patch, git, errors} \subseteq BOOLEAN /\ seen \in 0..MaxSeen /\ analysis \in {"open", "failed"}
  /\ Judged(lines) /\ \A f \in sent \cup {rows} : Judged(f) /\ Wanted(f)

CoverageInv == Shaped /\ Counted /\ Agreed

-----------------------------------------------------------------------------
\* A parser yields one of three types.
LEMMA LineTypes ==
  ASSUME NEW o \in Observations
  PROVE  C!LineType(o) \in C!Types
<1>0. o.format \in Reports /\ (o.format = "go" => o.count # {})
  BY CoverageAssumption
<1>1. CASE o.format = "go"
  <2>1. o.count # {}
    BY <1>0, <1>1
  <2> DEFINE types == {C!TypeOfCount(n) : n \in o.count}
  <2>2. types # {} /\ \A t \in types : t \in {"hit", "miss"}
    BY <2>1 DEF C!TypeOfCount
  <2>3. (CHOOSE t \in types : TRUE) \in C!Types
    BY <2>2, Zenon DEF C!Types
  <2>4. C!GotxtLineType(o.count) \in C!Types
    BY <2>3 DEF C!GotxtLineType, C!Types
  <2> QED BY <1>1, <2>4 DEF C!LineType
<1>2. CASE o.format = "clover"
  BY <1>2 DEF C!LineType, C!CloverLineType, C!TypeOfCount, C!Types
<1>3. CASE o.format = "cobertura"
  BY <1>3 DEF C!LineType, C!CoberturaLineType, C!TypeOfCount, C!Types
<1>4. CASE o.format = "jacoco"
  BY <1>4 DEF C!LineType, C!JacocoLineType, C!Types
<1>5. CASE o.format = "lcov"
  BY <1>5 DEF C!LineType, C!LcovLineType, C!TypeOfCount, C!Types
<1>6. CASE o.format = "coveralls"
  BY <1>6 DEF C!LineType, C!CoverallsLineType, C!TypeOfCount, C!Types
<1> QED BY <1>0, <1>1, <1>2, <1>3, <1>4, <1>5, <1>6 DEF Reports

\* Of two types, the merge is one.
LEMMA MergedType ==
  ASSUME NEW a \in C!Types, NEW b \in C!Types
  PROVE  C!MergeLineType(a, b) \in C!Types /\ (a = b => C!MergeLineType(a, b) = a) /\ (a # b => C!MergeLineType(a, b) = "partial")
BY DEF C!MergeLineType, C!Types

-----------------------------------------------------------------------------
\* The least element of a set of positions is one of them.
LEMMA FirstOf ==
  ASSUME NEW T \in SUBSET Nat, T # {}
  PROVE  C!Min(T) \in T
<1>1. PICK m \in T : \A k \in T : m =< k
  BY Least
<1>2. (CHOOSE x \in T : \A y \in T : x =< y) \in T
  BY <1>1, Zenon
<1> QED BY <1>2 DEF C!Min

Good(c) == c.kind = "file" => c.path \notin Excluded /\ (patch => c.path \in Tracked)
Trusted(c) == c.kind = "file" => (patch => c.path \in Tracked)

\* A choice is filtered last.
LEMMA Filtered ==
  ASSUME NEW c, Trusted(c)
  PROVE  Good(C!FinishChoice(c)) /\ Good(C!DropIfExcluded(c))
BY DEF Good, Trusted, C!FinishChoice, C!DropIfExcluded, C!Skip, C!Unresolved

\* The only match is one of the matches.
LEMMA OneMatch ==
  ASSUME NEW S
  PROVE  C!OneExactMatch(S).kind = "file" => C!OneExactMatch(S).path \in S
<1>1. CASE S = {}
  BY <1>1 DEF C!OneExactMatch, C!NoMatch
<1>2. CASE S # {}
  <2>1. (CHOOSE p \in S : TRUE) \in S
    BY <1>2, Zenon
  <2> DEFINE first == CHOOSE p \in S : TRUE
  <2> HIDE DEF first
  <2>2. C!OneExactMatch(S) = C!File(first) \/ C!OneExactMatch(S) = C!Ambiguous
    BY <1>2, Zenon DEF C!OneExactMatch, first
  <2>3. first \in S
    BY <2>1 DEF first
  <2> QED BY <2>2, <2>3 DEF C!File, C!Ambiguous
<1> QED BY <1>1, <1>2

LEMMA Unguessed == ASSUME NEW p PROVE Trusted(C!UnresolvedPath(p))
BY DEF Trusted, C!UnresolvedPath, C!Unresolved, C!File

LEMMA TrackedMatch ==
  ASSUME NEW S, \A p \in S : p \in Tracked
  PROVE  Trusted(C!OneExactMatch(S))
BY OneMatch DEF Trusted

LEMMA Resolved == ASSUME NEW o PROVE Trusted(C!ResolvePath(o))
<1> DEFINE p == o.path
<1>1. Trusted(C!UnresolvedPath(p))
  BY Unguessed
<1>2. Trusted(C!MatchGoModule(p))
  <2> DEFINE Under(m) == m.dir \o SubSeq(p, Len(m.name) + 1, Len(p))
             fitting == {m \in GoModules : C!IsPrefix(m.name, p) /\ Under(m) \in Tracked}
             longest == {m \in fitting : \A n \in fitting : Len(n.name) <= Len(m.name)}
             S == {Under(m) : m \in longest}
  <2>1. \A m \in longest : Under(m) \in Tracked
    OBVIOUS
  <2>2. \A q \in S : q \in Tracked
    BY <2>1, Zenon
  <2>3. C!MatchGoModule(p) = C!OneExactMatch(S)
    BY Zenon DEF C!MatchGoModule
  <2> HIDE DEF S
  <2> QED BY <2>2, <2>3, TrackedMatch, Zenon
<1>3. Trusted(C!MatchManifestPrefixes(p))
  <2> DEFINE S == {d \o p : d \in Manifests} \cap Tracked
  <2>1. \A q \in S : q \in Tracked
    OBVIOUS
  <2>2. C!MatchManifestPrefixes(p) = C!OneExactMatch(S)
    BY Zenon DEF C!MatchManifestPrefixes
  <2> HIDE DEF S
  <2> QED BY <2>1, <2>2, TrackedMatch, Zenon
<1>4. Trusted(C!UniqueSuffix(p))
  <2> DEFINE S == C!PathsForSuffix(p)
  <2>1. \A q \in S : q \in Tracked
    BY DEF C!PathsForSuffix
  <2>2. C!UniqueSuffix(p) = C!OneExactMatch(S) \/ C!UniqueSuffix(p) = C!UnresolvedPath(p)
    BY Zenon DEF C!UniqueSuffix
  <2> HIDE DEF S
  <2>3. Trusted(C!OneExactMatch(S))
    BY <2>1, TrackedMatch, Zenon
  <2> QED BY <1>1, <2>2, <2>3
<1>5. p \in Tracked => Trusted(C!File(p))
  BY DEF Trusted, C!File
<1>6. \/ C!ResolvePath(o) \in {C!UnresolvedPath(C!StoredUnresolvedPath(o)), C!UnresolvedPath(p), C!MatchGoModule(p), C!MatchManifestPrefixes(p), C!UniqueSuffix(p)}
      \/ p \in Tracked /\ C!ResolvePath(o) = C!File(p)
  BY Zenon DEF C!ResolvePath
<1>7. Trusted(C!UnresolvedPath(C!StoredUnresolvedPath(o)))
  BY Unguessed
<1> QED BY <1>1, <1>2, <1>3, <1>4, <1>5, <1>6, <1>7

\* Of candidates, one is taken that is tracked and not excluded.
LEMMA Candidates ==
  ASSUME NEW more \in Seq(Seq(STRING)), NEW otherwise
  PROVE  LET c == C!FirstTracked(more, otherwise) IN c = otherwise \/ Good(c)
<1> DEFINE tracked == {i \in DOMAIN more : more[i] \in Tracked}
           kept == {i \in tracked : more[i] \notin Excluded}
<1>1. kept \in SUBSET Nat
  OBVIOUS
<1>2. kept # {} => C!Min(kept) \in kept
  BY <1>1, FirstOf
<1>3. kept # {} => more[C!Min(kept)] \in Tracked /\ more[C!Min(kept)] \notin Excluded
  BY <1>2
<1>4. \/ kept # {} /\ C!FirstTracked(more, otherwise) = C!File(more[C!Min(kept)])
      \/ C!FirstTracked(more, otherwise) \in {C!Skip, otherwise}
  BY Zenon DEF C!FirstTracked
<1> HIDE DEF kept
<1> QED BY <1>3, <1>4 DEF Good, C!File, C!Skip

\* A choice among the source roots is of a tracked file.
LEMMA Below == ASSUME NEW p PROVE Trusted(C!MatchSourceRoot(p))
<1> DEFINE matches == C!PathsForSuffix(p)
           kept == matches \ Excluded
<1>1. \A q \in kept : q \in Tracked
  BY DEF C!PathsForSuffix
<1>2. \/ p \in Tracked /\ C!MatchSourceRoot(p) = C!DropIfExcluded(C!File(p))
      \/ C!MatchSourceRoot(p) \in {C!NoMatch, C!Skip, C!OneExactMatch(kept)}
  BY Zenon DEF C!MatchSourceRoot
<1> HIDE DEF kept
<1>3. Trusted(C!OneExactMatch(kept))
  BY <1>1, TrackedMatch, Zenon
<1>4. p \in Tracked => Trusted(C!DropIfExcluded(C!File(p)))
  BY DEF Trusted, C!DropIfExcluded, C!File, C!Skip
<1>5. Trusted(C!NoMatch) /\ Trusted(C!Skip)
  BY DEF Trusted, C!NoMatch, C!Skip
<1> QED BY <1>2, <1>3, <1>4, <1>5

LEMMA NamedChoice ==
  ASSUME NEW o \in Observations
  PROVE  Good(C!SelectNamedCandidates(o))
<1> DEFINE first == C!FirstTracked(o.more, C!NoMatch)
           below == [i \in DOMAIN Roots |-> C!MatchSourceRoot(Roots[i] \o o.path)]
           decided == {i \in DOMAIN below : below[i].kind \in {"file", "ambiguous"}}
<1>0. o.more \in Seq(Seq(STRING)) /\ DOMAIN Roots \in SUBSET Nat
  BY CoverageAssumption
<1>1. Good(first)
  <2>1. first = C!NoMatch \/ Good(first)
    BY <1>0, Candidates
  <2>2. Good(C!NoMatch)
    BY DEF Good, C!NoMatch
  <2> QED BY <2>1, <2>2
<1>2. decided # {} => Good(C!FinishChoice(below[C!Min(decided)]))
  <2> SUFFICES ASSUME decided # {} PROVE Good(C!FinishChoice(below[C!Min(decided)]))
    OBVIOUS
  <2>1. decided \in SUBSET Nat
    BY <1>0
  <2>2. PICK i \in DOMAIN Roots : i = C!Min(decided)
    BY <2>1, FirstOf
  <2>3. below[i] = C!MatchSourceRoot(Roots[i] \o o.path)
    OBVIOUS
  <2>4. Trusted(below[i])
    BY <2>3, Below
  <2>5. Good(C!FinishChoice(below[i]))
    BY <2>4, Filtered
  <2> QED BY <2>2, <2>5
<1>3. Good(C!DropIfExcluded(C!UnresolvedPath(o.path))) /\ Good(C!FinishChoice(C!ResolvePath(o))) /\ Good(C!Skip)
  <2>1. Good(C!Skip)
    BY DEF Good, C!Skip
  <2> QED BY <2>1, Unguessed, Resolved, Filtered
<1>4. \/ C!SelectNamedCandidates(o) \in {first, C!DropIfExcluded(C!UnresolvedPath(o.path)), C!Skip, C!FinishChoice(C!ResolvePath(o))}
      \/ decided # {} /\ C!SelectNamedCandidates(o) = C!FinishChoice(below[C!Min(decided)])
  BY Zenon DEF C!SelectNamedCandidates
<1> HIDE DEF first, below, decided
<1> QED BY <1>1, <1>2, <1>3, <1>4

\* Whatever file a line is counted for, it is not excluded, and under --patch it is tracked.
LEMMA Selected ==
  ASSUME NEW o \in Observations
  PROVE  Good(C!Select(o))
<1>0. o.more \in Seq(Seq(STRING))
  BY CoverageAssumption
<1>1. Good(C!FinishChoice(C!ResolvePath(o)))
  BY Resolved, Filtered
<1>2. Good(C!SelectSourceCandidates(o))
  <2>1. C!SelectSourceCandidates(o) \in {C!FirstTracked(o.more, C!FinishChoice(C!ResolvePath(o))), C!FinishChoice(C!ResolvePath(o))}
    BY Zenon DEF C!SelectSourceCandidates
  <2>2. C!FirstTracked(o.more, C!FinishChoice(C!ResolvePath(o))) = C!FinishChoice(C!ResolvePath(o))
        \/ Good(C!FirstTracked(o.more, C!FinishChoice(C!ResolvePath(o))))
    BY <1>0, Candidates
  <2> QED BY <1>1, <2>1, <2>2
<1>3. Good(C!Unresolved) /\ Good(C!Skip)
  BY DEF Good, C!Unresolved, C!Skip
<1>4. C!Select(o) \in {C!Unresolved, C!Skip, C!SelectSourceCandidates(o), C!SelectNamedCandidates(o), C!FinishChoice(C!ResolvePath(o))}
  BY Zenon DEF C!Select
<1> QED BY <1>1, <1>2, <1>3, <1>4, NamedChoice

-----------------------------------------------------------------------------
(* Rows *)

\* g says of other lines than k what f says, and something of k.
GrowsBy(f, g, k) == DOMAIN g = DOMAIN f \cup {k} /\ \A x \in DOMAIN f : x # k => g[x] = f[x]

\* g is f with what l says of line k merged into it.
Merges(f, g, k, l) ==
  /\ GrowsBy(f, g, k) /\ Tagged(k, g[k]) /\ Judged(g)
  /\ k \in DOMAIN f => g[k].type = C!MergeLineType(f[k].type, l.type)
  /\ k \notin DOMAIN f => g[k].type = l.type

LEMMA Either ==
  ASSUME NEW a \in BOOLEAN, NEW b, b = a
  PROVE  (b \/ a) \in BOOLEAN /\ (b \/ a) = a
OBVIOUS

LEMMA MergedFacts ==
  ASSUME NEW f, NEW k, NEW l, Judged(f), Tagged(k, l)
  PROVE  Merges(f, C!Merged(f, k, l), k, l)
<1> DEFINE v == IF k \in DOMAIN f THEN [type |-> C!MergeLineType(f[k].type, l.type), diff |-> f[k].diff \/ l.diff] ELSE l
           g == C!Put(f, k, v)
<1>1. C!Merged(f, k, l) = g
  BY Zenon DEF C!Merged
<1>2. Tagged(k, v)
  <2>1. CASE k \in DOMAIN f
    <3>1. f[k] \in LineInfo /\ f[k].diff = (k \in Changed) /\ l \in LineInfo /\ l.diff = (k \in Changed)
      BY <2>1 DEF Judged, Tagged
    <3>2. f[k].type \in C!Types /\ l.type \in C!Types /\ f[k].diff \in BOOLEAN /\ l.diff \in BOOLEAN
      BY <3>1 DEF LineInfo
    <3>3. C!MergeLineType(f[k].type, l.type) \in C!Types
      BY <3>2, MergedType
    <3>4. (f[k].diff \/ l.diff) \in BOOLEAN /\ (f[k].diff \/ l.diff) = (k \in Changed)
      BY <3>1, <3>2, Either, Zenon
    <3>5. v = [type |-> C!MergeLineType(f[k].type, l.type), diff |-> f[k].diff \/ l.diff]
      BY <2>1
    <3> DEFINE d == f[k].diff \/ l.diff
               t == C!MergeLineType(f[k].type, l.type)
    <3>6. v = [type |-> t, diff |-> d] /\ t \in C!Types /\ d \in BOOLEAN /\ d = (k \in Changed)
      BY <3>3, <3>4, <3>5, Zenon
    <3> HIDE DEF d, t, v
    <3> QED BY <3>6 DEF LineInfo, Tagged
  <2>2. CASE k \notin DOMAIN f
    BY <2>2
  <2> QED BY <2>1, <2>2
<1>3. /\ k \in DOMAIN f => v.type = C!MergeLineType(f[k].type, l.type)
      /\ k \notin DOMAIN f => v.type = l.type
  OBVIOUS
<1> HIDE DEF v
<1>4. DOMAIN g = DOMAIN f \cup {k} /\ g[k] = v /\ \A x \in DOMAIN f : x # k => g[x] = f[x]
  BY DEF C!Put
<1> HIDE DEF g
<1>5. Judged(g)
  BY <1>2, <1>4 DEF Judged
<1>6. GrowsBy(f, g, k)
  BY <1>4 DEF GrowsBy
<1> QED BY <1>1, <1>2, <1>3, <1>4, <1>5, <1>6 DEF Merges

-----------------------------------------------------------------------------
(* Counts *)

LEMMA AdjustFacts ==
  ASSUME NEW s \in [Counters -> Int], NEW l \in LineInfo, NEW d \in Int
  PROVE  /\ C!AdjustLineCounts(s, l, d) \in [Counters -> Int]
         /\ \A t \in C!Types :
              /\ C!AdjustLineCounts(s, l, d)[t] = IF t = l.type THEN s[t] + d ELSE s[t]
              /\ C!AdjustLineCounts(s, l, d)[C!PatchCounter[t]] =
                   IF t = l.type /\ l.diff THEN s[C!PatchCounter[t]] + d ELSE s[C!PatchCounter[t]]
<1>1. l.type \in C!Types /\ l.diff \in BOOLEAN
  BY DEF LineInfo
<1>2. CASE l.type = "hit"
  BY <1>1, <1>2 DEF C!AdjustLineCounts, C!PatchCounter, Counters, C!Types
<1>3. CASE l.type = "partial"
  BY <1>1, <1>3 DEF C!AdjustLineCounts, C!PatchCounter, Counters, C!Types
<1>4. CASE l.type = "miss"
  BY <1>1, <1>4 DEF C!AdjustLineCounts, C!PatchCounter, Counters, C!Types
<1> QED BY <1>1, <1>2, <1>3, <1>4 DEF C!Types

\* The sets that are counted lose and gain a line.
LEMMA CountsAdd ==
  ASSUME NEW f, NEW g, NEW p, NEW k, NEW s, IsFiniteSet(DOMAIN f), k \notin DOMAIN f, k[1] = p,
         DOMAIN g = DOMAIN f \cup {k}, \A x \in DOMAIN f : g[x] = f[x], g[k] \in LineInfo,
         Counts(s, f, p)
  PROVE  Counts(C!AdjustLineCounts(s, g[k], 1), g, p)
<1> DEFINE u == C!AdjustLineCounts(s, g[k], 1)
<1>1. s \in [Counters -> Int]
  BY DEF Counts
<1>2. /\ u \in [Counters -> Int]
      /\ \A t \in C!Types : /\ u[t] = IF t = g[k].type THEN s[t] + 1 ELSE s[t]
                          /\ u[C!PatchCounter[t]] = IF t = g[k].type /\ g[k].diff THEN s[C!PatchCounter[t]] + 1 ELSE s[C!PatchCounter[t]]
  BY <1>1, AdjustFacts
<1> HIDE DEF u
<1>3. ASSUME NEW t \in C!Types
      PROVE  u[t] = Cardinality(Of(g, p, t)) /\ u[C!PatchCounter[t]] = Cardinality(OfDiff(g, p, t))
  <2>1. IsFiniteSet(Of(f, p, t)) /\ IsFiniteSet(OfDiff(f, p, t))
    <3>1. Of(f, p, t) \in SUBSET DOMAIN f /\ OfDiff(f, p, t) \in SUBSET DOMAIN f
      BY DEF Of, OfDiff
    <3> QED BY <3>1, FS_Subset
  <2>2. s[t] = Cardinality(Of(f, p, t)) /\ s[C!PatchCounter[t]] = Cardinality(OfDiff(f, p, t))
    BY DEF Counts
  <2>3. Of(g, p, t) = IF t = g[k].type THEN Of(f, p, t) \cup {k} ELSE Of(f, p, t)
    BY DEF Of
  <2>4. OfDiff(g, p, t) = IF t = g[k].type /\ g[k].diff THEN OfDiff(f, p, t) \cup {k} ELSE OfDiff(f, p, t)
    BY DEF Of, OfDiff
  <2>5. k \notin Of(f, p, t) /\ k \notin OfDiff(f, p, t)
    BY DEF Of, OfDiff
  <2>6. /\ Cardinality(Of(f, p, t) \cup {k}) = Cardinality(Of(f, p, t)) + 1
        /\ Cardinality(OfDiff(f, p, t) \cup {k}) = Cardinality(OfDiff(f, p, t)) + 1
    BY <2>1, <2>5, FS_AddElement
  <2> QED BY <1>2, <2>2, <2>3, <2>4, <2>6
<1> QED BY <1>2, <1>3 DEF Counts, u

LEMMA CountsTake ==
  ASSUME NEW f, NEW g, NEW p, NEW k, NEW s, IsFiniteSet(DOMAIN f), k \in DOMAIN f, k[1] = p,
         DOMAIN g = DOMAIN f \ {k}, \A x \in DOMAIN g : g[x] = f[x], f[k] \in LineInfo,
         Counts(s, f, p)
  PROVE  Counts(C!AdjustLineCounts(s, f[k], -1), g, p)
<1> DEFINE u == C!AdjustLineCounts(s, f[k], -1)
<1>1. s \in [Counters -> Int]
  BY DEF Counts
<1>2. /\ u \in [Counters -> Int]
      /\ \A t \in C!Types : /\ u[t] = IF t = f[k].type THEN s[t] + (-1) ELSE s[t]
                          /\ u[C!PatchCounter[t]] = IF t = f[k].type /\ f[k].diff THEN s[C!PatchCounter[t]] + (-1) ELSE s[C!PatchCounter[t]]
  <2>1. -1 \in Int
    OBVIOUS
  <2> QED BY <1>1, <2>1, AdjustFacts
<1> HIDE DEF u
<1>3. ASSUME NEW t \in C!Types
      PROVE  u[t] = Cardinality(Of(g, p, t)) /\ u[C!PatchCounter[t]] = Cardinality(OfDiff(g, p, t))
  <2>1. IsFiniteSet(Of(f, p, t)) /\ IsFiniteSet(OfDiff(f, p, t))
    <3>1. Of(f, p, t) \in SUBSET DOMAIN f /\ OfDiff(f, p, t) \in SUBSET DOMAIN f
      BY DEF Of, OfDiff
    <3> QED BY <3>1, FS_Subset
  <2>0. Cardinality(Of(f, p, t)) \in Nat /\ Cardinality(OfDiff(f, p, t)) \in Nat
    BY <2>1, FS_CardinalityType
  <2>2. s[t] = Cardinality(Of(f, p, t)) /\ s[C!PatchCounter[t]] = Cardinality(OfDiff(f, p, t))
    BY DEF Counts
  <2>3. Of(g, p, t) = IF t = f[k].type THEN Of(f, p, t) \ {k} ELSE Of(f, p, t)
    BY DEF Of
  <2>4. OfDiff(g, p, t) = IF t = f[k].type /\ f[k].diff THEN OfDiff(f, p, t) \ {k} ELSE OfDiff(f, p, t)
    BY DEF Of, OfDiff
  <2>5. (t = f[k].type => k \in Of(f, p, t)) /\ (t = f[k].type /\ f[k].diff => k \in OfDiff(f, p, t))
    BY DEF Of, OfDiff
  <2>6. /\ k \in Of(f, p, t) => Cardinality(Of(f, p, t) \ {k}) = Cardinality(Of(f, p, t)) - 1
        /\ k \in OfDiff(f, p, t) => Cardinality(OfDiff(f, p, t) \ {k}) = Cardinality(OfDiff(f, p, t)) - 1
    BY <2>1, FS_RemoveElement
  <2> QED BY <1>2, <2>0, <2>2, <2>3, <2>4, <2>5, <2>6
<1> QED BY <1>2, <1>3 DEF Counts, u

\* The counts of other files stay.
LEMMA CountsElse ==
  ASSUME NEW f, NEW g, NEW p, NEW k, NEW s, k[1] # p, GrowsBy(f, g, k), Counts(s, f, p)
  PROVE  Counts(s, g, p)
<1>1. ASSUME NEW t \in C!Types
      PROVE  Of(g, p, t) = Of(f, p, t) /\ OfDiff(g, p, t) = OfDiff(f, p, t)
  BY DEF Of, OfDiff, GrowsBy
<1> QED BY <1>1 DEF Counts

\* A file that is not known has no counts.
LEMMA CountsNone ==
  ASSUME NEW f, NEW p, \A k \in DOMAIN f : k[1] # p
  PROVE  Counts(C!Zero, f, p)
<1>1. ASSUME NEW t \in C!Types
      PROVE  Of(f, p, t) = {} /\ OfDiff(f, p, t) = {}
  BY DEF Of, OfDiff
<1>2. C!Zero \in [Counters -> Int] /\ \A t \in C!Types : C!Zero[t] = 0 /\ C!Zero[C!PatchCounter[t]] = 0
  BY DEF C!Zero, Counters, C!Types, C!PatchCounter
<1> QED BY <1>1, <1>2, FS_EmptySet DEF Counts

\* A line of the analysis keeps the counts those of the lines.
LEMMA CountedStep ==
  ASSUME NEW k, NEW l, Tagged(k, l), Judged(lines), Counted, C!Accumulate(k, l),
         seen \in Nat, seen' = seen + 1
  PROVE  Counted'
<1> DEFINE s == IF k[1] \in DOMAIN stats THEN stats[k[1]] ELSE C!Zero
           g == C!Merged(lines, k, l)
           h == [x \in DOMAIN lines \ {k} |-> lines[x]]
           v == IF k \in DOMAIN lines THEN C!AdjustLineCounts(C!AdjustLineCounts(s, lines[k], -1), g[k], 1) ELSE C!AdjustLineCounts(s, l, 1)
<1>1. lines' = g /\ stats' = C!Put(stats, k[1], v)
  BY Zenon DEF C!Accumulate
<1>2. /\ DOMAIN g = DOMAIN lines \cup {k} /\ \A x \in DOMAIN lines : x # k => g[x] = lines[x]
      /\ g[k] \in LineInfo
  <2>1. Merges(lines, g, k, l)
    BY MergedFacts
  <2> HIDE DEF g
  <2> QED BY <2>1 DEF Merges, Tagged, GrowsBy
<1>3. k \notin DOMAIN lines => g[k] = l
  BY DEF C!Merged, C!Put
<1> HIDE DEF g
<1>4. Counts(s, lines, k[1])
  <2>1. CASE k[1] \in DOMAIN stats
    BY <2>1 DEF Counted
  <2>2. CASE k[1] \notin DOMAIN stats
    <3>1. \A x \in DOMAIN lines : x[1] # k[1]
      BY <2>2 DEF Counted
    <3> QED BY <2>2, <3>1, CountsNone
  <2> QED BY <2>1, <2>2
<1> HIDE DEF s
<1>5. IsFiniteSet(DOMAIN lines) /\ IsFiniteSet(DOMAIN lines \ {k})
  BY FS_RemoveElement DEF Counted
<1>6. Counts(v, g, k[1])
  <2>1. CASE k \in DOMAIN lines
    <3>1. DOMAIN h = DOMAIN lines \ {k} /\ (\A x \in DOMAIN h : h[x] = lines[x]) /\ lines[k] \in LineInfo
      BY <2>1 DEF Judged, Tagged
    <3>2. /\ k \notin DOMAIN h /\ DOMAIN g = DOMAIN h \cup {k} /\ \A x \in DOMAIN h : g[x] = h[x]
      BY <1>2, <2>1, <3>1
    <3> HIDE DEF h
    <3> DEFINE w == C!AdjustLineCounts(s, lines[k], -1)
    <3>3. Counts(w, h, k[1])
      BY <1>4, <1>5, <2>1, <3>1, CountsTake
    <3> HIDE DEF w
    <3>4. IsFiniteSet(DOMAIN h)
      BY <1>5, <3>1
    <3>5. Counts(C!AdjustLineCounts(w, g[k], 1), g, k[1])
      BY <1>2, <3>2, <3>3, <3>4, CountsAdd
    <3> QED BY <2>1, <3>5 DEF w
  <2>2. CASE k \notin DOMAIN lines
    <3>1. \A x \in DOMAIN lines : g[x] = lines[x]
      BY <1>2, <2>2
    <3>2. Counts(C!AdjustLineCounts(s, g[k], 1), g, k[1])
      BY <1>2, <1>4, <1>5, <2>2, <3>1, CountsAdd
    <3> QED BY <1>3, <2>2, <3>2
  <2> QED BY <2>1, <2>2
<1> HIDE DEF v
<1>7. DOMAIN stats' = DOMAIN stats \cup {k[1]} /\ stats'[k[1]] = v /\ \A p \in DOMAIN stats : p # k[1] => stats'[p] = stats[p]
  BY <1>1 DEF C!Put
<1>8. \A p \in DOMAIN stats' : Counts(stats'[p], g, p)
  <2> SUFFICES ASSUME NEW p \in DOMAIN stats' PROVE Counts(stats'[p], g, p)
    OBVIOUS
  <2>1. CASE p = k[1]
    BY <1>6, <1>7, <2>1
  <2>2. CASE p # k[1]
    <3>1. p \in DOMAIN stats /\ stats'[p] = stats[p]
      BY <1>7, <2>2
    <3>2. Counts(stats[p], lines, p)
      BY <3>1 DEF Counted
    <3>3. Counts(stats[p], g, p)
      <4>1. GrowsBy(lines, g, k)
        BY <1>2 DEF GrowsBy
      <4>2. k[1] # p
        BY <2>2
      <4> QED BY <4>1, <4>2, <3>2, CountsElse, Zenon
    <3> QED BY <3>1, <3>3
  <2> QED BY <2>1, <2>2
<1>9. IsFiniteSet(DOMAIN g) /\ Cardinality(DOMAIN g) <= seen'
  <2>1. IsFiniteSet(DOMAIN lines) /\ Cardinality(DOMAIN lines) <= seen
    BY DEF Counted
  <2>2. Cardinality(DOMAIN lines) \in Nat
    BY <2>1, FS_CardinalityType
  <2>3. /\ IsFiniteSet(DOMAIN lines \cup {k})
        /\ Cardinality(DOMAIN lines \cup {k}) = IF k \in DOMAIN lines THEN Cardinality(DOMAIN lines) ELSE Cardinality(DOMAIN lines) + 1
    BY <2>1, FS_AddElement
  <2> QED BY <1>2, <2>1, <2>2, <2>3
<1>10. \A x \in DOMAIN g : x[1] \in DOMAIN stats'
  BY <1>2, <1>7 DEF Counted
<1> QED BY <1>1, <1>8, <1>9, <1>10 DEF Counted

-----------------------------------------------------------------------------
(* Agreement *)

\* One more report of a line: what the reports say together follows.
LEMMA JoinStep ==
  ASSUME NEW S \in SUBSET C!Types, NEW r \in C!Types, NEW l \in C!Types, NEW t \in C!Types, IsJoin(S \cup {r}, l)
  PROVE  IsJoin(S \cup {C!MergeLineType(r, t)}, C!MergeLineType(l, t))
<1> DEFINE m == C!MergeLineType(r, t)
           n == C!MergeLineType(l, t)
<1> SUFFICES IsJoin(S \cup {m}, n)
  OBVIOUS
<1>1. /\ m \in C!Types /\ n \in C!Types
      /\ (r = t => m = r) /\ (r # t => m = "partial") /\ (l = t => n = l) /\ (l # t => n = "partial")
  BY MergedType
<1> HIDE DEF m, n
<1>2. CASE S \cup {r} = {l}
  BY <1>1, <1>2 DEF IsJoin
<1>3. CASE l = "partial" /\ \E a, b \in S \cup {r} : a # b
  <2>1. n = "partial"
    BY <1>1, <1>3
  <2>2. CASE \E a, b \in S : a # b
    BY <2>1, <2>2 DEF IsJoin
  <2>3. CASE \A a, b \in S : a = b
    <3>1. PICK b \in S : S = {b} /\ b # r
      BY <1>3, <2>3
    <3>2. CASE m = b
      <4>1. m = "partial"
        BY <1>1, <3>1, <3>2
      <4> QED BY <2>1, <3>1, <3>2, <4>1 DEF IsJoin
    <3>3. CASE m # b
      BY <2>1, <3>1, <3>3 DEF IsJoin
    <3> QED BY <3>2, <3>3
  <2> QED BY <2>2, <2>3
<1> QED BY <1>2, <1>3 DEF IsJoin

\* And one that speaks first of it in this report.
LEMMA JoinNew ==
  ASSUME NEW S \in SUBSET C!Types, NEW l \in C!Types, NEW t \in C!Types, IsJoin(S, l)
  PROVE  IsJoin(S \cup {t}, C!MergeLineType(l, t))
<1> DEFINE n == C!MergeLineType(l, t)
<1> SUFFICES IsJoin(S \cup {t}, n)
  OBVIOUS
<1>1. n \in C!Types /\ (l = t => n = l) /\ (l # t => n = "partial")
  BY MergedType
<1> HIDE DEF n
<1>2. CASE S = {l}
  BY <1>1, <1>2 DEF IsJoin
<1>3. CASE l = "partial" /\ \E a, b \in S : a # b
  BY <1>1, <1>3 DEF IsJoin
<1> QED BY <1>2, <1>3 DEF IsJoin

\* What was sent are types.
LEMMA SentAreTypes ==
  ASSUME Shaped, NEW k
  PROVE  /\ SentTypes(k) \in SUBSET C!Types
         /\ k \in DOMAIN rows => rows[k].type \in C!Types
         /\ k \in DOMAIN lines => lines[k].type \in C!Types
<1>1. \A f \in sent \cup {rows, lines} : \A x \in DOMAIN f : f[x].type \in C!Types
  BY DEF Shaped, Judged, Tagged, LineInfo
<1>2. \A t \in SentTypes(k) : t \in C!Types
  BY <1>1, Zenon DEF SentTypes
<1> QED BY <1>1, <1>2

LEMMA InitCoverage == C!Init => CoverageInv
<1> SUFFICES ASSUME C!Init PROVE CoverageInv
  OBVIOUS
<1>1. rows = <<>> /\ lines = <<>> /\ stats = <<>> /\ sent = {} /\ seen = 0 /\ DOMAIN <<>> = {}
  BY DEF C!Init, C!none
<1>2. Shaped
  <2>1. Judged(<<>>) /\ Wanted(<<>>)
    BY <1>1 DEF Judged, Wanted
  <2>2. {patch, git, errors} \subseteq BOOLEAN /\ seen \in 0..MaxSeen /\ analysis \in {"open", "failed"}
    <3>1. patch \in BOOLEAN /\ git \in BOOLEAN /\ errors = FALSE /\ analysis = "open"
      BY DEF C!Init
    <3>2. 0 \in 0..MaxSeen
      BY CoverageAssumption
    <3> QED BY <1>1, <3>1, <3>2
  <2> QED BY <1>1, <2>1, <2>2 DEF Shaped
<1>3. Counted
  BY <1>1, FS_EmptySet DEF Counted
<1>4. Agreed
  BY <1>1 DEF Agreed, Reported
<1> QED BY <1>2, <1>3, <1>4 DEF CoverageInv

\* A line that is counted is of a file that was asked for.
LEMMA FileLine ==
  ASSUME CoverageInv, NEW k, NEW l, Tagged(k, l), k[1] \notin Excluded, patch => k[1] \in Tracked,
         seen < MaxSeen, seen' = seen + 1, C!WriteRow(k, l), C!Accumulate(k, l),
         UNCHANGED <<patch, git, sent, errors, analysis>>
  PROVE  CoverageInv'
<1> DEFINE g == C!Merged(lines, k, l)
           r == C!Merged(rows, k, l)
<1>0. Shaped /\ Counted /\ Agreed /\ seen \in Nat
  BY DEF CoverageInv, Shaped
<1>1. Judged(lines) /\ Judged(rows)
  BY <1>0 DEF Shaped
<1>2. /\ lines' = g /\ GrowsBy(lines, g, k) /\ Judged(g) /\ Tagged(k, g[k])
      /\ k \in DOMAIN lines => g[k].type = C!MergeLineType(lines[k].type, l.type)
      /\ k \notin DOMAIN lines => g[k].type = l.type
  <2>1. lines' = g
    BY Zenon DEF C!Accumulate
  <2>2. Merges(lines, g, k, l)
    BY <1>1, MergedFacts
  <2> HIDE DEF g
  <2> QED BY <2>1, <2>2, Zenon DEF Merges
<1>3. /\ GrowsBy(rows, r, k) /\ Judged(r)
      /\ k \in DOMAIN rows => r[k].type = C!MergeLineType(rows[k].type, l.type)
      /\ k \notin DOMAIN rows => r[k].type = l.type
  <2>1. Merges(rows, r, k, l)
    BY <1>1, MergedFacts
  <2> HIDE DEF r
  <2> QED BY <2>1, Zenon DEF Merges
<1>4. rows' = IF patch /\ ~l.diff THEN rows ELSE r
  BY DEF C!WriteRow
<1>5. l.diff = (k \in Changed) /\ l.type \in C!Types
  BY DEF Tagged, LineInfo
<1> HIDE DEF g, r
<1>6. Counted'
  BY <1>0, <1>1, CountedStep
<1>7. Shaped'
  <2>1. Wanted(rows)
    BY <1>0 DEF Shaped
  <2>2. Judged(rows')
    BY <1>1, <1>3, <1>4
  <2>3. \A x \in DOMAIN rows' : x[1] \notin Excluded /\ (patch => x[1] \in Tracked /\ x \in Changed)
    BY <1>3, <1>4, <1>5, <2>1 DEF Wanted, GrowsBy
  <2>5. \A f \in sent : Judged(f) /\ Wanted(f)
    BY <1>0 DEF Shaped
  <2>6. \A f \in sent' \cup {rows'} : Judged(f) /\ \A x \in DOMAIN f : x[1] \notin Excluded /\ (patch' => x[1] \in Tracked /\ x \in Changed)
    BY <2>2, <2>3, <2>5 DEF Wanted
  <2>7. {patch', git', errors'} \subseteq BOOLEAN /\ seen' \in 0..MaxSeen /\ analysis' \in {"open", "failed"}
    BY <1>0, CoverageAssumption DEF Shaped
  <2> QED BY <1>2, <2>6, <2>7 DEF Shaped, Wanted
<1>8. Agreed'
  <2> SUFFICES ASSUME analysis = "open"
               PROVE  /\ \A x : x \in Reported' <=> (x \in DOMAIN rows' \/ \E f \in sent : x \in DOMAIN f)
                      /\ \A x \in Reported' : IsJoin(SentTypes(x)' \cup RowType(x)', lines'[x].type)
    BY Zenon DEF Agreed
  <2>1. /\ \A x : x \in Reported <=> (x \in DOMAIN rows \/ \E f \in sent : x \in DOMAIN f)
        /\ \A x \in Reported : IsJoin(SentTypes(x) \cup RowType(x), lines[x].type)
    BY <1>0, Zenon DEF Agreed
  <2>2. DOMAIN lines' = DOMAIN lines \cup {k} /\ \A x \in DOMAIN lines : x # k => lines'[x] = lines[x]
    BY <1>2 DEF GrowsBy
  <2>3. \A x : x \in Reported' <=> x \in Reported \/ (x = k /\ (patch => k \in Changed))
    BY <2>2 DEF Reported
  <2>4. /\ DOMAIN rows' = IF patch /\ k \notin Changed THEN DOMAIN rows ELSE DOMAIN rows \cup {k}
        /\ \A x \in DOMAIN rows : x # k => rows'[x] = rows[x]
    BY <1>3, <1>4, <1>5 DEF GrowsBy
  <2>5. \A x : x \in Reported' <=> (x \in DOMAIN rows' \/ \E f \in sent : x \in DOMAIN f)
    BY <2>1, <2>3, <2>4
  <2>6. ASSUME NEW x \in Reported'
        PROVE  IsJoin(SentTypes(x)' \cup RowType(x)', lines'[x].type)
    <3>1. SentTypes(x)' = SentTypes(x)
      BY Zenon DEF SentTypes
    <3>2. CASE x # k
      <4>1. x \in Reported /\ x \in DOMAIN lines
        BY <2>3, <3>2 DEF Reported
      <4>2. lines'[x] = lines[x] /\ RowType(x)' = RowType(x)
        BY <2>2, <2>4, <3>2, <4>1 DEF RowType
      <4> QED BY <2>1, <3>1, <4>1, <4>2
    <3>3. CASE x = k
      <4>1. patch => k \in Changed
        BY <2>3, <3>3 DEF Reported
      <4>2. rows' = r
        BY <1>4, <1>5, <4>1
      <4>3. RowType(k)' = {r[k].type}
        BY <1>3, <4>2 DEF RowType, GrowsBy
      <4>4. CASE k \notin DOMAIN lines
        <5>1. k \notin DOMAIN rows /\ \A f \in sent : k \notin DOMAIN f
          BY <2>1, <4>4 DEF Reported
        <5>2. SentTypes(k) = {}
          BY <5>1 DEF SentTypes
        <5>3. r[k].type = l.type /\ lines'[k].type = l.type
          BY <1>2, <1>3, <4>4, <5>1
        <5> QED BY <3>1, <3>3, <4>3, <5>2, <5>3 DEF IsJoin
      <4>5. CASE k \in DOMAIN lines
        <5>1. k \in Reported
          BY <4>1, <4>5 DEF Reported
        <5>2. lines'[k].type = C!MergeLineType(lines[k].type, l.type)
          BY <1>2, <4>5
        <5>3. /\ SentTypes(k) \in SUBSET C!Types /\ lines[k].type \in C!Types
              /\ k \in DOMAIN rows => rows[k].type \in C!Types
          BY <1>0, <4>5, SentAreTypes
        <5>4. CASE k \in DOMAIN rows
          <6>1. RowType(k) = {rows[k].type} /\ r[k].type = C!MergeLineType(rows[k].type, l.type)
            BY <1>3, <5>4 DEF RowType
          <6>2. IsJoin(SentTypes(k) \cup {rows[k].type}, lines[k].type)
            BY <2>1, <5>1, <6>1
          <6>3. IsJoin(SentTypes(k) \cup {r[k].type}, lines'[k].type)
            BY <1>5, <5>2, <5>3, <5>4, <6>1, <6>2, JoinStep
          <6> QED BY <3>1, <3>3, <4>3, <6>3
        <5>5. CASE k \notin DOMAIN rows
          <6>1. RowType(k) = {} /\ r[k].type = l.type
            BY <1>3, <5>5 DEF RowType
          <6>2. IsJoin(SentTypes(k), lines[k].type)
            BY <2>1, <5>1, <6>1
          <6>3. IsJoin(SentTypes(k) \cup {r[k].type}, lines'[k].type)
            BY <1>5, <5>2, <5>3, <6>1, <6>2, JoinNew
          <6> QED BY <3>1, <3>3, <4>3, <6>3
        <5> QED BY <5>4, <5>5
      <4> QED BY <4>4, <4>5
    <3> QED BY <3>2, <3>3
  <2> QED BY <2>5, <2>6
<1> QED BY <1>6, <1>7, <1>8 DEF CoverageInv

LEMMA LineStep ==
  ASSUME CoverageInv, NEW o \in Observations, C!ReadLine(o)
  PROVE  CoverageInv'
<1> DEFINE choice == C!Select(o)
           k == <<choice.path, o.line>>
           l == [type |-> C!LineType(o), diff |-> k \in Changed]
<1>1. seen < MaxSeen /\ seen' = seen + 1 /\ UNCHANGED <<patch, git, sent, analysis>>
  BY DEF C!ReadLine
<1>2. \/ choice.kind = "file" /\ C!WriteRow(k, l) /\ C!Accumulate(k, l) /\ UNCHANGED errors
      \/ errors' = (errors \/ choice.kind = "error") /\ UNCHANGED <<rows, lines, stats>>
  BY Zenon DEF C!ReadLine
<1>3. Tagged(k, l)
  BY LineTypes DEF Tagged, LineInfo
<1>4. choice.kind = "file" => k[1] \notin Excluded /\ (patch => k[1] \in Tracked)
  BY Selected DEF Good
<1> HIDE DEF k, l, choice
<1>5. CASE choice.kind = "file" /\ C!WriteRow(k, l) /\ C!Accumulate(k, l) /\ UNCHANGED errors
  <2>1. UNCHANGED <<patch, git, sent, errors, analysis>>
    BY <1>1, <1>5
  <2> QED BY <1>1, <1>3, <1>4, <1>5, <2>1, FileLine
<1>6. CASE errors' = (errors \/ choice.kind = "error") /\ UNCHANGED <<rows, lines, stats>>
  <2>0. Shaped /\ Counted /\ Agreed /\ seen \in Nat
    BY DEF CoverageInv, Shaped
  <2>1. errors' \in BOOLEAN
    BY <1>6
  <2>2. Shaped'
    <3>1. {patch', git', errors'} \subseteq BOOLEAN /\ seen' \in 0..MaxSeen /\ analysis' \in {"open", "failed"}
      BY <1>1, <2>0, <2>1, CoverageAssumption DEF Shaped
    <3> QED BY <1>1, <1>6, <2>0, <3>1 DEF Shaped, Wanted
  <2>3. Counted'
    <3>1. Cardinality(DOMAIN lines) \in Nat
      BY <2>0, FS_CardinalityType DEF Counted
    <3> QED BY <1>1, <1>6, <2>0, <3>1 DEF Counted
  <2>4. Agreed'
    BY <1>1, <1>6, <2>0, Zenon DEF Agreed, Reported, SentTypes, RowType
  <2> QED BY <2>2, <2>3, <2>4 DEF CoverageInv
<1> QED BY <1>2, <1>5, <1>6

\* The rows of a report move to those that were sent, unless it is the last one.
LEMMA EndStep ==
  ASSUME CoverageInv, C!EndReport
  PROVE  CoverageInv'
<1>0. Shaped /\ Counted /\ Agreed
  BY DEF CoverageInv
<1>1. rows' = <<>> /\ DOMAIN rows' = {} /\ errors' = FALSE /\ UNCHANGED <<patch, git, lines, stats, seen>>
  BY DEF C!EndReport, C!none
<1>2. sent' \subseteq sent \cup {rows} /\ analysis' \in {"open", "failed"}
      /\ (analysis' = "open" => analysis = "open" /\ sent' = sent \cup {rows})
  BY DEF C!EndReport
<1>3. Shaped'
  <2>1. \A f \in sent' \cup {rows'} : Judged(f) /\ Wanted(f)
    BY <1>0, <1>1, <1>2 DEF Shaped, Judged, Wanted
  <2>2. {patch', git', errors'} \subseteq BOOLEAN /\ seen' \in 0..MaxSeen
    BY <1>0, <1>1 DEF Shaped
  <2> QED BY <1>0, <1>1, <1>2, <2>1, <2>2 DEF Shaped, Wanted
<1>4. Counted'
  BY <1>0, <1>1 DEF Counted
<1>5. Agreed'
  <2> SUFFICES ASSUME analysis' = "open"
               PROVE  /\ \A x : x \in Reported' <=> (x \in DOMAIN rows' \/ \E f \in sent' : x \in DOMAIN f)
                      /\ \A x \in Reported' : IsJoin(SentTypes(x)' \cup RowType(x)', lines'[x].type)
    BY Zenon DEF Agreed
  <2>0. sent' = sent \cup {rows} /\ analysis = "open"
    BY <1>2
  <2>1. /\ \A x : x \in Reported <=> (x \in DOMAIN rows \/ \E f \in sent : x \in DOMAIN f)
        /\ \A x \in Reported : IsJoin(SentTypes(x) \cup RowType(x), lines[x].type)
    BY <1>0, <2>0, Zenon DEF Agreed
  <2>2. Reported' = Reported
    BY <1>1 DEF Reported
  <2>3. \A x : x \in Reported' <=> (x \in DOMAIN rows' \/ \E f \in sent' : x \in DOMAIN f)
    BY <1>1, <2>0, <2>1, <2>2
  <2>4. ASSUME NEW x PROVE SentTypes(x)' \cup RowType(x)' = SentTypes(x) \cup RowType(x)
    <3>1. RowType(x)' = {}
      BY <1>1 DEF RowType
    <3>2. \A t : t \in SentTypes(x)' <=> \E f \in sent \cup {rows} : x \in DOMAIN f /\ t = f[x].type
      BY <2>0 DEF SentTypes
    <3>3. \A t : t \in SentTypes(x) <=> \E f \in sent : x \in DOMAIN f /\ t = f[x].type
      BY DEF SentTypes
    <3>4. \A t : t \in RowType(x) <=> x \in DOMAIN rows /\ t = rows[x].type
      BY DEF RowType
    <3> QED BY <3>1, <3>2, <3>3, <3>4
  <2> QED BY <1>1, <2>1, <2>2, <2>3, <2>4
<1> QED BY <1>3, <1>4, <1>5 DEF CoverageInv

LEMMA NextCoverage == CoverageInv /\ [C!Next]_(C!vars) => CoverageInv'
<1> SUFFICES ASSUME CoverageInv, [C!Next]_(C!vars) PROVE CoverageInv'
  OBVIOUS
<1>1. CASE UNCHANGED C!vars
  <2>1. UNCHANGED <<patch, git, rows, errors, sent, lines, stats, analysis, seen>>
    BY <1>1 DEF C!vars
  <2>2. Shaped' /\ Counted'
    BY <2>1 DEF CoverageInv, Shaped, Counted, Wanted
  <2>3. Agreed'
    BY <2>1, Zenon DEF CoverageInv, Agreed, Reported, SentTypes, RowType
  <2> QED BY <2>2, <2>3 DEF CoverageInv
<1> QED BY <1>1, LineStep, EndStep DEF C!Next

\* What the invariant says of a state.
LEMMA CoverageHolds ==
  ASSUME CoverageInv
  PROVE  C!TypeOK /\ C!CountsMatchLines /\ C!UploadAgreesWithAnalysis /\ C!RowsBelong
<1>0. Shaped /\ Counted /\ Agreed
  BY DEF CoverageInv
<1>1. C!RowsBelong
  BY <1>0 DEF Shaped, Wanted, C!RowsBelong
<1>2. ASSUME NEW p \in DOMAIN stats, NEW t \in C!Types
      PROVE  /\ stats[p][t] = Cardinality(Of(lines, p, t)) /\ stats[p][C!PatchCounter[t]] = Cardinality(OfDiff(lines, p, t))
             /\ stats[p][t] \in 0..MaxSeen /\ stats[p][C!PatchCounter[t]] \in 0..MaxSeen
  <2>1. stats[p][t] = Cardinality(Of(lines, p, t)) /\ stats[p][C!PatchCounter[t]] = Cardinality(OfDiff(lines, p, t))
    BY <1>0 DEF Counted, Counts
  <2>2. Of(lines, p, t) \in SUBSET DOMAIN lines /\ OfDiff(lines, p, t) \in SUBSET DOMAIN lines
    BY DEF Of, OfDiff
  <2>3. IsFiniteSet(DOMAIN lines) /\ Cardinality(DOMAIN lines) <= seen
    BY <1>0 DEF Counted
  <2>4. /\ Cardinality(Of(lines, p, t)) <= Cardinality(DOMAIN lines) /\ IsFiniteSet(Of(lines, p, t))
        /\ Cardinality(OfDiff(lines, p, t)) <= Cardinality(DOMAIN lines) /\ IsFiniteSet(OfDiff(lines, p, t))
    BY <2>2, <2>3, FS_Subset
  <2>5. /\ Cardinality(Of(lines, p, t)) \in Nat /\ Cardinality(OfDiff(lines, p, t)) \in Nat
        /\ Cardinality(DOMAIN lines) \in Nat
    BY <2>3, <2>4, FS_CardinalityType
  <2>6. seen \in 0..MaxSeen /\ MaxSeen \in Nat
    BY <1>0, CoverageAssumption DEF Shaped
  <2> QED BY <2>1, <2>3, <2>4, <2>5, <2>6
<1>3. C!CountsMatchLines
  <2> SUFFICES ASSUME NEW p \in DOMAIN stats, NEW t \in C!Types
               PROVE  LET counted == {k \in DOMAIN lines : k[1] = p /\ lines[k].type = t}
                      IN /\ stats[p][t] = Cardinality(counted)
                         /\ stats[p][C!PatchCounter[t]] = Cardinality({k \in counted : lines[k].diff})
    BY Counting, Zenon DEF C!CountsMatchLines
  <2> QED BY <1>2, Zenon DEF Of, OfDiff
<1>4. C!TypeOK
  <2>1. ASSUME NEW p \in DOMAIN stats, NEW c \in DOMAIN C!Zero PROVE stats[p][c] \in 0..MaxSeen
    <3>1. PICK t \in C!Types : c = t \/ c = C!PatchCounter[t]
      BY DEF C!Zero, C!Types, C!PatchCounter
    <3> QED BY <1>2, <3>1
  <2>2. \A f \in sent \cup {rows, lines} : \A k \in DOMAIN f : f[k].type \in C!Types /\ f[k].diff \in BOOLEAN
    BY <1>0 DEF Shaped, Judged, Tagged, LineInfo
  <2>3. {patch, git, errors} \subseteq BOOLEAN /\ seen \in 0..MaxSeen /\ analysis \in {"open", "failed"}
    BY <1>0 DEF Shaped
  <2> QED BY <2>1, <2>2, <2>3 DEF C!TypeOK
<1>5. C!UploadAgreesWithAnalysis
  <2> DEFINE all == sent \cup {rows}
             Said(k) == {f[k].type : f \in {g \in all : k \in DOMAIN g}}
             reported == {k \in DOMAIN lines : patch => lines[k].diff}
  <2> SUFFICES ASSUME analysis = "open", ~errors
               PROVE  /\ UNION {DOMAIN f : f \in all} = reported
                      /\ \A k \in reported : lines[k].type = IF Cardinality(Said(k)) = 1 THEN CHOOSE t \in Said(k) : TRUE ELSE "partial"
    BY Counting, Zenon DEF C!UploadAgreesWithAnalysis
  <2>1. /\ \A k : k \in Reported <=> (k \in DOMAIN rows \/ \E f \in sent : k \in DOMAIN f)
        /\ \A k \in Reported : IsJoin(SentTypes(k) \cup RowType(k), lines[k].type)
    BY <1>0, Zenon DEF Agreed
  <2>2. reported = Reported
    <3>1. \A k \in DOMAIN lines : lines[k].diff = (k \in Changed)
      BY <1>0 DEF Shaped, Judged, Tagged
    <3> QED BY <3>1 DEF Reported
  <2>3. UNION {DOMAIN f : f \in all} = reported
    BY <2>1, <2>2
  <2>4. ASSUME NEW k \in reported
        PROVE  lines[k].type = IF Cardinality(Said(k)) = 1 THEN CHOOSE t \in Said(k) : TRUE ELSE "partial"
    <3>1. Said(k) = SentTypes(k) \cup RowType(k)
      <4>1. \A t : t \in Said(k) <=> \E f \in sent \cup {rows} : k \in DOMAIN f /\ t = f[k].type
        OBVIOUS
      <4>2. \A t : t \in SentTypes(k) <=> \E f \in sent : k \in DOMAIN f /\ t = f[k].type
        BY DEF SentTypes
      <4>3. \A t : t \in RowType(k) <=> k \in DOMAIN rows /\ t = rows[k].type
        BY DEF RowType
      <4> HIDE DEF Said
      <4> QED BY <4>1, <4>2, <4>3
    <3> HIDE DEF Said
    <3>2. IsJoin(Said(k), lines[k].type)
      BY <2>1, <2>2, <3>1
    <3>3. Said(k) \in SUBSET C!Types
      BY <1>0, <3>1, SentAreTypes DEF RowType
    <3>4. IsFiniteSet(Said(k))
      <4>1. IsFiniteSet({"hit"} \cup {"partial"} \cup {"miss"})
        BY FS_Singleton, FS_AddElement
      <4>2. C!Types = {"hit"} \cup {"partial"} \cup {"miss"}
        BY DEF C!Types
      <4> QED BY <3>3, <4>1, <4>2, FS_Subset
    <3>5. Cardinality(Said(k)) = 1 <=> \E x : Said(k) = {x}
      BY <3>4, FS_Singleton
    <3>6. CASE Said(k) = {lines[k].type}
      <4>1. Cardinality(Said(k)) = 1
        BY <3>5, <3>6
      <4>2. (CHOOSE t \in Said(k) : TRUE) \in Said(k)
        BY <3>6, Zenon
      <4> QED BY <3>6, <4>1, <4>2
    <3>7. CASE lines[k].type = "partial" /\ \E a, b \in Said(k) : a # b
      <4>1. ~ \E x : Said(k) = {x}
        BY <3>7
      <4> QED BY <3>5, <3>7, <4>1
    <3> QED BY <3>2, <3>6, <3>7 DEF IsJoin
  <2> HIDE DEF Said
  <2> QED BY <2>3, <2>4
<1> QED BY <1>1, <1>3, <1>4, <1>5

-----------------------------------------------------------------------------
(* The two checks *)

\* The one that does not run stays as it is.
LEMMA ChecksInvariant == ChecksSpec => [](ScanInv /\ CoverageInv)
<1>1. ChecksInit => ScanInv /\ CoverageInv
  BY InitScan, InitCoverage DEF ChecksInit
<1>2. ScanInv /\ CoverageInv /\ [ChecksNext]_<<covering, vars, coverageVars>> => ScanInv' /\ CoverageInv'
  <2> SUFFICES ASSUME ScanInv, CoverageInv, [ChecksNext]_<<covering, vars, coverageVars>>
               PROVE  ScanInv' /\ CoverageInv'
    OBVIOUS
  <2>1. [Next]_vars
    BY Zenon DEF ChecksNext
  <2>2. C!Next \/ UNCHANGED coverageVars
    BY Zenon DEF ChecksNext
  <2>3. [C!Next]_(C!vars)
    BY <2>2 DEF coverageVars, C!vars
  <2> QED BY <2>1, <2>3, NextScan, NextCoverage
<1> QED BY <1>1, <1>2, PTL DEF ChecksSpec

\* Counts, uploaded rows and the analysis say the same of every line, whatever the reports, their
\* order and their split, and speak only of files and lines that were asked for (coverage_analyze.go,
\* coverage_encode.go).
THEOREM CoverageAlwaysTrue == ChecksSpec => []CoverageIsTrue
<1>1. CoverageInv => CoverageIsTrue
  BY CoverageHolds DEF CoverageIsTrue
<1> QED BY <1>1, ChecksInvariant, PTL
=============================================================================
