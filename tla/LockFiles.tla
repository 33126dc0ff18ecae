------------------------------- MODULE LockFiles -------------------------------
(* What the firewall scan reads out of the lock files of the package managers: a
   list of dependencies, which the scan then sorts. A file is a sequence of
   entries; the parsers differ in what they pass over, in what tells two entries
   apart, and in which of those that are not told apart they see first: formats
   decoded into Go maps are seen in any order.

   An entry has a kind:
     "locked"  a name with its version        "loose"   a name without a version
     "link"    a workspace or a linked path   "other"   comments, options, URLs, sections of other uses
   and the section it stands in, "main" or what is read after it, "dev", where the format
   has sections. Parsers take entries by their positions. *)
EXTENDS Integers, FiniteSets

Entries(file, kinds) == {i \in DOMAIN file : file[i].kind \in kinds}
Locked(file) == Entries(file, {"locked"})
Named(file) == Entries(file, {"locked", "loose"})     \* the entries that name a dependency
OnlyIn(file, I, section) == {i \in I : file[i].section = section}

(* No version is "none" here; in some formats the code calls it "latest". *)
Dep(e) == [name |-> e.name, version |-> IF e.kind = "loose" THEN "none" ELSE e.version]

SameName(file, i, j) == file[i].name = file[j].name

(* The first entry of each name, line by line: what "seen" lets through. *)
FirstOfName(file, I) == {i \in I : \A j \in I : j < i => ~SameName(file, i, j)}

(* The same when range visits a Go map of these entries: any entry of each name may be the first. *)
AnyOfName(file, I) ==
  {J \in SUBSET I : /\ \A i \in I : \E j \in J : SameName(file, i, j)
                    /\ \A i, j \in J : SameName(file, i, j) => i = j}

(* A second list adds what the first has not named. *)
Unseen(file, I, J) == {j \in J : \A i \in I : ~SameName(file, i, j)}

InSection(file, section) == OnlyIn(file, Named(file), section)

(* package.json: four maps one after the other; a name of two sections counts in the first. *)
ParsePackageJSON(file) ==
  {I \cup J : I \in AnyOfName(file, InSection(file, "main")),
              J \in AnyOfName(file, Unseen(file, InSection(file, "main"), InSection(file, "dev")))}

(* package-lock.json: a map from paths; two paths may end in the same name with different versions. *)
ParsePackageLock(file) == AnyOfName(file, Locked(file))

(* pnpm-lock.yaml: a map from names with versions. *)
ParsePnpmLock(file) == AnyOfName(file, Named(file))

(* yarn.lock, requirements.txt, pyproject.toml, poetry.lock: line by line. A yarn entry counts at its version line. *)
ParseYarnLock(file) == {FirstOfName(file, Locked(file))}
ParseRequirementsTxt(file) == {FirstOfName(file, Named(file))}
ParsePyProjectToml(file) == {FirstOfName(file, Named(file))}
ParsePoetryLock(file) == {FirstOfName(file, Named(file))}

(* One list of lines after the other. *)
FirstOfBoth(file, I, J) == FirstOfName(file, I) \cup FirstOfName(file, Unseen(file, I, J))

(* build.gradle: one pattern after the other over the whole text; every pattern wants a version. *)
ParseBuildGradle(file) == {FirstOfBoth(file, OnlyIn(file, Locked(file), "main"), OnlyIn(file, Locked(file), "dev"))}

(* Pipfile.lock: the map of "default", then that of "develop". *)
ParsePipfileLock(file) == ParsePackageJSON(file)

(* pom.xml: dependencies, then dependencyManagement. *)
ParsePomXml(file) == {FirstOfBoth(file, InSection(file, "main"), InSection(file, "dev"))}

(* packages.lock.json: maps by framework. Entries of one name and version are one dependency. *)
NugetParseLockFile(file) == {Named(file)}

Parsers == {"package.json", "package-lock.json", "pnpm-lock.yaml", "yarn.lock", "requirements.txt", "pyproject.toml",
            "Pipfile.lock", "poetry.lock", "pom.xml", "build.gradle", "packages.lock.json"}

Taken(format, file) ==
  CASE format = "package.json" -> ParsePackageJSON(file)
    [] format = "package-lock.json" -> ParsePackageLock(file)
    [] format = "pnpm-lock.yaml" -> ParsePnpmLock(file)
    [] format = "yarn.lock" -> ParseYarnLock(file)
    [] format = "requirements.txt" -> ParseRequirementsTxt(file)
    [] format = "pyproject.toml" -> ParsePyProjectToml(file)
    [] format = "Pipfile.lock" -> ParsePipfileLock(file)
    [] format = "poetry.lock" -> ParsePoetryLock(file)
    [] format = "pom.xml" -> ParsePomXml(file)
    [] format = "build.gradle" -> ParseBuildGradle(file)
    [] format = "packages.lock.json" -> NugetParseLockFile(file)

ParseLockFile(format, file) == {{Dep(file[i]) : i \in I} : I \in Taken(format, file)}
=============================================================================
