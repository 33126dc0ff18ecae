----------------------------- MODULE MigrationJobs -----------------------------
(* harness execute registry_migration, one program for each type of package: how
   a source lists what it holds, and the steps of the jobs that copy it. The
   queue, the workers and the dry run are Migration's; here a job's steps count.

   The jobs get a context that --timeout does not reach. A copy that fails leaves
   a row, and failed rows end the run with 1; an error that only reaches the log
   of its engine is Lost: the run does not know of it. A job that panics ends as
   one that failed. *)
EXTENDS Steps

Lost(p) == Try(p, Partly)

Row(p) == Counted(p)

-----------------------------------------------------------------------------
(* The clients of the sources and of the target. Metadata is checked before it is sent; a body is piped to the
   request by a goroutine, whose error is the request's. *)

Download == GetFree
Upload(o) == SendFree(o)
UploadChecked(o) == Check \o Upload(o)
UploadTerraformFile == OneOf(<< Upload("module"), UploadChecked("provider"), Fail >>)
UploadPythonFile == Local \o Upload("file")
FileExists == GetFree
VersionExists == GetFree \o Local
RegistryOf == GetFree \o Check

-----------------------------------------------------------------------------
(* What a source holds. *)

SourceFiles == RegistryOf \o GetFree \o Local
Catalog == Loop(GetFree \o Local)
Tree == Local
GoTree == <<>>
ComposerTree == <<>>
TerraformTree == Local
CranTree == Local
CondaIndexes == Loop(Download \o Lost(Local))
IndexByTemp == Download \o WithTemp(Local)
PythonIndex == Local \o Download \o Local

(* Repositories within a registry: one whose index cannot be read is left out, with a warning in the log. *)
RpmIndexes == Loop(Lost(Download \o Local \o Download \o Local)) \o Opt(Fail)
DebianIndexes == Local \o Loop(Lost(Download \o Local \o Loop(Lost(Download \o Local))))

(* Charts that the index names besides those of the tree; an index that cannot be read is left out. *)
HelmHttpCharts == Local \o Lost(IndexByTemp)

NexusFiles == GetFree \o Check \o Loop(GetFree)
NexusComponents == Loop(GetFree)
GithubFiles == GetFree \o Loop(GetFree \o Check)
HarborRepositories == Check \o Loop(GetFree)

(* The files that the target has. When they cannot be listed each version is asked for instead; a version whose
   files cannot be listed is taken for one that has none. *)
IndexedVersion == Dropped(Loop(GetFree)) \o Loop(Dropped(GetFree))
ExistingIndex == Dropped(GetFree \o Loop(GetFree) \o Loop(IndexedVersion))
ExistingFiles == Dropped(GetFree)

-----------------------------------------------------------------------------
(* Types whose files are copied one by one, under their versions. *)

GenericFile == Lost(Download \o Row(Upload("file")))
TerraformFile == Lost(Download \o Row(UploadTerraformFile))
DartFile == Lost(Check \o Download \o Row(Upload("file")))
RawFile == Call(Dropped(FileExists \o Opt(Return)) \o GenericFile)

(* The metadata of a distribution is read from its archive, by its name a tarball or a wheel. *)
PythonMetadata == OneOf(<< Local, Local \o Local, <<>> >>) \o Local

(* The error of the download is overwritten by that of the temporary file, and the copy finds no body. *)
PythonFile ==
  Lost(Try(Download, WithTemp(Fail)) \o WithTemp(PythonMetadata \o Row(UploadPythonFile)))

NpmFile == Lost(Download \o Local \o Download \o Local \o Check \o Row(Upload("file")))

VersionOf(File) == Opt(ExistingFiles) \o Lost(Local \o Loop(File))
GoVersion == Lost(Local \o Loop(Download) \o Upload("version"))

(* The versions of a package: they are asked of the source, or read off the tree, and read off the tree when it
   cannot be asked; one without a node is left out. *)
GetVersions == Either(Try(GetFree, Local), Local)
Versions(Version) == Row(GetVersions \o Loop(Lost(Local) \o Version))

-----------------------------------------------------------------------------
(* Types that are copied as packages. *)

Skipped == Dropped(VersionExists)
OnePackage == Lost(Download \o Row(Upload("package")))
CondaPackage == OnePackage
RpmPackage == OnePackage
SwiftPackage == Lost(Download \o Row(UploadChecked("package")))
ComposerPackage == Row(GetVersions \o Check) \o Loop(Row(Download \o Upload("version")))

(* The chart becomes an image: its metadata are read from it, and versions that no tag can hold are refused. *)
PushChart == Local \o Local \o Check \o Local \o Upload("image")
LegacyChart == Skipped \o Lost(Download \o WithTemp(Local \o Row(PushChart)))

(* The signature is optional: that it cannot be had is no failure. *)
ProvenanceFile == Call(Try(Download \o Local, Return) \o Row(Upload("signature")))
HelmHttpChart == Skipped \o Row(Download \o Upload("chart") \o ProvenanceFile)

DebianPackage == Row(Download \o UploadChecked("deb") \o Loop(Row(Download \o UploadChecked("source"))))
ConanPackage == Lost(Local) \o Loop(Row(Download \o UploadChecked("file")))
CranPackage == Loop(Row(Check \o Dropped(FileExists) \o Download \o Upload("file")))

(* Images: a repository is copied at once and, when that fails, tag by tag; a tag whose manifest is gone from
   the source is skipped. *)
OciTag == GetFree \o Opt(Upload("tag"))
CopyTagsIndividually == GetFree \o Loop(Row(OciTag))
CopyRepository == Try(Upload("repository"), Tell \o CopyTagsIndividually)
OciSkips == GetFree \o Loop(Dropped(GetFree))
OciPackage == Row(Local \o Opt(OciSkips) \o Local \o Either(CopyTagsIndividually, CopyRepository))

-----------------------------------------------------------------------------
(* One registry: the target must exist, the source is listed, and every package is a job. *)

DateFilter == Opt(Check \o GetFree)
MigrateFrom(files, listing, job) ==
  Call(Local \o Check \o RegistryOf \o files \o DateFilter \o listing \o Opt(ExistingIndex)
       \o Local \o Loop(job) \o Tally)
Migrate(listing, job) == MigrateFrom(SourceFiles, listing, job)

MigrateGeneric == Migrate(Tree, Versions(VersionOf(GenericFile)))
MigrateRaw == Migrate(Tree, Versions(VersionOf(RawFile)))
MigrateTerraform == Migrate(TerraformTree, Versions(VersionOf(TerraformFile)))
MigrateDart == Migrate(Tree, Versions(VersionOf(DartFile)))
MigratePython == Migrate(PythonIndex, Versions(VersionOf(PythonFile)))
MigrateNpm == Migrate(Tree, Versions(VersionOf(NpmFile)))
MigrateGo == Migrate(GoTree, Versions(GoVersion))
MigrateConda == Migrate(CondaIndexes, CondaPackage)
MigrateRpm == Migrate(RpmIndexes, RpmPackage)
MigrateSwift == Migrate(Tree, SwiftPackage)
MigrateComposer == Migrate(ComposerTree, ComposerPackage)
MigrateLegacyHelm == Migrate(IndexByTemp, LegacyChart)
MigrateHelmHttp == Migrate(HelmHttpCharts, HelmHttpChart)
MigrateDebian == Migrate(DebianIndexes, DebianPackage)
MigrateConan == Migrate(Tree, ConanPackage)
MigrateCran == Migrate(CranTree, CranPackage)
MigrateOci == Migrate(Catalog, OciPackage)
MigrateFromNexus == MigrateFrom(NexusFiles, NexusComponents, Versions(VersionOf(GenericFile)))
MigrateFromGithub == MigrateFrom(GithubFiles, Tree, Versions(VersionOf(NpmFile)))
MigrateFromHarbor == MigrateFrom(<<>>, HarborRepositories, OciPackage)
=============================================================================
