---------------------------- MODULE PackageCommands ----------------------------
(* harness configure and harness execute of package managers (npm, mvn, pip,
   dotnet), and the firewall scan of one artifact. *)
EXTENDS Steps

(* A file of the user is written beside its place and renamed; a failure removes what was written. *)
AtomicWrite == WithTemp(Local \o RenameOver)
SavePkgmgrConfig == Dropped(Local \o AtomicWrite)

WriteNpmrc == Local \o AtomicWrite
WriteMavenSettings == Local \o AtomicWrite
WriteNugetConfig == Local \o AtomicWrite
WritePipConf == AtomicWrite
ConfigureNpm == Check \o WriteNpmrc \o SavePkgmgrConfig
ConfigureMaven == Local \o WriteMavenSettings \o SavePkgmgrConfig
ConfigureNuget == Local \o WriteNugetConfig \o SavePkgmgrConfig
ConfigurePip == Check \o WritePipConf \o SavePkgmgrConfig

(* The registry is looked up, and the native client runs. Only when it fails by the firewall are
   the dependencies found and evaluated; then the command fails all the same. *)
DetectRegistry == Check
RegistryDetails(request) == request \o Local
RunNative(then) == OneOf(<<Return, Fail, then>>)

(* What a client generates to find the dependencies is removed at the end. *)
NpmDependencies(p) == OneOf(<< p, WithTemp(Local \o p), Local \o p >>)
MavenDependencies(p) == Local \o p
PipDependencies(p) == OneOf(<< p, Check, WithTemp(Local \o p), Local \o p >>)
NugetDependencies(p) == Local \o p

SaveBuildInfo == Dropped(Local \o Overwrite)
InitiateAndPoll == SendFree("evaluation") \o Local \o Loop(GetFree) \o OneOf(<< <<>>, Fail >>)
RunBatch == Try(InitiateAndPoll, Try(InitiateAndPoll, InitiateAndPoll))
EvaluateBatches == Loop(RunBatch)
BulkEvalAndDisplay == Warned(EvaluateBatches) \o Loop(Dropped(GetFree))
UploadBuildInfo == Opt(Dropped(SendFree("build info")))

(* What follows a blocked run; p finds the dependencies first. *)
BlockedReport == Opt(Fail) \o SaveBuildInfo \o BulkEvalAndDisplay \o UploadBuildInfo \o Fail
PkgmgrExecute(p) == Call(DetectRegistry \o RegistryDetails(GetFree) \o RunNative(p))

PkgmgrNpm == PkgmgrExecute(NpmDependencies(BlockedReport))
PkgmgrMaven == PkgmgrExecute(MavenDependencies(BlockedReport))
PkgmgrPip == PkgmgrExecute(PipDependencies(BlockedReport))
PkgmgrNuget == PkgmgrExecute(NugetDependencies(BlockedReport))

(* One artifact: the verdict is shown; details that cannot be had are left out. *)
ScanArtifact ==
  Call(Check \o RegistryDetails(Get) \o Get \o Loop(Get) \o Opt(Return)
       \o Either(Local, Warned(Get)))
=============================================================================
