------------------------------ MODULE JobCommands ------------------------------
(* Commands that start or follow remote work: pipelines, load tests, plans of
   infrastructure, apps, imports of GitOps agents. *)
EXTENDS Steps

(* Pipelines. The inputs are those of a file, or of the template with what --set gives. *)
ParsePairs == Check
ReadInputFile == Check
MergeIntoTemplate == Check
ResolveFromTemplate == Get \o MergeIntoTemplate
InputYaml == OneOf(<<ReadInputFile \o Opt(MergeIntoTemplate), ResolveFromTemplate, <<>> >>)
ExecuteInputSetBody == ParsePairs \o InputYaml
ExecutePipelineBody == Either(ExecuteInputSetBody, ParsePairs \o InputYaml)
ExecuteRetryBody == ParsePairs \o InputYaml
ExecuteDynamicBody == ReadInputFile
ExecuteFollow == Local \o Follow
ExecuteV1Follow == Local \o Follow
ExecutePipeline == ExecutePipelineBody \o Send("job") \o Opt(ExecuteFollow)
RetryPipeline == ExecuteRetryBody \o Send("job") \o Opt(ExecuteV1Follow)
ExecuteDynamic == ExecuteDynamicBody \o Send("job") \o Opt(ExecuteFollow)
CreatePipeline == Check \o Send("pipeline")

(* Of an approval, the pipeline that asks is looked up, if it can be. *)
ResolvePipelineID == Dropped(Get)
ListApprovals == Get \o Opt(ResolvePipelineID)
ApprovePipeline == Check \o Send("approval")

(* Steps and logs of an execution: a log that cannot be read is shown as its error. *)
ListSteps == Check \o Get \o Local
LogInteractive == Check \o Local
LogOfKey == GetFree
LogOfMany == Get \o Loop(Warned(GetFree)) \o Either(Check, Local)
PipelineLog ==
  Call(Check \o Opt(LogInteractive \o Return) \o Opt(Check \o Follow \o Return) \o Check \o Local
       \o Opt(LogOfKey \o Return) \o LogOfMany)

(* Load tests. A new run is named apart from those that a listing shows, if it can be listed. *)
ExistingRuns == Dropped(Get)
NewRunIdentity == ExistingRuns \o Local
StartRunBody == Check \o NewRunIdentity
PollInterval == Check
WatchRun == Local \o PollInterval \o Watch(0, Fail, Fail, <<>>)
StartRun == StartRunBody \o Send("job") \o Opt(WatchRun)
Rerun == Check \o Get \o Check \o StartRunBody \o Send("job") \o Opt(WatchRun)
ResolveRevision == Check \o Get \o Check
EncodeScript == Check
UploadScript == EncodeScript \o Send("script")
ShowScript == Opt(ResolveRevision) \o Get \o Local
ExportTemplate == Check \o Get \o Local \o Overwrite
CreateComposite == Check \o Send("composite")

(* Plans: a remote execution is made, given the sources, and then started. These requests do not
   carry the context of the command. *)
LoadWorkspaceConfig == Check
GetWorkspace == GetFree
DefaultPipeline == Check
ResolveRepoRoot == Check
ZipSources == Local
CreateExecution == SendFree("execution")
UploadExecution == FreeAfter("upload", {"execution"})
TriggerExecution == FreeAfter("job", {"execution", "upload"})
ExecutePlan ==
  Opt(LoadWorkspaceConfig) \o Check \o GetWorkspace \o DefaultPipeline \o ResolveRepoRoot \o Opt(Ask) \o ZipSources
  \o CreateExecution \o UploadExecution \o TriggerExecution \o Follow

(* Apps. A source is made, sent where the answer says, and waited for; then come the app, the file that
   links the directory to it, and a deployment. *)
PutUploadFile == Local \o SendAfter("upload", {"source"})
PollSourceReady == Watch(0, Fail, Fail, <<>>)
CreateAndUploadSource == Local \o Send("source") \o Local \o Loop(PutUploadFile) \o PollSourceReady
PushVibeappSource == Check \o CreateAndUploadSource

LoadLink == Check
WriteLink == Local \o Overwrite \o Warned(Local)
DeployFiles == Check
DeployPlan == Either(Get \o Check, <<>>)
WriteTempZip == Temp \o Local
CreateVibeapp == SendAfter("app", {"source"})
TriggerDeployment == SendAfter("job", {"source"})
StreamDeployment == Get \o Watch(0, <<>>, Fail, <<>>)
DeploymentLog == Check \o Either(Get, StreamDeployment)
FollowDeployment == Local \o StreamDeployment
RunVibeapp == Send("job") \o Opt(FollowDeployment)

NewApp == CreateAndUploadSource \o CreateVibeapp \o WriteLink
KnownApp == Opt(WriteLink) \o CreateAndUploadSource
FollowDeploy == Get \o Watch(0, Either(Fail, <<>>), Fail, <<>>)
VibeappDeploy ==
  Call(Check \o LoadLink \o DeployFiles \o DeployPlan \o Opt(Return) \o Opt(Ask) \o Local \o WriteTempZip
       \o Finally(Either(NewApp, KnownApp) \o TriggerDeployment \o Opt(FollowDeploy), Clean))

AppRepoURL == Get \o Local
PullVibeapp == Check \o AppRepoURL \o Local \o WriteLink

(* Imports of GitOps agents. The entries that the service makes are listed until all are there, or for a while;
   those that failed are shown as such. *)
WatchAutocreate == Watch(0, Tell, Fail, Tell)
AutocreatePaging == Check
ListAutocreate == Check \o Either(Get, AutocreatePaging \o WatchAutocreate)
ImportBody == Check
ImportAgent == ImportBody \o Send("import") \o Opt(WatchAutocreate)
AgentInstall == Check \o Get \o Check \o Get \o Local \o Overwrite
MappingBody == Check
WriteMapping == MappingBody \o Send("mapping")

(* Keys of a segment: read from a file, and refused when there are too many for a call. *)
ParseKeys == Check
ResolveKeysFile == Check \o ParseKeys
ValidateKeys == Check
WriteKeys == ResolveKeysFile \o ValidateKeys \o Send("keys")
=============================================================================
