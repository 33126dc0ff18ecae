------------------------------ MODULE CiCommands ------------------------------
(* Commands of a CI step: artifacts of the build, annotations, the rules that
   classify errors, and coverage. *)
EXTENDS Steps

(* Artifacts. Five workers upload, each file up to three times; when one has failed, nothing is
   recorded of those that are up. The record is merged under a file lock, and written in place. *)
ResolveFilePath == Check
WalkDir == Check
CollectEntries == ResolveFilePath \o Opt(WalkDir)
ParallelUpload(files) == Pool(files)
MergeOutputs == Local
WriteArtifactOutput == Call(Opt(Return) \o Local \o MergeOutputs \o Overwrite)
PushCi == Check \o CollectEntries \o ParallelUpload({"file", "file 2"}) \o WriteArtifactOutput
PullGenericFile == Get
PullCi == Check \o Local \o PullGenericFile \o Overwrite

(* An annotation is read, changed and written back beside other steps, by a temporary file of a
   fixed name, which stays when it cannot be written. *)
LoadEnvelope == Local
SaveEnvelope == Temp \o Local \o Finally(Try(RenameOver, Unlink \o RenameOver), Clean)
ReadSummaryFile == Check
Annotate == Call(Opt(Return) \o Check \o Opt(ReadSummaryFile) \o LoadEnvelope \o SaveEnvelope \o Local)

(* The rules of errors.yaml, parsed once and kept by the path of the file, an error of it too.
   Evaluation tells its error in the result, and ends well. *)
ParseErrors == Check
ValidateErrors == Call(Check \o ParseErrors \o Check)
LoadFromCache == Warned(Local)
SaveToCache == Warned(Local)
GetOrParseRules ==
  Call(Opt(ParseErrors \o Return) \o LoadFromCache \o Opt(Fail) \o Opt(Return)
       \o Try(ParseErrors, SaveToCache \o Fail) \o SaveToCache)
EvaluateRules == Local
EvaluateErrors ==
  Call(Check \o Try(GetOrParseRules, Tell \o Return) \o Opt(Return) \o Try(EvaluateRules, Tell \o Return) \o Tell)

(* Coverage. Reports are found, encoded, and sent where a signed URL says; a completion
   follows the report it names. One file that fails does not stop the others. *)
CoverageInfo == Check
UploadParams == CoverageInfo \o Check
CoverageLookup == Check
CompileExcludes == Check
LoadExcludes == Send("repository") \o Local \o Get \o Local \o CompileExcludes
ParseReport == Local
ChangedLines == Local
ResolveRepoPaths == Local
BuildReport == Opt(ChangedLines) \o ParseReport \o ResolveRepoPaths
UploadReport == Local \o Send("signed") \o Local \o Send("report") \o SendAfter("completion", {"report"})
ProcessUploadFile == BuildReport \o UploadReport
(* Mutant of CoverageUpload: the errors of the files are counted, and nobody asks for the count. *)
CoverageUploadUntold ==
  Check \o UploadParams \o CoverageLookup \o LoadExcludes \o Loop(Counted(ProcessUploadFile))

CoverageUpload == Check \o UploadParams \o CoverageLookup \o LoadExcludes \o Loop(Counted(ProcessUploadFile)) \o Tally

AnalyzeFile == ParseReport \o ResolveRepoPaths
CoverageAnalyze == Check \o CompileExcludes \o CoverageLookup \o Opt(ChangedLines) \o Loop(AnalyzeFile)

(* The service is asked until all reports are processed. At the deadline of the wait the last answer is
   evaluated, although reports are missing. *)
EvaluateThresholds == Fail
GetSummary == Watch(1, EvaluateThresholds, Fail, Opt(EvaluateThresholds))
WaitUntil == Check \o CoverageInfo \o GetSummary
=============================================================================
