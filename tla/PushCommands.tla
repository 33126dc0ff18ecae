----------------------------- MODULE PushCommands -----------------------------
(* harness push, pull and delete of artifacts other than generic ones. The uploads
   go out by newHTTPClient and http.NewRequest: they are retried, and they do not
   carry the context of the command, so that --timeout cuts them only with the process. *)
EXTENDS Steps

(* applyPostPushMetadata: whatever goes wrong is a warning. *)
PublishMetadata(o) ==
  Call(Opt(Return) \o Opt(Tell \o Return)
       \o Warned(Check \o Opt(Return) \o SendAfter("metadata", {o})))

PushCargo == Check \o SendFree("package") \o PublishMetadata("package")
PushComposer == Check \o SendFree("package")
PushDart == Check \o Local \o SendFree("package") \o PublishMetadata("package")
PushConda == Check \o SendFree("package")
BuildGoPackage == Check \o Local
PushGo == Check \o Either(Check, BuildGoPackage) \o SendFree("package") \o PublishMetadata("package")
PushPuppet == Check \o SendFree("package") \o PublishMetadata("package")
PushRpm == Check \o SendFree("package")
PushRuby == Check \o SendFree("package") \o PublishMetadata("package")
PushSwift == Check \o Opt(Check) \o SendFree("package") \o PublishMetadata("package")
PushNpm == Check \o SendFree("package") \o PublishMetadata("package")

(* The identity of a NuGet package is read for --metadata alone, after the push. *)
PushNuget == Check \o SendFree("package") \o Opt(Call(Try(Check, Tell \o Return) \o PublishMetadata("package")))

(* A .dsc goes out before the source archives, and their paths are checked between the uploads. *)
UploadDebFile == Check \o SendFree("deb")
UploadDebianFile(o, after) == Check \o FreeAfter(o, after)
UploadDscPackage ==
  Check \o UploadDebianFile("dsc", {})
  \o OneOf(<< UploadDebianFile("source", {"dsc"}),
              UploadDebianFile("origin", {"dsc"}),
              UploadDebianFile("source", {"dsc"}) \o UploadDebianFile("origin", {"dsc"}) >>)
PushDebian == Check \o Either(UploadDebFile, UploadDscPackage)

(* Of the files of a Conan recipe or package, the manifest goes last: what it lists is there. *)
ParseConanRef == Check
CollectConanFiles == Check
(* Mutant of ConanFilesInOrder: the order of the directory. *)
ConanManifestFirst(files, manifest) == FreeAfter(manifest, {files}) \o SendFree(files)

ConanFilesInOrder(files, manifest) == SendFree(files) \o FreeAfter(manifest, {files})
(* Mutant of PushConan: the files of the package are looked for after the recipe is up. *)
PushConanLateCheck ==
  Check \o ParseConanRef \o CollectConanFiles \o ConanFilesInOrder("recipe", "manifest")
  \o Opt(CollectConanFiles \o Check \o ConanFilesInOrder("binary", "binary manifest"))
  \o PublishMetadata("manifest")

PushConan ==
  LET upload(packaged) ==
        ConanFilesInOrder("recipe", "manifest")
        \o (IF packaged THEN ConanFilesInOrder("binary", "binary manifest") ELSE <<>>)
  IN Check \o ParseConanRef \o CollectConanFiles \o Check
     \o Either(upload(FALSE), Check \o CollectConanFiles \o Check \o upload(TRUE))
     \o PublishMetadata("manifest")

(* Each file of a directory has a goroutine of its own, which reads what the file says of itself
   just before it sends it. *)
PushPython ==
  Check \o Either(Check \o SendFree("package") \o PublishMetadata("package"),
                  Local \o PoolFree({"package", "package 2"}) \o PublishMetadata("package"))

(* A directory is packed into a temporary archive; a failure removes it at once. *)
ValidateModuleIdentity == Check
ResolveTerraformFile == Check
UploadTerraform(identity) == identity \o Check \o SendFree("package") \o PublishMetadata("package")
PackageModuleDir(p) == Check \o WithTemp(Local \o Check \o p)
PushTerraform ==
  Check \o OneOf(<< ValidateModuleIdentity \o PackageModuleDir(UploadTerraform(<<>>)),
                    ResolveTerraformFile \o ValidateModuleIdentity \o UploadTerraform(<<>>),
                    ResolveTerraformFile \o UploadTerraform(Check) >>)

(* maven-metadata.xml is read, extended by the version and written back when all files are up. A
   document that is not there, or does not parse, starts afresh; lost checksums of it are warnings. *)
ParseArtifactCoords == Check
ParsePom == Check
UpdateMavenMetadata ==
  GetFree \o FreeAfter("maven-metadata.xml", {"jar", "pom"})
  \o Warned(FreeAfter("md5", {"maven-metadata.xml"})) \o Warned(FreeAfter("sha1", {"maven-metadata.xml"}))
(* The checksum files go up beside the files they are of, in any order. *)
PushMaven ==
  Check \o ParsePom \o ParseArtifactCoords \o Check
  \o PoolFree({"jar", "pom", "jar.md5", "jar.sha1", "pom.md5", "pom.sha1"}) \o UpdateMavenMetadata \o PublishMetadata("jar")

(* Only generic artifacts can be pulled, straight into the file of the user. *)
PullUnsupported == Check
PullGeneric == Check \o GetFree \o Overwrite
PullArtifact == Either(PullGeneric, PullUnsupported)

(* What matches the pattern is shown first, and looked for again by the deletion; items that
   failed are printed. *)
ConfirmPrompt == Ask
CallBulkDelete(request) == request \o Local
BulkDelete ==
  Call(Check \o Opt(ConfirmPrompt) \o CallBulkDelete(GetFree)
       \o Opt(Return) \o Opt(Return) \o Opt(ConfirmPrompt)
       \o CallBulkDelete(SendFree("deletion")) \o Opt(Partly \o Tell))
=============================================================================
