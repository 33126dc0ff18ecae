----------------------------- MODULE CodeCommands -----------------------------
(* Commands on repositories and pull requests, and the names of people that flags take. *)
EXTENDS Steps

(* Who the caller is: asked once in a process, an error too is kept. *)
ListPrincipals == Get \o Local
PrincipalIDFromEmail == ListPrincipals \o Check
CurrentUserPrincipalID == Get \o Local \o PrincipalIDFromEmail
ResolvePrincipal == Call(Check \o Opt(Return) \o PrincipalIDFromEmail)
ListMine == CurrentUserPrincipalID \o Get

(* A pull request is shown with what is known of its reviews; only its insight may be missing. *)
GetPRWorkflow ==
  Call(Check \o Opt(Get \o Local \o Return) \o Get \o Opt(Dropped(Get)) \o Dropped(Get) \o Local)

(* The log of a check is the log of the stage that ran it, in another project perhaps. *)
ResolvePRCheck == Check \o Get \o Check
PipelineCoords == Check
GetPRCheck == ResolvePRCheck \o Local
FollowPRCheck == ResolvePRCheck \o PipelineCoords \o Follow
PRCheckLogItem == ResolvePRCheck \o PipelineCoords \o Get \o Loop(Warned(GetFree)) \o Local

(* Bodies of writes: merge and review name the commit that was read just before. *)
ReadSourceSHA == Check \o Get \o Local
MergePR == ReadSourceSHA \o Send("merge")
ReviewPR == Check \o ReadSourceSHA \o Send("review")
CreatePRBody == Check
CreatePR == CreatePRBody \o Send("pull request")
CommentPR == Check \o Send("comment")

(* Working copies, by a git that ends with the context of the command. *)
RequireGit == Check
RunGit == Check \o Local
ParseRemoteScope == Check
PullPR == RequireGit \o Check \o Local \o ParseRemoteScope \o Check \o Get \o Local \o RunGit \o RunGit
RepoGitURL == Get \o Local
PullRepository == RequireGit \o RepoGitURL \o RunGit

CodeOwners == Get \o Local

(* Of a name that is no email, the account is asked, and the organization and the command's scope when that
   finds none, whose errors count as not found. *)
IdentifierExists == Call(Get \o Opt(Return) \o Loop(Dropped(Get)))
UserUUID == Get \o Local \o Check
ResolvePrincipalID ==
  Call(Opt(UserUUID \o Return) \o Opt(Return) \o IdentifierExists \o IdentifierExists \o Check)
CreateRoleAssignment == ResolvePrincipalID \o Send("assignment")
=============================================================================
