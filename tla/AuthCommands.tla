----------------------------- MODULE AuthCommands -----------------------------
(* Commands that keep profiles and credentials, and those that look only at what is installed.
   Their requests have clients with deadlines of their own: --timeout does not reach them. *)
EXTENDS Steps

(* config.yaml and credentials are each read whole, changed and written in place. *)
SaveConfig == Local \o Overwrite
SaveCredentials == Local \o Overwrite

(* The profile or the environment's key; a profile with SSO may first need another access token. *)
RefreshToken == SendFree("token") \o SaveCredentials
LoadProfile == Check
CheckAccessToken == Opt(RefreshToken)

(* ------ harness auth status *)

(* A host that answers is reachable; a malformed URL is then no more than a warning. *)
CheckAPIUrl == Local \o GetFree \o Opt(Tell)

(* The profile is updated with who the caller is, whatever comes of that. *)
PersistIdentity == Opt(Dropped(SaveConfig))

(* Who the caller is comes from the check of a service account's token, is in the token of SSO,
   or is asked for when a personal token has been found valid; only that check may fail. *)
CheckUser ==
  OneOf(<<Local \o GetFree \o Dropped(GetFree), \* SAT, PAT
          Local \o Dropped(GetFree)>>)          \* SSO

(* Organization and project, each where the profile names it; to a service account a denial is a warning. *)
Denied == Tell \o Return
CheckScope ==
  Call(Try(GetFree, Either(Tell, Fail))
       \o Either(Fail, <<>>) \o Try(GetFree, Either(Denied, Fail))
       \o Either(Fail, <<>>) \o Try(GetFree, Either(Denied, Fail)))

(* A profile that does not load still has its API's URL checked. *)
PipelineStatus == Local
ProfileStatus == Try(LoadProfile, Opt(Dropped(CheckAPIUrl)) \o Fail)
StatusChecks ==
  Call(Opt(PipelineStatus \o Return)
       \o ProfileStatus \o CheckAccessToken \o CheckAPIUrl \o CheckUser \o PersistIdentity \o CheckScope)
Status == StatusChecks

(* The commands that change a profile show the table of checks, and end well whatever it says. *)
ShowStatus == Warned(StatusChecks)

(* ------ harness auth login *)

ConfirmOverwrite == Either(Check, Ask)
ValidateToken == GetFree \o Local
FetchRegistryURL == GetFree \o Local
TokenIdentity == GetFree

(* The wizard, which LoginWizard.tla has in full: tokens are tried until one is valid, or the user gives up. *)
RunWizard == Local \o Loop(Warned(GetFree)) \o Ask

LoginFlags == Check \o Opt(ValidateToken) \o Warned(FetchRegistryURL)

SaveLogin == Dropped(TokenIdentity) \o SaveConfig \o SaveCredentials \o ShowStatus

(* One callback of the browser is taken: a code, an error or another's state; or none in five minutes. *)
WaitForCallback == Local
RunPKCEFlow == Local \o WaitForCallback \o SendFree("session") \o Local

(* The picker of a scope may fail, which --force-save passes over, or be left, which saves nothing. *)
PickScope == Opt(Call(Try(GetFree \o Local, Either(Fail, Tell \o Return)) \o Ask))
SsoLogin ==
  GetFree \o RunPKCEFlow \o PickScope \o Dropped(GetFree) \o SaveConfig \o SaveCredentials \o ShowStatus

Login ==
  Call(Check \o OneOf(<<Opt(ConfirmOverwrite) \o SsoLogin \o Return,
                        Opt(ConfirmOverwrite) \o RunWizard \o Opt(SsoLogin \o Return),
                        LoginFlags>>)
       \o SaveLogin)

(* ------ the other commands on profiles *)

(* Who leaves the picker has changed nothing, and the command ends well. *)
SetScope ==
  Call(Check \o Opt(GetFree \o Local \o Opt(Return)) \o Check \o SaveConfig \o ShowStatus)

Logout == Check \o SaveConfig \o SaveCredentials

SsoRefresh == LoadProfile \o Check \o RefreshToken
SsoStatus == LoadProfile \o Check \o Loop(Warned(Local))

(* A refresh that fails leads to a login; one that cannot be saved ends the command. *)
RenewOrLogin ==
  Call(Try(Local \o SendFree("token"), Tell \o SsoLogin \o Local \o Return) \o SaveCredentials)
SsoLogUrls == Check \o RenewOrLogin \o Get \o Local \o Loop(Warned(GetFree))

ListProfiles == Local \o Dropped(Local)
PrintEnv == LoadProfile

(* ------ what is installed *)

(* A name that is found nowhere is an error, with a word on what it may have meant. *)
GetModule == Call(Either(Check, <<>>) \o Opt(Return) \o Local)
GetNoun == Check \o Opt(Check) \o Local
ListModules == Loop(Dropped(Local))

(* The latest release is asked for twice: to be shown, where an error ends the command well, and for the cache. *)
UpdateCheck == Call(Try(GetFree, Tell \o Return) \o Dropped(GetFree \o Local))
=============================================================================
