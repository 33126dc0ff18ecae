--------------------------- MODULE EndpointCommands ---------------------------
(* The commands that are declared by a YAML spec: an endpoint, how its request is
   built, and how the answer is shown. One handler, runEndpointCmd or
   runEndpointListCmd, runs them all. *)
EXTENDS Steps

(* The flags, arguments and names of a command, credentials, and flags whose value is looked up. *)
ParsePaging == Check
ResolveFlagValues == Loop(Get \o Check)
BuildIdentity == Check
BuildAuth == Check
BuildFields == Check
BuildCtx == BuildIdentity \o BuildAuth \o BuildFields \o ResolveFlagValues \o Check

(* DoRequest: a write is previewed before anything is sent, then sent, and its answer must parse. *)
DoGet == Get
DoWrite(o) == Opt(Preview) \o Send(o)

RunValidators == Loop(Check)
ResolveBody == Opt(Check)
BuildYamlEnvelope == Check
MutationBody == Check

(* --file: read, converted, wrapped, validated, sent. *)
FileRequest(o) == Check \o Opt(BuildYamlEnvelope) \o Opt(Check) \o RunValidators \o DoWrite(o)

(* An update reads the item, changes its copy, and writes all of it back. *)
GetThenUpdate == Check \o DoGet \o Opt(Local) \o Local \o MutationBody \o Opt(Local) \o DoWrite("item")
GetThenPutKV == Check \o DoGet \o Check \o DoWrite("item")
SetFields == MutationBody \o DoWrite("item")

PlainWrite == RunValidators \o DoWrite("item")
CallEndpoint ==
  Check \o Check
  \o OneOf(<< FileRequest("item"), Check, GetThenUpdate, GetThenPutKV, SetFields,
              ResolveBody \o PlainWrite, Opt(Check) \o DoGet >>)

RenderSingleItem == Local
RenderCount == Local
RenderList == Local
ListFields == Local

(* What is shown of an answer; the change is made, so a failure here is told as one of output. *)
RunEndpoint ==
  Either(ListFields,
         CallEndpoint \o OneOf(<< Local \o RenderList, <<>>, Local \o Local, RenderSingleItem >>))

FetchCount == Loop(Get)
FetchItems == Loop(Get \o Local)
RunListEndpoint == Either(Either(FetchCount \o RenderCount, FetchItems \o RenderList), CallEndpoint \o RenderList)

ConfirmGate == Check \o Ask
RunEndpointCmd(follow) == BuildCtx \o Opt(ConfirmGate) \o RunEndpoint \o Opt(follow)
RunEndpointListCmd == BuildCtx \o Either(ListFields, Opt(ParsePaging) \o RunListEndpoint)
WorkflowCmd(handler) == BuildCtx \o handler

(* A handler of a module that is a plugin runs in its process, with the same arguments. *)
PluginCmd(handler) == Check \o WorkflowCmd(handler)
=============================================================================
