------------------------------- MODULE MCCommand -------------------------------
EXTENDS Command, PushCommands, EndpointCommands, PackageCommands, CiCommands, CodeCommands, JobCommands,
  MigrationJobs, AuthCommands

AllPrograms == [
  push_cargo |-> PushCargo, push_composer |-> PushComposer, push_dart |-> PushDart,
  push_conda |-> PushConda, push_go |-> PushGo, push_puppet |-> PushPuppet, push_rpm |-> PushRpm,
  push_ruby |-> PushRuby, push_swift |-> PushSwift, push_npm |-> PushNpm, push_nuget |-> PushNuget,
  push_debian |-> PushDebian, push_conan |-> PushConan, push_python |-> PushPython,
  push_terraform |-> PushTerraform, push_maven |-> PushMaven, pull_artifact |-> PullArtifact,
  bulk_delete |-> BulkDelete,
  endpoint |-> RunEndpointCmd(<<>>), endpoint_list |-> RunEndpointListCmd,
  configure_npm |-> ConfigureNpm, configure_maven |-> ConfigureMaven,
  configure_nuget |-> ConfigureNuget, configure_pip |-> ConfigurePip, npm |-> PkgmgrNpm,
  mvn |-> PkgmgrMaven, pip |-> PkgmgrPip, dotnet |-> PkgmgrNuget, scan_artifact |-> PluginCmd(ScanArtifact),
  push_ci |-> PushCi, pull_ci |-> PullCi, annotate |-> Annotate, validate_errors |-> ValidateErrors,
  evaluate_errors |-> EvaluateErrors, coverage_upload |-> CoverageUpload,
  coverage_analyze |-> CoverageAnalyze, coverage_wait |-> WaitUntil,
  get_pr |-> GetPRWorkflow, list_mine |-> ListMine, follow_check |-> FollowPRCheck,
  check_log |-> PRCheckLogItem, get_check |-> GetPRCheck, merge_pr |-> MergePR,
  review_pr |-> ReviewPR, create_pr |-> CreatePR, comment_pr |-> CommentPR, pull_pr |-> PullPR,
  pull_repo |-> WorkflowCmd(PullRepository), codeowners |-> CodeOwners, role_assignment |-> CreateRoleAssignment,
  resolve_principal |-> ResolvePrincipal,
  execute_pipeline |-> ExecutePipeline, retry_pipeline |-> RetryPipeline,
  execute_dynamic |-> ExecuteDynamic, create_pipeline |-> CreatePipeline,
  approvals |-> ListApprovals, approve |-> ApprovePipeline, list_steps |-> ListSteps,
  pipeline_log |-> PipelineLog, start_run |-> StartRun, rerun |-> Rerun,
  upload_script |-> UploadScript, show_script |-> ShowScript, export_template |-> ExportTemplate,
  create_composite |-> CreateComposite, execute_plan |-> ExecutePlan,
  push_source |-> PushVibeappSource, deployment_log |-> DeploymentLog, run_vibeapp |-> RunVibeapp,
  vibeapp_deploy |-> VibeappDeploy, pull_vibeapp |-> PullVibeapp, list_autocreate |-> ListAutocreate,
  import_agent |-> ImportAgent, agent_install |-> AgentInstall, write_mapping |-> WriteMapping,
  write_keys |-> WriteKeys,
  migrate_generic |-> MigrateGeneric, migrate_raw |-> MigrateRaw,
  migrate_terraform |-> MigrateTerraform, migrate_dart |-> MigrateDart,
  migrate_python |-> MigratePython, migrate_npm |-> MigrateNpm, migrate_go |-> MigrateGo,
  migrate_conda |-> MigrateConda, migrate_rpm |-> MigrateRpm, migrate_swift |-> MigrateSwift,
  migrate_composer |-> MigrateComposer, migrate_legacy_helm |-> MigrateLegacyHelm,
  migrate_helm_http |-> MigrateHelmHttp, migrate_debian |-> MigrateDebian,
  migrate_conan |-> MigrateConan, migrate_cran |-> MigrateCran, migrate_oci |-> MigrateOci,
  migrate_nexus |-> MigrateFromNexus, migrate_github |-> MigrateFromGithub,
  migrate_harbor |-> MigrateFromHarbor,
  login |-> Login, status |-> Status, set_scope |-> SetScope, logout |-> Logout,
  sso_refresh |-> SsoRefresh, sso_status |-> SsoStatus, sso_logs |-> SsoLogUrls,
  profiles |-> ListProfiles, print_env |-> PrintEnv, get_module |-> GetModule, get_noun |-> GetNoun,
  list_modules |-> ListModules, update_check |-> UpdateCheck ]

(* Refused, or declined, only after a change: Debian packages, --exclude, --poll-interval, and the picker of a
   scope after the session of SSO is there. Silent: a file whose migration failed has no row in the summary and
   leaves exit 0. Torn: who the caller is could not be written to the profile, which stays cut off. Left behind:
   a temporary file that cannot be written, of annotations and of apps. Ended well: a wait for coverage with
   reports missing, and the deployment of an app that failed or was cancelled. *)
KnownOnes == [
  silent  |-> {"migrate_generic", "migrate_raw", "migrate_terraform", "migrate_dart", "migrate_python",
              "migrate_npm", "migrate_go", "migrate_conda", "migrate_rpm", "migrate_swift",
              "migrate_legacy_helm", "migrate_helm_http", "migrate_debian", "migrate_conan",
              "migrate_nexus", "migrate_github"},
  late    |-> {"push_debian", "coverage_upload", "start_run", "rerun", "login", "sso_logs"},
  torn    |-> {"status", "login", "set_scope", "sso_logs"},
  litter  |-> {"annotate", "vibeapp_deploy"},
  partial |-> {"coverage_wait", "deployment_log", "run_vibeapp", "vibeapp_deploy"} ]

(* Fields keep their types; at any moment, also when the process is killed, what a change points to is at
   the remote side, and a command that ends by itself leaves no temporary file (the order of the requests
   of a handler, and its deferred removals). *)
NothingLeftBehind == TypeOK /\ NothingDangles /\ TempsGo
=============================================================================
