------------------------------- MODULE MCPlugins -------------------------------
(* Two processes that install, and a start over the specs of PluginSpecs. *)
EXTENDS PluginSystem, PluginSpecs

CONSTANTS p1, p2

TwoProcs == {p1, p2}
=============================================================================
