---------------------------- MODULE MCPluginMan ----------------------------
(* Instances of PluginMan for TLC.                                         *)
EXTENDS PluginMan

CONSTANTS a, b, w1
=============================================================================
