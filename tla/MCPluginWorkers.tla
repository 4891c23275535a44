----------------------------- MODULE MCPluginWorkers -----------------------------
(* Small instances of PluginWorkers for TLC.                               *)
EXTENDS PluginWorkers, TLC

(* No request is named in the specification: they are interchangeable, and *)
(* so are the grants when every one of them is sufficient ...              *)
Symmetry == Permutations(Requests) \cup Permutations(Grants)

(* ... and the modules when all of them are persistent.                    *)
ModuleSymmetry == Symmetry \cup Permutations(Modules)
=============================================================================
