-------------------------- MODULE MCPluginDispatch --------------------------
(***************************************************************************)
(* Instances of PluginDispatch for TLC.                                    *)
(***************************************************************************)
EXTENDS PluginDispatch, TLC

CONSTANTS d1, d2, d3, d4, p1, p2

NoFallbacks     == <<>>
OneFallback     == <<p2>>
BothFallbacks   == <<p1, p2>>
RepeatedFallback == <<p2, p2>>

DispatchSymmetry == Permutations(Dispatches)
============================================================================
