----------------------------- MODULE MCIdentity -----------------------------
(* Two threads over a device that stays and one that comes and goes.          *)
EXTENDS Identity, TLC

CONSTANTS kept, loose, gui, worker

MCSlice(by, capability) == [device |-> kept, by |-> by, capability |-> capability]
MCSlices == {MCSlice("name", "bgp"), MCSlice("ip", "bgp"), MCSlice("name", "version")}
MCThreadSymmetry == Permutations(Threads)
=============================================================================
