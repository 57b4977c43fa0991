------------------------------ MODULE MCBackend ------------------------------
(* TLC instance of Backend: eight addresses, ranges that overlap, touch    *)
(* and end exactly at the top of the address space, where base + size      *)
(* wraps, two devices and two hooks.                                       *)
EXTENDS Backend, TLC

DeviceSymmetry == Permutations(Devices)
MCHostRanges == {<<0, 2>>, <<1, 3>>}
MCRanges == {<<0, 2>>, <<1, 3>>, <<4, 2>>, <<6, 2>>}
=============================================================================
