------------------------------ MODULE MCMemory ------------------------------
(* A TLC instance of Memory.  A page of one byte is enough for accesses    *)
(* that cross pages: ranges and accesses are <<base, size>>.  Of the three *)
(* pages the last one, <<2, 1>>, can never be mapped: rounding its end up  *)
(* wraps.  The access <<2, 2>> wraps around the address space.             *)
EXTENDS Memory, TLC

MCPerms == {{"read"}, {"read", "write", "execute"}}
MCMapRanges == {<<0, 2>>, <<1, 1>>, <<2, 1>>}
MCAccesses == {<<0, 1>>, <<0, 2>>, <<2, 2>>}
MCRegions == {<<0, 2>>}

(* PageEntry objects are interchangeable addresses.                        *)
ObjectSymmetry == Permutations(Objects)
=============================================================================
