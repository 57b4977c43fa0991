--------------------------- MODULE MCDecodeCache ----------------------------
(* TLC instance of DecodeCache: two mappable pages of two bytes, two-byte  *)
(* instructions that may cross from one to the other, two modes.  The      *)
(* region covers both fetches, the one inside a page and the one across.   *)
EXTENDS DecodeCache

MCPerms == {{"read", "execute"}, {"read", "write", "execute"}}
MCMapRanges == {<<0, 4>>, <<2, 2>>}
MCAccesses == {<<1, 2>>}
MCRips == {1, 2}
(* A device or host that answers everywhere, and one that answers a fetch  *)
(* at 1, otherwise, and none at 2.                                         *)
MCImages == {[a \in 0..5 |-> 1], [a \in 0..2 |-> 0]}
MCMmioRanges == {<<1, 3>>}
=============================================================================
