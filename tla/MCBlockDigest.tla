--------------------------- MODULE MCBlockDigest ----------------------------
(* BlockDigest with blocks of eight bytes, the last two for the length, of *)
(* which sha1_update takes one at every fourth byte.                       *)
EXTENDS BlockDigest
=============================================================================
