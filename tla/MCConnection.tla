---------------------------- MODULE MCConnection ----------------------------
(* Instance of Connection for TLC: every stream of up to five bytes, each  *)
(* an ordinary byte, CR or LF.                                             *)
EXTENDS Connection

AllBytes == {"x", "CR", "LF"}

AllStreams == UNION {[1..n -> AllBytes] : n \in 0..5}
=============================================================================
