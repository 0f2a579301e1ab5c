----------------------------- MODULE MCUriPath -----------------------------
(***************************************************************************)
(* Instance of UriPath for TLC: every path of slashes, dots and other      *)
(* characters up to a length.  A character that is neither is its own      *)
(* place, so that no two of a path are alike.                              *)
(***************************************************************************)
EXTENDS UriPath

CONSTANT MaxLength

MCTargets ==
    UNION { {[i \in 1..n |-> IF i = 1 THEN Slash ELSE IF f[i] = 0 THEN i ELSE f[i]]
                : f \in [2..n -> {Slash, Dot, 0}]} : n \in 1..MaxLength }
=============================================================================
