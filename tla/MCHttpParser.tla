---------------------------- MODULE MCHttpParser ----------------------------
(***************************************************************************)
(* Instance of HttpParser for TLC: every table of up to MaxRegistered      *)
(* elements.                                                               *)
(***************************************************************************)
EXTENDS HttpParser

CONSTANTS a, b, MaxRegistered

MCElements ==
    [type : {"METHOD", "URI", "VERSION", "ROOT"}, key : {NoKey}]
        \cup [type : {"GET", "HEADER"}, key : {a}]

MCTables == UNION {[1..n -> MCElements] : n \in 0..MaxRegistered}
=============================================================================
