------------------------------ MODULE MCServer ------------------------------
(***************************************************************************)
(* Instance of Server for TLC.                                             *)
(***************************************************************************)
EXTENDS Server

CONSTANTS c1, c2

MCMessages ==
    {<<"GET", "/hello.xhtml", "blank">>, <<"POST", "/hello.xhtml", "blank">>, <<"GET", "/", "blank">>}
=============================================================================
