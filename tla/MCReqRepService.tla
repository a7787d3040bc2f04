-------------------------- MODULE MCReqRepService --------------------------
(***************************************************************************)
(* TLC instance of ReqRepService: requests of one and two frames, with the *)
(* empty frame in each position.                                           *)
(***************************************************************************)
EXTENDS ReqRepService

MCRequests ==
    {<<"empty">>, <<"text", "text">>, <<"text", "empty">>, <<"empty", "text">>}
=============================================================================
