------------------------------ MODULE MCRtuServer ------------------------------
(***************************************************************************)
(* Requests for model-checking RtuServer: two that are answered with a     *)
(* composed reply and two that are echoed.                                 *)
(***************************************************************************)
EXTENDS RtuServer

CONSTANTS f3, f16, f5, f6

MCRequests == {f3, f16, f5, f6}
MCEchoed   == {f5, f6}
================================================================================
