------------------------------ MODULE MCFunAsr ------------------------------
(***************************************************************************)
(* An instance of FunAsr with short uplinks.                               *)
(***************************************************************************)
EXTENDS FunAsr

MCMics == {<<>>, <<"audio", "update">>, <<"empty", "clear", "audio">>}

=============================================================================
