--------------------------- MODULE MCP2PInference ---------------------------
(***************************************************************************)
(* Bounds for P2PInference.                                                *)
(***************************************************************************)
EXTENDS P2PInference

MCAnswers == {<<"b">>, <<"a", "b", "b", "a">>}

\* One thing at a time goes wrong.
Bounds == faults' + drops' <= 1
=============================================================================
