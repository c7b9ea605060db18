---------------------------- MODULE MCStreaming ----------------------------
(***************************************************************************)
(* An instance of Streaming for TLC.  Rule pair needs two tokens that may  *)
(* come in different pieces, key ends in a word boundary, and wide names   *)
(* more files than are staged from a stream.                               *)
(***************************************************************************)
EXTENDS Streaming

MCToken == {"b", "8", "k", "s", "x", "y", "p", "q"}
MCWords == [pair |-> {<<"b", "8">>}, key |-> {<<"k">>}, wide |-> {<<"b">>}]
MCDetected == [pair |-> <<"p">>, key |-> <<"p", "q">>, wide |-> <<"p", "q", "p">>]
MCName == [p |-> <<"p">>, q |-> <<"q">>]
MCPiece == {<<"b">>, <<"8", "k">>, <<"s">>}
MCFragment == {<<>>, <<"x">>, <<"y">>}
=============================================================================
