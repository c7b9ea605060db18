----------------------------- MODULE MCSession ------------------------------
(***************************************************************************)
(* An instance of Harness for TLC.  Rule pair needs two tokens in a row,   *)
(* which replies may put in different blocks; key ends in a word boundary; *)
(* wide names too many files to be staged eagerly.  Files p and q share a  *)
(* basename, and q is learnt only from a listing; g has a date suffix T.   *)
(***************************************************************************)
EXTENDS Harness

MCToken == {"b", "8", "k", "s", "all", "f", "nc", "g", "u", "d", "e", "T", "\n", "o", "r"}
MCWords == [pair |-> {<<"b", "8">>}, key |-> {<<"k">>}, wide |-> {<<"all">>}]
MCKeys == [pair |-> {"bands"}, key |-> {"keys"}, wide |-> {"bands", "keys"}]
MCPrior == [bands |-> {"p"}, keys |-> {"g", "out"}, output |-> {"r"},
            discovered |-> {}]
MCFull == [p |-> <<"d", "f", "nc">>, q |-> <<"e", "f", "nc">>,
           g |-> <<"d", "g", "T", "nc">>, r |-> <<"o", "r">>, out |-> <<"o", "u">>]
MCBase == [p |-> <<"f", "nc">>, q |-> <<"f", "nc">>, g |-> <<"g", "T", "nc">>,
           r |-> <<"r">>, out |-> <<"u">>]
MCStem == [MCBase EXCEPT !.p = <<"f">>, !.q = <<"f">>, !.g = <<"g", "T">>]
MCShort == [MCStem EXCEPT !.g = <<"g">>]

Text == {<<"b">>, <<"8">>, <<"k", "s">>, <<"all", "f">>, <<"f", "nc">>,
         <<"g", "u">>, <<"k">>}
Thought(t) == [type |-> "thinking", text |-> t]
Said(t) == [type |-> "text", text |-> t]
MCReply ==
    [blocks : {<<Thought(t)>> : t \in Text}
              \cup {<<Said(t)>> : t \in {<<"8">>, <<"all", "f">>}}
              \cup {<<Thought(<<"b">>), Said(<<"8", "b">>)>>,
                    <<Said(<<"b">>), Thought(<<"8", "b", "8">>)>>,
                    <<Thought(<<"b">>), Thought(<<"8">>), Said(<<"k">>)>>},
     tools : {TRUE}]
    \cup {[blocks |-> <<>>, tools |-> FALSE]}

Listing == [text |-> <<"e", "f", "nc", "d", "g", "T", "nc">>, listed |-> {"q", "g"},
            killed |-> FALSE]
Contents == [text |-> <<"8", "k", "b", "8">>, listed |-> {}, killed |-> FALSE]
Killed == [text |-> <<"all", "b">>, listed |-> {}, killed |-> TRUE]
MCResult == {<<Listing>>, <<Contents>>, <<Killed, Contents>>}
=============================================================================
