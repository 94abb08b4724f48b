---------------------------- MODULE MCFanTimeline ----------------------------
(* Fans nested three deep, below a second element and then below a first, in *)
(* programs that print lines, parts of lines and errors, and may trap at     *)
(* every level.                                                              *)
EXTENDS FanTimeline

TreeGroups == {"outer", "middle", "inner"}
TreeFans == [outer |-> <<"a", "b">>, middle |-> <<"p", "q">>, inner |-> <<"x", "y">>]
TreeStartedBy == [outer |-> "top", middle |-> "b", inner |-> "p"]
TreeScripts == [a |-> {<<"part">>, <<"trap">>},
                b |-> {<<"fan", "part">>},
                p |-> {<<"part", "fan">>, <<"fan", "trap">>},
                q |-> {<<"line">>, <<"err", "trap">>},
                x |-> {<<"part">>, <<"trap">>},
                y |-> {<<"line">>, <<"trap">>}]
=============================================================================
