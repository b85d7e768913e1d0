---------------------------- MODULE MCMatchRules ----------------------------
(* Instances of MatchRules: one or two pairs to a rule, each value beside  *)
(* a near miss ("/a" and "/aa", "a.b" and "ab"), and messages that tell    *)
(* the filters apart.                                                      *)
EXTENDS MatchRules

P(k, v) == [key |-> k, value |-> v]
MCMux == <<"m">>
A == <<"/", "a">>
AB == <<"/", "a", "/", "b">>
Dir == <<"/", "a", "/">>

MCPairs == {P("type", <<"signal">>), P("sender", <<"a">>), P("sender", <<"b">>),
            P("path", A), P("path_namespace", A), P("path_namespace", Root),
            P("destination", <<"a">>), P("destination", <<>>),
            P("arg0namespace", <<"a">>), P("arg0", <<"a", ",", "b">>), P("arg1", <<"a">>),
            P("arg0path", Dir), P("arg1path", AB), P("arg63", <<"a">>), P("arg64", <<"a">>),
            P("arg1namespace", <<"a">>), P("arg256path", A), P("other", <<"a">>)}

\* A bare value has no comma. An empty value without its quote would close the one before.
Spellable(w) ==
    \A p \in Range(w.pairs) :
        /\ w.style = "bare" => "," \notin Range(p.value)
        /\ w.style = "unclosed" => p.value # <<>>
MCWritten ==
    {w \in [pairs : {<<>>} \cup {<<p>> : p \in MCPairs} \cup {<<p, q>> : p, q \in MCPairs},
            style : Styles] : Spellable(w)}

Arg(k, t) == [kind |-> k, text |-> t]
Msg(sender, path, dest, args) ==
    [type |-> <<"signal">>, sender |-> sender, interface |-> <<"i">>, member |-> <<"n">>,
     path |-> path, destination |-> dest, args |-> args]
MCArgs == {<<>>, <<Arg("string", <<"a">>)>>, <<Arg("string", <<"a", ".", "b">>)>>,
           <<Arg("string", <<"a", "b">>), Arg("string", <<"a">>)>>,
           <<Arg("string", <<"a", ",", "b">>), Arg("path", AB)>>,
           <<Arg("path", AB), Arg("string", Dir)>>,
           <<Arg("string", Root), Arg("path", A)>>,
           <<Arg("other", <<"a">>), Arg("other", <<"a">>)>>}
MCMessages ==
    {Msg(<<"a">>, A, None, args) : args \in MCArgs}
    \cup {Msg(<<"b">>, path, dest, <<Arg("string", <<"a">>)>>) :
            path \in {Root, AB, <<"/", "a", "a">>}, dest \in {None, <<"a">>, MCMux}}
============================================================================
