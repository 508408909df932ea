---- MODULE MCTopicRouter ----
(* An instance of TopicRouter for TLC. *)
EXTENDS TopicRouter

\* Filters that share prefixes, a node or a "#" parent, one exact, one under "$",
\* two shared ones and one that is not valid
MCFilter ==
    {<<"a", "b">>, <<"a", "+">>, <<"a", "#">>, <<"#">>, <<"+", "b">>, <<"$s", "+">>,
     <<"$share", "g", "a", "+">>, <<"$share", "g", "a", "b">>, <<"#", "a">>}
MCTopic ==
    {<<"a">>, <<"b">>, <<"a", "b">>, <<"a", "">>, <<"a", "b", "c">>, <<"$s", "b">>,
     <<"$s">>, <<"$share", "g", "a", "b">>}
MCDollar == {"$s", "$share"}
====
