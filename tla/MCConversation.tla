--------------------------- MODULE MCConversation ---------------------------
(***************************************************************************)
(* Small conversations: every form of content a client may send, ids of    *)
(* calls each provider would or would not accept, replies with thoughts,   *)
(* several texts, parallel calls of one tool and arguments in pieces.      *)
(***************************************************************************)
EXTENDS Conversation, TLC

Says(role, content) == ClientMessage(role, content)
Words(x) == Text(Blocks("text", <<x>>))
Plain == Says("user", Words("u1"))

MCOpenings ==
    {<<Plain>>,
     <<Says("system", Words("s1")), Plain>>,
     <<Says("system", List(Blocks("text", <<"s1", "s2">>))),
       Says("developer", List(<<Block("text", "u1"), Block("link", "i1"),
                                Block("file_id", "f1"), Block("audio", "a1")>>))>>,
     <<Plain, Says("system", Words("s1")), Says("user", Null)>>,
     <<Says("system", Words("s1")), Says("user", Words("u1")),
       Says("system", Words("s2")), Plain>>,
     <<Says("user", List(<<Block("badlink", "i1")>>))>>,
     <<Plain, Says("tool", Words("r1"))>>,
     <<Says("function", Words("r1"))>>}
MCFollowUps ==
    {Says("user", Words("u2")), Says("system", Words("s3")),
     Says("user", List(<<Block("text", "u2"), Block("image", "i1")>>))}
MCResultForms == {Words("r1"), List(Blocks("text", <<"r1", "r2">>))}

Call(id, tool, args, whole) == [id |-> id, tool |-> tool, args |-> args, whole |-> whole]
Said(thoughts, texts, calls, end) ==
    [thoughts |-> thoughts, texts |-> texts, calls |-> calls, end |-> end,
     usage |-> [input |-> 3, output |-> 9], estimate |-> 5]
MCReplies ==
    {Said(<<>>, <<"t1">>, <<>>, "stop"),
     Said(<<"h1">>, <<"t1", "t2">>, <<>>, "stop"),
     Said(<<>>, <<"t1">>, <<>>, "length"),
     Said(<<>>, <<"t1">>, <<Call("plain", "f", <<"a1", "a2">>, TRUE),
                            Call("nine", "f", <<"a3">>, TRUE)>>, "calls"),
     Said(<<"h1">>, <<>>, <<Call("dotted", "g", <<"a4">>, TRUE)>>, "calls"),
     Said(<<>>, <<>>, <<Call("plain", "f", <<"a1">>, TRUE),
                        Call("dotted", "g", <<"a2">>, FALSE)>>, "length")}
=============================================================================
