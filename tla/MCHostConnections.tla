-------------------------- MODULE MCHostConnections --------------------------
EXTENDS HostConnections, TLC
CONSTANTS w1, w2

Left(global, scoped, torn) == [global |-> global, scoped |-> scoped, torn |-> torn]
Bounds(k, c, p, e, s, f, g) ==
    [clients |-> k, codes |-> c, pairs |-> p, expired |-> e, stops |-> s, faults |-> f,
     granting |-> g, edits |-> FALSE]

Nothing == Left(FALSE, {}, {})
Global == Left(TRUE, {}, {})
Scoped == Left(FALSE, {w1}, {})
Mixed == Left(FALSE, {w1, w2}, {w1})
Both == Left(FALSE, {w1, w2}, {})

Connects(codes0, expired0) == Bounds(NewClients, codes0, 2, expired0, 1, 1, {})
Grants(clients0, expired0, stops0) == Bounds(clients0, 0, 0, expired0, stops0, 1, Workspaces)
Editing == [Bounds({}, 0, 0, 0, 1, 0, {Active}) EXCEPT !.edits = TRUE]

Cases ==
    {Connects(2, 2) @@ Nothing, Connects(0, 2) @@ Global, Connects(1, 1) @@ Scoped,
     Grants(NewClients, 2, 2) @@ Nothing, Grants({}, 2, 2) @@ Global, Grants({}, 2, 2) @@ Mixed,
     Grants({}, 1, 1) @@ Both, Editing @@ Global}

\* what Desktop announces, and what happens to the link
Announcement(kind, conversation, owner) == [kind |-> kind, conversation |-> conversation, owner |-> owner]
Announcements ==
    {Announcement("result", "c1", "o1"), Announcement("result", Nil, Nil),
     Announcement("news", "c1", "o2"), Announcement("news", Nil, "o1"),
     Announcement("refused", Nil, Nil), Announcement("torn", Nil, Nil),
     Announcement("stray", Nil, Nil), Announcement("bad", Nil, Nil)}
Link(drops, messages, posts, inherited) ==
    [drops |-> drops, messages |-> messages, posts |-> posts, inherited |-> inherited]
SomeLinks == {Link(1, 1, 1, 9), Link(1, 0, 2, Nil), Link(0, 2, 1, Nil)}

\* a conversation with an earlier answer, one where two steps fail, one where somebody else writes,
\* and one whose worker is stopped, also when it cannot launch again
SomeWorkers ==
    {[earlier |-> <<Message("user", Final), Message("assistant", Final)>>,
      stops |-> FALSE, failures |-> 1, answers |-> 1, others |-> 0],
     [earlier |-> <<>>, stops |-> FALSE, failures |-> 2, answers |-> 1, others |-> 0],
     [earlier |-> <<>>, stops |-> FALSE, failures |-> 0, answers |-> 1, others |-> 1],
     [earlier |-> <<>>, stops |-> TRUE, failures |-> 0, answers |-> 1, others |-> 0],
     [earlier |-> <<>>, stops |-> TRUE, failures |-> 1, answers |-> 0, others |-> 0]}

\* frames of each kind, with bodies that look like the beginning of another one
Frame(as, body) == [as |-> as, body |-> body]
SomeStreams ==
    {<<Frame("length", <<123>>), Frame("length", <<91, 10>>)>>, <<Frame("length", <<123, 32, 10, 4>>)>>,
     <<Frame("length", <<67, 1>>), Frame("line", <<123, 125>>)>>,
     <<Frame("header", <<123, 10>>), Frame("length", <<123>>)>>,
     <<Frame("line", <<123, 125>>), Frame("header", <<9>>)>>}
=============================================================================
