---------------------------- MODULE MCCollectors ----------------------------
(* The collectors on small instances. *)
EXTENDS Collectors

Names == {"inbox", "mail", "calendar", "todo", "chat", "channels", "summaries", "previous", "report",
          "tasks", "ann", "cat", "dev", "ops", "none"}

X(box, own, at) ==
  [box |-> box, own |-> own, at |-> at, form |-> "plain", holds |-> "none", under |-> None,
   lists |-> {}, hosted |-> FALSE]
Box(box, own, at, holds) == [X(box, own, at) EXCEPT !.form = "box", !.holds = holds]

\* Two mails of one instant and one of the next, one that cannot be parsed.
Mails == <<X("inbox", 1, 1), X("inbox", 2, 0), [X("inbox", 3, 0) EXCEPT !.form = "broken"]>>

\* A mailbox that may outgrow its pages, and two chats whose messages share an
\* id; the second shows no preview.
Tenant ==
  <<X("mail", 1, 0), X("mail", 2, 0), X("mail", 7, 1), X("calendar", 3, 0),
    Box("todo", 4, 0, "tasks"), X("tasks", 5, 1),
    Box("chat", 6, 0, "ann"), Box("chat", 9, None, "cat"),
    X("ann", 8, 0), X("cat", 8, 1)>>

\* Two channels with a message of the same instant, a thread and a join; the first
\* may outgrow its pages.
Workspace ==
  <<Box("channels", 1, 0, "dev"), Box("channels", 2, 0, "ops"),
    X("dev", 3, 1), X("dev", 4, 0), X("dev", 7, 1), [X("dev", 5, 1) EXCEPT !.under = 4],
    X("ops", 4, 0), [X("ops", 6, 0) EXCEPT !.form = "noise"]>>

\* A meeting of the user's, one joined only, and an instant one: a page more than
\* the report may have.
Meetings ==
  <<[X("previous", 1, 0) EXCEPT !.hosted = TRUE, !.lists = {"previous", "report"}],
    [X("previous", 2, 0) EXCEPT !.lists = {"report"}],
    [X("previous", 3, 1) EXCEPT !.hosted = TRUE, !.lists = {"report"}]>>

SmallWorld == [gmail |-> Mails, m365 |-> Tenant, slack |-> Workspace, zoom |-> Meetings]
Pages == [gmail |-> 3, m365 |-> 2, slack |-> 2, zoom |-> 2]
=============================================================================
