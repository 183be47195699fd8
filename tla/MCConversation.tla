----------------------------- MODULE MCConversation -----------------------------
(***************************************************************************)
(* A small instance of Conversation: two requests that may open a socket   *)
(* each, a route that passes calls on in front of each of the others.      *)
(***************************************************************************)
EXTENDS Conversation, TLC

MCKind == [guard |-> "pass", wait |-> "pass", data |-> "data", feed |-> "subscribe", tail |-> "stream",
           sub |-> "nested", fault |-> "throw"]
MCMatches == [guard |-> {1, 2}, wait |-> {1}, data |-> {1}, feed |-> {1, 2}, tail |-> {2},
              sub |-> {2}, fault |-> {2}]
MCFilter == 1 :> "all" @@ 2 :> "k1"

None == [root |-> <<>>, sub |-> <<>>]
MCInitialRoutes ==
    [connect |-> [None EXCEPT !.root = <<"guard", "data">>],
     feed    |-> [None EXCEPT !.root = <<"wait", "feed">>],
     stream  |-> [None EXCEPT !.root = <<"guard", "sub">>, !.sub = <<"tail">>],
     routes  |-> [None EXCEPT !.root = <<"guard", "data", "sub">>, !.sub = <<"guard", "fault">>]]
=============================================================================
