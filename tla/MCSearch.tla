------------------------------ MODULE MCSearch ------------------------------
(* Instance of Search for TLC: the title "A", found as "a", and "ab", which  *)
(* begins with it.                                                           *)
EXTENDS Search

MCFold == [t \in {"A", "ab"} |-> IF t = "ab" THEN <<1, 2>> ELSE <<1>>]
MCContent == {[title |-> "A", type |-> "task", parent |-> 1, story |-> 1],
              [title |-> "ab", type |-> "note", parent |-> 2, story |-> 2]}

All == [title |-> NotGiven, prefix |-> NotGiven, type |-> NotGiven, parent |-> NotGiven,
        story |-> NotGiven, sort |-> "updated_at_desc", size |-> 1]

(* Every sort, strategy and filter, and the requests that are refused.       *)
MCQuery ==
    {[All EXCEPT !.sort = s] : s \in Sorts \cup {NotGiven}}
    \cup {[All EXCEPT !.size = 2], [All EXCEPT !.title = <<1>>], [All EXCEPT !.prefix = <<1>>],
          [All EXCEPT !.type = "note"], [All EXCEPT !.parent = 2], [All EXCEPT !.story = 1]}
    \cup {[All EXCEPT !.size = 0], [All EXCEPT !.size = 3], [All EXCEPT !.title = << >>],
          [All EXCEPT !.prefix = << >>], [All EXCEPT !.title = <<1>>, !.prefix = <<1>>]}
=============================================================================
