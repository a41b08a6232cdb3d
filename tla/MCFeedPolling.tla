---------------------------- MODULE MCFeedPolling ----------------------------
(* Instances of FeedPolling for TLC. *)
EXTENDS FeedPolling

CONSTANTS hourly

OneJob == {hourly}
TwoFeeds == {1, 2}
AllHourly == [f \in Feed |-> hourly]
AllList == [f \in Feed |-> Link]
Utm == {"utm"}
Sid == {"sid"}
AllButRecordReply == Fault \ {"recordReply"}

\* Two articles of one page; the second feed carries the first under a link of its own.
Budget == [scheme |-> "https", page |-> "news", params |-> {}]
Shared == [scheme |-> "http", page |-> "news", params |-> {"utm"}]
Second == [scheme |-> "https", page |-> "news", params |-> {"id"}]
SharedLinks == {Budget, Shared, Second}
SharedLists == [f \in Feed |-> IF f = 1 THEN {Budget, Second} ELSE {Shared}]

\* A story told apart by a parameter that once was stripped, which is taken for Budget.
Story == [scheme |-> "https", page |-> "news", params |-> {"sid"}]
StoryLinks == {Budget, Story}

\* The titles of two articles differ in one word.
TwoTitles == [u \in Url |-> IF u = Budget THEN {"a", "b", "c"} ELSE {"a", "b", "d"}]
WordBits == [w \in {"a", "b", "c", "d"} |->
               CASE w = "a" -> {1, 2} [] w = "b" -> {1, 3} [] w = "c" -> {2} [] w = "d" -> {3, 4}]
=============================================================================
