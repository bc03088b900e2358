----------------------------- MODULE MCPollJobs -----------------------------
(* Instances of PollJobs for TLC. *)
EXTENDS PollJobs, TLC

CONSTANTS news, talk, chat, r1, r2

Item(guid, url, art) == [guid |-> guid, url |-> url, art |-> art]

\* The second edition of news gives its first item another URL and picture and adds one
\* without a guid; talk and chat publish nothing.
OneFeedGrows == [p \in Podcasts |->
    IF p = news THEN <<<<Item(1, 1, 1)>>, <<Item(1, 2, 2), Item(NoGuid, 3, 1)>>>> ELSE <<<<>>>>]

FewerWithMore == <<2, 1, 1>>

\* A feed grows under runs without job rows, two jobs poll one silent feed, or one job
\* polls two.
GrowingFeed == followed = {news} /\ lastId = LastJob /\ trouble = 0
TwoJobs == followed = {talk} /\ lastId = 0 /\ trouble = MaxTrouble
TwoFeeds == followed = {talk, chat} /\ lastId = LastJob - 1 /\ trouble = 0
MCInit == Init /\ edition[news] = 1 /\ (GrowingFeed \/ TwoJobs \/ TwoFeeds)
MCSpec == MCInit /\ [][Next]_vars

LiveInit == Init /\ edition[news] = 1 /\ (GrowingFeed \/ TwoFeeds)
LiveSpec == LiveInit /\ [][Next]_vars /\ Fairness
=============================================================================
