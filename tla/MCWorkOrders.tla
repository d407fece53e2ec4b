---------------------------- MODULE MCWorkOrders ----------------------------
(* Instances of WorkOrders for model checking.                              *)
EXTENDS WorkOrders, TLC

OneEpisode == 1..1
TwoEpisodes == 1..2
OneAlarm == {1}

\* Only their identity tells pages and workers of one kind apart.
Interchangeable == Permutations(Tabs) \cup Permutations(Senders)
                     \cup Permutations(Pollers)
=============================================================================
