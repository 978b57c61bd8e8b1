---------------------------- MODULE MCQueueShelf ----------------------------
(* Queues with rows of the floor, of the volume and of the network, one of *)
(* them gone, and the player before, on and off the rows of the volume.    *)
EXTENDS QueueShelf

U(t, f) == [tree |-> t, file |-> f]
Volume == <<U("old", "x"), U("internal", "a"), U("old", "y")>>
Short == <<U("internal", "a"), U("old", "x")>>
Mixed == <<U("old", "x"), U("internal", "gone"), U("net", "s")>>

MCQueues == {[uris |-> Volume, cur |-> 1, play |-> "play", volume |-> "old"],
             [uris |-> Short, cur |-> 2, play |-> "pause", volume |-> "old"],
             [uris |-> Short, cur |-> 2, play |-> "pause", volume |-> "new"],
             [uris |-> Mixed, cur |-> 0, play |-> "stop", volume |-> "none"]}
MCSelections == {<<U("net", "s"), U("net", "t")>>}
Edits == {"move", "delete", "clear", "replace", "refill", "load"}
MCAllowed == [v \in Verbs |->
                CASE v = "rename" -> {"other", "busy", "deadline"} \cup RenameFailures
                  [] v \in Edits -> Events \ {"yank", "advance"}
                  [] OTHER -> Events]
=============================================================================
