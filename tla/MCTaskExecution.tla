--------------------------- MODULE MCTaskExecution ---------------------------
(* Three tasks: independent ones, a chain, a join, and a plan that is       *)
(* circular but for its first task.                                         *)
EXTENDS TaskExecution

Independent == <<{}, {}, {}>>
Chain == <<{}, {1}, {2}>>
Join == <<{}, {}, {1, 2}>>
Circular == <<{}, {3}, {2}>>

WithGit(graphs) == [dependsOn : graphs, git : {TRUE}]
WithoutGit(graphs) == [dependsOn : graphs, git : {FALSE}]

SomeProjects ==
    WithGit({Independent, Chain, Join, Circular}) \cup WithoutGit({Chain, Join, Circular})
IndependentInGit == WithGit({Independent})
=============================================================================
