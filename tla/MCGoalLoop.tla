----------------------------- MODULE MCGoalLoop -----------------------------
(* TLC instance of GoalLoop: two files, each old (0), new (1), or broken (2). *)
EXTENDS GoalLoop

File(a, b) == [f \in {"a", "b"} |-> IF f = "a" THEN a ELSE b]

MCBase == File(0, 0)

(* Goal 1 wants exactly one of the files changed, goal 2 wants b changed,  *)
(* and the later goals are content with what goal 2 leaves: goal 2 can     *)
(* break goal 1 without touching its file, and goals 3 and 4 need no change*)
(* of their own.                                                           *)
MCPassing ==
    [g \in 1 .. GoalCount |->
        CASE g = 1 -> {File(1, 0), File(0, 1)}
          [] OTHER -> {File(0, 1), File(1, 1)}]

MCCompiling == [{"a", "b"} -> {0, 1}]
MCContents == MCCompiling \cup {File(2, 1)}
MCInheritable == {File(1, 1)}
=============================================================================
