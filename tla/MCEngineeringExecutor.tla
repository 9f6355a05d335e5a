------------------------ MODULE MCEngineeringExecutor ------------------------
(***************************************************************************)
(* Three tasks over two files.  A generic task that names a may write a    *)
(* only, one that names nothing may write both, and a devops task that     *)
(* names a is unassigned.                                                  *)
(***************************************************************************)
EXTENDS EngineeringExecutor

MCTasks == 1 .. 3
MCFiles == {"a", "b"}
MCRoles == {"generic", "devops"}
MCCeiling == [r \in MCRoles |-> IF r = "generic" THEN MCFiles ELSE {"b"}]
MCForbidden == [r \in MCRoles |-> IF r = "generic" THEN {} ELSE {"a"}]
MCBeside == [f \in MCFiles |-> {f}]

NamesA == [role |-> "generic", paths |-> {"a"}]
NamesNothing == [role |-> "generic", paths |-> {}]
Misassigned == [role |-> "devops", paths |-> {"a"}]

PlansOver(D, Profiles) ==
    {[t \in D |-> [role |-> prof[t].role, paths |-> prof[t].paths, deps |-> deps[t]]] :
        prof \in [D -> Profiles],
        deps \in {e \in [D -> SUBSET MCTasks] : \A t \in D : t \notin e[t]}}

\* Every dependency graph over two tasks, dangling dependencies included, and
\* over three, cyclic ones included.
MCPlans == PlansOver(1 .. 2, {NamesA, NamesNothing, Misassigned})
             \cup PlansOver(1 .. 3, {NamesA, Misassigned})
=============================================================================
