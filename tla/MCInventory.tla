------------------------------ MODULE MCInventory ------------------------------
EXTENDS Inventory

MCKeys == {"k", "k/a", "k/b", "k/a/c"}
MCUp == [k \in MCKeys |-> IF k = "k/a/c" THEN "k/a" ELSE "k"]
MCNodes == {"p", "p/s", "q"}
MCParent == [n \in MCNodes |-> IF n = "q" THEN "q" ELSE "p"]
MCLists == {<<"p">>, <<"q", "p">>}

O(multiple, recursive, redetect, polled) ==
    [multiple |-> multiple, recursive |-> recursive, redetect |-> redetect, polled |-> polled]
MCOptions == {O(TRUE, FALSE, TRUE, FALSE), O(FALSE, TRUE, TRUE, FALSE), O(TRUE, TRUE, FALSE, TRUE)}

D(dirs, holding) == [dirs |-> dirs, items |-> holding]
MCDisks == {D(MCNodes, {"p/s"}), D({"p", "q"}, {"p", "q"})}

\* What there is at first: the second of the disks, no registry key, an engine
\* that looks for many, is told of each that it found and does not poll.
F(opts, disks, hives) == [options |-> opts, disks |-> disks, hives |-> hives]
Many == {O(TRUE, FALSE, TRUE, FALSE)}
Flat == {D({"p", "q"}, {"p", "q"})}
MCConfigured ==
    "disk"  :> F(Many \cup {O(FALSE, TRUE, TRUE, FALSE)}, MCDisks, {{}}) @@
    "stop"  :> F(Many, Flat, {{}}) @@
    "paths" :> F({O(FALSE, TRUE, TRUE, FALSE)}, Flat, {{}}) @@
    "poll"  :> F({O(TRUE, TRUE, FALSE, TRUE)}, Flat, {{}}) @@
    "keys"  :> F({O(FALSE, TRUE, TRUE, FALSE)}, Flat, {{}, MCKeys}) @@
    "pm"    :> F(Many, Flat, {{}})
================================================================================
