------------------------------ MODULE MCStartup ------------------------------
(* Startup for TLC: floppies whose files have their clusters in any order, in  *)
(* a table whose entries lie across sectors of four bytes; disks with two      *)
(* slots, chains of up to one volume too many, in any order, and root volumes  *)
(* of 0 to 3 clusters of map.                                                  *)
EXTENDS Startup, FiniteSets

\* LOADER.BIN and KERNEL.BIN at any places of the directory, or missing
Names == {names \in [1 .. 4 -> {"LOADER", "KERNEL", "OTHER"}] :
            \A name \in {"LOADER", "KERNEL"} :
                Cardinality({n \in 1 .. 4 : names[n] = name}) <= 1}

Chains(clusters, n) ==
    UNION {{f \in [1 .. m -> clusters] : Cardinality({f[k] : k \in 1 .. m}) = m} : m \in 1 .. n}

SomeFloppies ==
    {[names |-> names, chain |-> [LOADER |-> loader, KERNEL |-> kernel]] :
        names \in Names, loader \in {<<2>>, <<5, 2>>}, kernel \in Chains({3, 4, 6, 7}, 4)}

Empty2 == [sys_id |-> "NO_PART", base |-> 0, size |-> 0, volumes |-> <<>>, tables |-> <<>>]
Primary(base) == [Empty2 EXCEPT !.sys_id = "PART", !.base = base, !.size = 9]

\* Tables 10 sectors apart, the first where the partition begins
Extended(base, root) ==
    {[sys_id |-> "EXT_PART", base |-> base, size |-> 50,
      tables |-> <<base>> \o [k \in 1 .. Len(order) |-> base + 10 * order[k]],
      volumes |-> [k \in 1 .. Len(order) + 1 |->
            [base |-> 1 + base + IF k = 1 THEN 0 ELSE 10 * order[k - 1],
             size |-> IF k = 1 THEN root ELSE k]]] :
        order \in {<<>>} \cup Chains(1 .. NrSub, NrSub)}

SomeDisks ==
    {[size |-> 200, slots |-> <<one, two>>] :
        one \in {Empty2, Primary(20)} \cup Extended(20, 5),
        two \in {Empty2, Primary(120)} \cup UNION {Extended(120, root) : root \in {7, 8, 17, 26}}}
=============================================================================
