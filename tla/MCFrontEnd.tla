----------------------------- MODULE MCFrontEnd -----------------------------
(* Instances of FrontEnd for TLC. *)
EXTENDS FrontEnd, TLC

MCNames == {"", "ann", "bob"}
MCPasswords == {"", "p"}

\* A file with nothing but what is required.
Plain == [listen |-> "here", primary |-> "pg", replicas |-> 0,
          users |-> <<[name |-> "ann", password |-> "p"]>>]
         @@ Zero

Entries == [name : MCNames, password : MCPasswords]

\* Every list of up to two users; one file for each way to fill or break a field.
MCFiles ==
    {Invalid, [Plain EXCEPT !.listen = ""], [Plain EXCEPT !.primary = ""],
     [Plain EXCEPT !.users = <<>>], [Plain EXCEPT !.replicas = 1]}
    \cup {[Plain EXCEPT !.users = <<e>>] : e \in Entries}
    \cup {[Plain EXCEPT !.users = <<e, f>>] : e \in Entries, f \in Entries}
    \cup {[Plain EXCEPT !.mode = m] : m \in {"transaction", "pool"}}
    \cup {[Plain EXCEPT !.maxSize = n] : n \in {-1, 1}}
    \cup {[Plain EXCEPT !.fencing = m] : m \in {"bounded", "loose"}}
    \cup {[Plain EXCEPT !.policy = m] : m \in {"scored", "random"}}
    \cup {[Plain EXCEPT !.interval = -1, !.failureThreshold = -1, !.baseBackoff = -1,
                        !.maxBackoff = -1, !.acquireTimeout = -1, !.idleTimeout = -1]}
-----------------------------------------------------------------------------
(* Statements with up to two levels of expressions and sub-selects *)

Node(kind, into, locks, nodes, args) ==
    [kind |-> kind, into |-> into, locks |-> locks, nodes |-> nodes, args |-> args]

Simple(kind) == Node(kind, FALSE, FALSE, <<>>, <<>>)
Kinds(kinds) == {Simple(k) : k \in kinds}

AtMostOne(nodes) == {<<>>} \cup {<<n>> : n \in nodes}

\* SELECTs over the given children: plain, locking rows, and joined by UNION.
Selects(nodes) == {Node("select", FALSE, l, ns, <<>>) : l \in BOOLEAN, ns \in AtMostOne(nodes)}
Unions(nodes, first) ==
    {Node("select", FALSE, FALSE, ns, <<f, s>>) :
        ns \in AtMostOne(nodes), f \in first, s \in {t \in Selects(nodes) : ~t.locks}}

Inner == Kinds({"stable", "volatile", "unlisted", "modify"})
\* A function call with an argument, or a statement with an expression.
Calls == {Node(k, FALSE, FALSE, <<n>>, <<>>) : k \in {"stable", "modify"}, n \in Inner}
Middle == Inner \cup Calls \cup Selects(Inner) \cup Unions(Inner, Kinds({"select"}))

\* SELECT ... INTO, alone and as the first operand of a UNION and of a UNION in one.
Into(selects) == {[s EXCEPT !.into = TRUE] : s \in {t \in selects : ~t.locks}}
IntoFirst == Unions(Kinds({"stable"}), Into(Kinds({"select"})))
IntoDeep == Unions(Kinds({"stable"}), IntoFirst)

Others ==
    Kinds({"show", "begin", "create", "prepare", "listen", "createtemp", "set", "setlocal", "copyto"})
Explained == Selects(Middle) \cup Into(Selects(Middle)) \cup IntoFirst \cup Kinds({"modify", "create"})
Explains(stmts) ==
    {Node(k, FALSE, FALSE, <<s>>, <<>>) :
        k \in {"explain", "explainoff", "explainanalyze"}, s \in stmts}

MCLevels ==
    <<Inner \cup Others \cup Selects({}) \cup Into(Selects({})),
      Calls \cup Selects(Inner),
      Unions(Inner, Kinds({"select"})) \cup IntoFirst,
      Selects(Middle) \cup Into(Selects(Middle)) \cup IntoDeep,
      Unions(Middle, Kinds({"select"})),
      Explains(Explained)>>

Short == Others \cup Kinds({"modify"}) \cup Selects({}) \cup Explains(Kinds({"modify", "select"}))

MCTexts ==
    {<<>>} \cup {<<s>> : s \in Explained \cup Unions(Middle, Kinds({"select"})) \cup IntoDeep
                                 \cup Others \cup Explains(Explained)}
    \cup {<<s, t>> : s \in Short, t \in Short}
=============================================================================
