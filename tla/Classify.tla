------------------------------ MODULE Classify ------------------------------
(***************************************************************************)
(* internal/classify and internal/detect: what the parse tree of a query   *)
(* decides about its routing, compared with what the statement does when   *)
(* PostgreSQL executes it.                                                 *)
(*                                                                         *)
(* A tree node has a kind and, for a SELECT, its INTO and locking clauses; *)
(* "nodes" are the children the parser wraps in a Node (expressions,       *)
(* sub-selects, the queries of WITH) and "args" the two operands of a set  *)
(* operation, which it does not wrap.                                      *)
(***************************************************************************)
EXTENDS Integers, Sequences

CONSTANTS Depth,        \* how often the parser puts trees together
          Levels,       \* Levels[i]: the trees it has after i times
          Texts         \* what a Query message may hold: sequences of statements

VARIABLES query,   \* the query at hand: whether it parses, and its statements
          class,   \* what Classify returns; "idle" when there is no query
          breaks   \* what BreaksTxPooling reports

classifyVars == <<query, class, breaks>>
-----------------------------------------------------------------------------
(* Parse trees, as pg_query builds them: external *)

Trees == UNION {Levels[i] : i \in 1 .. Depth}

\* What stands inside a statement: queries, DML, and calls of functions that are
\* stable, volatile and named in volatileFuncs, or volatile and not named there.
Part(n) == n.kind \in {"select", "modify", "stable", "volatile", "unlisted"}
Stmt(n) == ~ (n.kind \in {"stable", "volatile", "unlisted"})

\* EXPLAIN without ANALYZE, with ANALYZE switched off (as in "ANALYZE false"), and on.
Explain(n) == n.kind \in {"explain", "explainoff", "explainanalyze"}

\* What n is put together from.
Children(n) == {n.nodes[k] : k \in DOMAIN n.nodes} \cup {n.args[k] : k \in DOMAIN n.args}

\* What PostgreSQL accepts: EXPLAIN takes a query, DML or CREATE TABLE AS; an INTO
\* belongs to a SELECT that is a statement, and with a set operation to its first
\* operand; the operands lock no rows. "copyto" is COPY ... TO.
Grammatical(n) ==
    /\ n.into \in BOOLEAN /\ n.locks \in BOOLEAN
    /\ n.kind # "select" => ~n.into /\ ~n.locks /\ n.args = <<>>
    /\ Explain(n) => DOMAIN n.nodes = {1} /\ n.nodes[1].kind \in {"select", "modify", "create"}
    /\ ~Explain(n) => \A k \in DOMAIN n.nodes : Part(n.nodes[k]) /\ ~n.nodes[k].into
    /\ n.kind = "show" => n.nodes = <<>>
    /\ n.args # <<>> => ~n.into /\ ~n.locks
    /\ \A k \in DOMAIN n.args : n.args[k].kind = "select" /\ ~n.args[k].locks
    /\ \A k \in DOMAIN n.args : n.args[k].into => k = 1

ASSUME ParserAssumption ==
    /\ Depth \in Nat
    /\ \A i \in 1 .. Depth :
         LET earlier == UNION {Levels[j] : j \in 1 .. i - 1}
         IN  \A n \in Levels[i] : Children(n) \subseteq earlier /\ Grammatical(n)
    /\ \A t \in Texts : \A k \in DOMAIN t : t[k] \in Trees /\ Stmt(t[k])

Unparsable == [parses |-> FALSE, stmts |-> <<>>]
Queries == {Unparsable} \cup {[parses |-> TRUE, stmts |-> t] : t \in Texts}

Some(q, P(_)) == \E i \in DOMAIN q.stmts : P(q.stmts[i])

ClassifyInit == query = Unparsable /\ class = "idle" /\ breaks = FALSE
-----------------------------------------------------------------------------
(* classify.go *)

\* walk: the Nodes below n; the operands of a set operation are passed through
\* without being visited themselves.
Below[n \in Trees] ==
    (UNION {{n.nodes[i]} \cup Below[n.nodes[i]] : i \in DOMAIN n.nodes})
    \cup UNION {Below[n.args[i]] : i \in DOMAIN n.args}

\* What writesInSubtree stops at.
Writes(n) == n.kind \in {"modify", "volatile"} \/ (n.kind = "select" /\ n.locks)

\* Mutant: only data-modifying statements are looked for.
writesInSubtreeModifies(root) == \E n \in {root} \cup Below[root] : n.kind = "modify"

writesInSubtree(root) == \E n \in {root} \cup Below[root] : Writes(n)

\* Mutant: ANALYZE is taken for granted.
explainExecutesAlways(n) == Explain(n)

\* The option is there; its value is not looked at.
explainExecutes(n) == n.kind \in {"explainoff", "explainanalyze"}

\* Mutant: SET is taken for a read, like SHOW.
readsOnlySet(n) ==
    \/ n.kind = "select" /\ ~n.into /\ ~writesInSubtree(n)
    \/ n.kind \in {"show", "set"}

\* A SELECT without INTO that writes nowhere, or a SHOW; anything else writes.
readsOnly(n) ==
    \/ n.kind = "select" /\ ~n.into /\ ~writesInSubtree(n)
    \/ n.kind = "show"

classifyStmt[n \in Trees] ==
    IF Explain(n)
    THEN IF explainExecutes(n) THEN classifyStmt[n.nodes[1]] ELSE "read"
    ELSE IF readsOnly(n) THEN "read" ELSE "write"

Classify(q) ==
    IF ~q.parses \/ Some(q, LAMBDA n : classifyStmt[n] = "write") THEN "write" ELSE "read"
-----------------------------------------------------------------------------
(* detect.go *)

breakingStmt(n) == n.kind \in {"prepare", "listen", "createtemp", "set"}

BreaksTxPooling(q) == ~q.parses \/ Some(q, breakingStmt)

\* serveRouting reads a Query message.
Ask ==
    /\ class = "idle" /\ class' = "none"
    /\ query' \in Queries /\ UNCHANGED breaks

\* serveRouting consults the detector only for a write.
Decide ==
    /\ class = "none"
    /\ class' = Classify(query)
    /\ breaks' = (class' = "write" /\ BreaksTxPooling(query))
    /\ UNCHANGED query

\* ... and has dealt with the query.
Dealt ==
    /\ class \in {"read", "write"}
    /\ query' = Unparsable /\ class' = "idle" /\ breaks' = FALSE

ClassifyNext == Ask \/ Decide \/ Dealt

ClassifySpec == ClassifyInit /\ [][ClassifyNext]_classifyVars
-----------------------------------------------------------------------------
(* What PostgreSQL does with a statement: the reference *)

\* What is executed when n is, n included; EXPLAIN without ANALYZE only plans.
Executed[n \in Trees] ==
    {n} \cup (UNION {Executed[m] : m \in
                       {c \in Children(n) : n.kind # "explain" /\ n.kind # "explainoff"}})

\* Executing n itself changes data or the state of the session or its transaction,
\* locks rows, or calls a volatile function.
Effect(n) ==
    \/ n.into \/ n.locks
    \/ ~Explain(n) /\ ~ (n.kind \in {"select", "stable", "show", "copyto"})

\* The effects of statement n that the classifier cannot see or does not look for:
\* a volatile function that is not in volatileFuncs, and the INTO of an operand.
Unseen(n, m) ==
    \/ m.kind = "unlisted"
    \/ m.into /\ \E p \in Executed[n] : \E k \in DOMAIN p.args : p.args[k] = m

\* Statements it takes for writes without need: COPY ... TO, and EXPLAIN with ANALYZE
\* switched off, of a statement with an effect.
Cautious(n) ==
    \/ n.kind = "copyto"
    \/ n.kind = "explainoff" /\ \E m \in Executed[n.nodes[1]] : Effect(m)
-----------------------------------------------------------------------------
(* Properties *)

\* The package comment: "anything it cannot prove is a safe read is treated as a
\* write". Of what executing a query that is routed as a read reaches, however deep
\* in a tree, nothing has an effect but calls of volatile functions outside
\* volatileFuncs and an INTO in an operand of a set operation.
ReadsAreSafe ==
    class = "read" =>
        /\ query.parses
        /\ \A i \in DOMAIN query.stmts : \A m \in Executed[query.stmts[i]] :
             Effect(m) => Unseen(query.stmts[i], m)

\* The converse, without which replicas would serve nothing: a query that parses and
\* is routed as a write has a statement whose execution has an effect, or which is one
\* of the two kinds that classifyStmt is cautious about.
WritesAreNeeded ==
    class = "write" =>
        \/ ~query.parses
        \/ Some(query, LAMBDA n : Cautious(n) \/ \E m \in Executed[n] : Effect(m))

\* serveRouting asks the detector about writes only; it misses nothing by that: a
\* query with a statement the detector breaks on pins its session.
PinsNotMissed == class \in {"read", "write"} => (breaks <=> BreaksTxPooling(query))
=============================================================================
