----------------------------- MODULE MCSession -----------------------------
(* A small instance of Session for TLC. *)
EXTENDS Session

(* "a-" and "a_" have one SQL name but two directories; "1A" is not an     *)
(* identifier, and filed in lower case.                                    *)
dash == <<"a", "-">>
underscore == <<"a", "_">>
digit == <<"1", "A">>

AllTopics == {dash, underscore, digit}

CreatedNames == {<<"t">>}

Small == [c \in {"a", "A"} |-> "a"]

Object(i, columns) == [id |-> i, columns |-> columns]
K == [c \in {"k"} |-> "int"]
F == [c \in {"k"} |-> "float"]
T == [c \in {"k"} |-> "text"]
N == [c \in {"k"} |-> Null]
KV == [c \in {"k", "v"} |-> "int"]

One(i, columns) == Payload(<<Object(i, columns)>>)

(* The first topic varies, the others hold one record each. *)
Log(first) ==
    [t \in AllTopics |->
        CASE t = dash -> first
          [] t = underscore -> <<One("u1", T)>>
          [] t = digit -> <<One("n1", KV)>>]

AllContents ==
    { Log(first) : first \in
        { <<One("d1", K), One("d2", KV)>>,
          <<One("d1", K), One("d2", T)>>,
          <<One("d1", F), One("d2", K)>>,
          <<One("d1", N), One("d2", K)>>,
          <<Tombstone, One("d2", KV)>>,
          <<Payload(<<Object("d1", K), Object("d2", K)>>), One("d3", K)>>,
          <<PrettyPrinted(Object("d1", K)), One("d2", K)>>,
          <<One("d1", T), PrettyPrinted(Object("d2", T))>>,
          <<One("d1", K), Unparsable>> } }

Query(topics, reuse, sample, fmt, select, where) ==
    [kind |-> "query", topics |-> topics, reuse |-> reuse, explain |-> FALSE,
     sample |-> sample, format |-> fmt, select |-> select, where |-> where]

Repl1(topics, fmt) ==
    [Query(topics, FALSE, 2, fmt, <<>>, TRUE) EXCEPT !.kind = "repl"]

AllInvocations ==
    {Query(<<dash>>, reuse, sample, "csv", <<"a", "_">>, TRUE) :
        reuse \in BOOLEAN, sample \in 0 .. 2}
    \cup {Query(<<underscore>>, TRUE, 1, fmt, <<"a", "_">>, TRUE) : fmt \in {"table", "json"}}
    \cup {Query(ts, TRUE, 3, "ndjson", <<"a", "_">>, where) :
            ts \in {<<dash, digit>>, <<dash, underscore>>}, where \in BOOLEAN}
    \cup {[Query(<<digit>>, FALSE, 1, "table", n, TRUE) EXCEPT !.explain = TRUE] :
            n \in {<<"1", "A">>, <<"_", "1", "a">>}}
    \cup {Repl1(<<dash>>, "csv"), Repl1(<<digit, underscore>>, "table")}
=============================================================================
