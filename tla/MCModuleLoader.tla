--------------------------- MODULE MCModuleLoader ---------------------------
(* Programs of three files for ModuleLoader: every way two requests of the  *)
(* entry and one of each other file can be written, with bodies that pause, *)
(* fail, assign module.exports or form cycles, a data file and a mock.      *)
EXTENDS ModuleLoader

CONSTANTS e, a, b

File(m) == [kind |-> "file", of |-> m]
Up(m) == [kind |-> "up", of |-> m]
S(op, spec) == [op |-> op, spec |-> spec]
Do(op) == S(op, File(e))

Code(source, await) ==
    [ext |-> "js", malformed |-> FALSE, mentionsAwait |-> await, source |-> source]
Data(ext, bad, await) ==
    [ext |-> ext, malformed |-> bad, mentionsAwait |-> await, source |-> <<>>]

EntrySources ==
    {<<S(x, File(a)), S(y, File(m))>> : x \in Requests, y \in Requests, m \in {a, b}}
MiddleTexts ==
    {Code(<<S(x, File(b)), Do("assign")>>, w) : x \in Requests, w \in BOOLEAN}
    \cup {Code(<<S("spawn", File(b)), Do("pause"), Do("throw")>>, FALSE),
          Code(<<Do("pause"), S("require", File(b))>>, TRUE)}
LeafTexts ==
    {Code(<<S(x, File(a))>>, FALSE) : x \in Requests}
    \cup {Code(<<Do("assign"), S("require", File(e))>>, FALSE), Code(<<Do("throw")>>, FALSE),
          Code(<<Do("pause")>>, FALSE), Data("json5", TRUE, FALSE)}
Graphs ==
    {(e :> Code(s, FALSE)) @@ (a :> m) @@ (b :> l) :
        s \in EntrySources, m \in MiddleTexts, l \in LeafTexts}

(* A data file, with "await " in its data or without, reached by two       *)
(* paths, names without a file, and a module     *)
(* that is mocked before, between or after its imports.                     *)
Others ==
    {(e :> Code(<<S(x, File(b)), S(y, s), S("spawn", [kind |-> k, of |-> e])>>, FALSE))
        @@ (a :> Code(<<>>, FALSE)) @@ (b :> Data(x2, bad, w)) :
        x \in Requests, y \in Requests, s \in {Up(b), File(b)},
        k \in {"builtin", "missing"}, x2 \in {"json", "toml", "asset"}, bad \in BOOLEAN,
        w \in BOOLEAN}
    \cup
    {(e :> Code(<<S(x, File(a)), S("mock", s), S(y, File(a)), S(x, Up(a))>>, FALSE))
        @@ (a :> Code(<<S("mock", File(a)), Do("assign")>> \o p, w)) @@ (b :> Data("text", FALSE, FALSE)) :
        x \in Requests, y \in Requests, s \in {File(a), Up(a), File(b)},
        p \in {<<>>, <<Do("pause")>>}, w \in BOOLEAN}

AllPrograms == Graphs \cup Others
=============================================================================
