------------------------------- MODULE SbomMC -------------------------------
EXTENDS Sbom

Package(name, deps) ==
    [name |-> name, version |-> 1, source |-> "registry", named |-> TRUE, deps |-> deps,
     hashes |-> {"sha256"}]

Root(deps) == [Package("root", deps) EXCEPT !.source = "virtual", !.hashes = {}]

\* Production roots, chains, cycles, and a dev package that shares some.
MCLocks ==
    {<<Root(r), Package("a", a), Package("b", b), Package("c", c), Package("dev", d)>> :
        r \in {{"a"}, {"a", "b"}}, a \in SUBSET {"b", "c"}, b \in SUBSET {"a", "c"},
        c \in {{}, {"a"}}, d \in {{"c"}}}
    \union
    \* A name nothing describes, a hashless package, a nameless one, a local one, two versions.
    {<<Root({"a"}), Package("a", {"lost"})>>,
     <<Root({"a"}), [Package("a", {}) EXCEPT !.hashes = {}]>>,
     <<Root({"a"}), Package("a", {}), [Package("b", {}) EXCEPT !.named = FALSE]>>,
     <<Root({"a"}), Package("a", {}), [Package("b", {"a"}) EXCEPT !.source = "path"]>>,
     <<Root({"a"}), Package("a", {"b"}), [Package("a", {}) EXCEPT !.version = 2], Package("b", {})>>,
     <<Root({"a"}), [Package("a", {"b"}) EXCEPT !.source = "unsaid"], Package("b", {})>>}

=============================================================================
