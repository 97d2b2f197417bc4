----------------------------- MODULE MCManifest -----------------------------
(***************************************************************************)
(* Every manifest of two dylibs over a few sets of domains, one of three   *)
(* dylibs shaped like manifests/nplayer-3.13.0.json, and files that sort   *)
(* before it.                                                              *)
(***************************************************************************)
EXTENDS ManifestSelect, TLC

CONSTANTS A, B, x, y, z, f, g, ours, theirs

Api(s, sites) == [symbol |-> s, old |-> 0, sites |-> sites]
Domain(id, apis) == [id |-> id, apis |-> apis]

FA == Domain(A, <<Api(f, <<4, 8>>)>>)
Registries ==
    {<<FA, Domain(B, <<Api(g, <<12>>)>>)>>,             \* as it should be
     <<FA, Domain(B, <<Api(g, <<12, 8>>)>>)>>,          \* a site in both
     <<FA, Domain(B, <<Api(f, <<12>>)>>)>>,             \* a symbol in both
     <<FA, Domain(B, <<>>)>>,                           \* no API
     <<FA, Domain(B, <<Api(g, <<10>>)>>)>>,             \* not aligned
     <<FA, Domain(B, <<Api(g, <<>>), Api("0g", <<12>>)>>)>>, \* no identifier
     <<FA, FA>>}                                        \* an id twice

Carried == {<<>>, <<A>>, <<B>>, <<A, B>>, <<B, B>>, <<z>>}
Dylib(id, ds, cs) == [id |-> id, basename |-> id, domains |-> ds, conflicts |-> cs]
Accented == [Dylib(x, <<A>>, {}) EXCEPT !.basename = g]

Manifest(reg, dylibs, def) == [hash |-> ours, domains |-> reg, dylibs |-> dylibs, defaults |-> def]

Pairs ==
    {Manifest(reg, <<Dylib(x, d, c), Dylib(i, e, k)>>, def) :
        reg \in Registries, d \in Carried, e \in Carried \ {<<z>>},
        c \in {{}, {y}, {x}, {y, z}}, k \in {{}, {x}}, i \in {x, y},
        def \in {<<>>, <<x>>, <<x, y>>, <<z>>}}

\* z is the full dylib, x and y the parts it replaces.
Full ==
    {Manifest(<<FA, Domain(B, <<Api(g, <<12>>)>>)>>,
        <<Dylib(x, <<A>>, c), Dylib(y, <<B>>, {z}), Dylib(z, <<B, A>>, {x, y} \cap k)>>, def) :
        c \in {{}, {z}}, k \in {{y}, {x, y}}, def \in {<<z>>, <<y, x>>}}

Theirs == [hash |-> theirs, domains |-> <<FA>>, dylibs |-> <<Dylib(x, <<A>>, {})>>, defaults |-> <<x>>]
Broken == [Theirs EXCEPT !.defaults = <<y>>]

Files ==
    {<<m>> : m \in Pairs \cup Full}
        \cup {<<Theirs, m>> : m \in Full} \cup {<<Broken, m>> : m \in Full} \cup {<<m, Broken>> : m \in Full}
        \cup {<<Manifest(<<FA>>, <<Accented>>, <<x>>)>>}
        \cup {<<Theirs, m, n>> : m \in Full, n \in Full} \cup {<<>>}
Asked == {Null, <<>>, <<x>>, <<y, x, y>>, <<x, z>>}
=============================================================================
