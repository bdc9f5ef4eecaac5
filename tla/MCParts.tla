------------------------------ MODULE MCParts ------------------------------
(***************************************************************************)
(* An instance of every small machine, and the values whose encoding is    *)
(* checked.                                                                *)
(***************************************************************************)
EXTENDS Parts, TLC, FiniteSetsExt

\* Two closures whose texts differ in two characters and not in their hash, and
\* a third, at one call site.
SampleTexts == 1 :> <<65, 98>> @@ 2 :> <<103>> @@ 3 :> <<66, 65>>

\* Graphs of three nodes with two fields; the root names both others, or one of
\* them twice, or itself.
SampleGraphs == {[n \in {"r", "a", "b"} |-> CASE n = "r" -> x [] n = "a" -> y [] n = "b" -> z] :
                   x \in {<<"a", "b">>, <<"a", "a">>, <<"r", "a">>},
                   y \in {<<"r", "b">>, <<"null", "null">>}, z \in {<<"a", "r">>, <<"v", "null">>}}

\* Two sources that write one cell and one that writes the other.
SampleWrites == [s |-> "a", u |-> "b", w |-> "a"]

\* Two cards, the id of one is the key of the other's code.
SampleNames == 1 :> <<"k">> @@ 2 :> <<"k", "code">>
SampleSent     == {[kind |-> "text", of |-> "x"], [kind |-> "text", of |-> "42"]}
SampleComputed == {[kind |-> "graph", nodes |-> ("n" :> None), edges |-> {}]}

\* What values and codes are built of.
Shape == INSTANCE GunCodec WITH Values <- {}, Encoded <- {}, Rank <- <<>>

\* Values, nested three deep.
Symbol == Shape!Element("symbol", Shape!Atom("x"))
Number == Shape!Element("number", Shape!Atom("1"))
List   == Shape!Element("list", [kind |-> "list"])
Few    == {Shape!Atom("s"), Shape!Primitive("mine")}
Small  == Few \union {Shape!Atom("type"), Shape!Object, Shape!CellRef("c"), Shape!Primitive("+"), Symbol, List}
Maps(K, S)   == {Shape!MapOf(f) : f \in UNION {[k -> S] : k \in SUBSET K}}
Layers(B, K) == {Shape!Layered(b, f) : b \in B, f \in UNION {[k -> Few] : k \in SUBSET K}}
Bodies == {<<Symbol>>, <<Number, List>>}
Wide == Small \union Maps({"k", "type"}, Small) \union Maps({"k", "type", "_"}, Few)
          \union {Shape!SetOf(S) : S \in SUBSET {Shape!Atom("s"), Shape!Atom("type"), Shape!Atom("_"), Shape!CellRef("c")}}
          \union Layers(Few \union {Shape!Object, List}, {"vector_clock", "support", "other"})
          \union {Shape!Closure("e", <<b>>) : b \in Bodies} \union {Shape!Closure("e", <<b, c>>) : b, c \in Bodies}
          \union {Shape!Neighbor("p", "updated")}
Deep == Wide \union Maps({"k"}, Wide) \union Layers(Wide, {"support"})
                  \union {Shape!MapOf([k |-> v, value |-> w]) : v \in Wide, w \in Few}
                  \union {Shape!MapOf([type |-> w, value |-> v]) : v \in Wide, w \in Few}
                  \union {Number, Symbol.value, Number.value, List.value, Shape!Atom("_")}
SampleValues == Deep   \* so that TLC builds the set once

Storing == INSTANCE GunCodec WITH Values <- Deep, Encoded <- {}, Rank <- <<>>

\* What they are stored as, what is in their texts, and references to their cells.
Coded ==
  LET code  == Storing!encode
      coded == {code[v] : v \in SampleValues}
  IN  coded \union {e.object : e \in {f \in coded : f.json = "text"}} \union {Shape!encode_cell_reference("c")}
SampleEncoded == Coded

RECURSIVE Height(_)
Height(x) ==
  LET parts == IF "kind" \in DOMAIN x THEN Shape!PartsOf(x) ELSE Shape!PartsOfCode(x)
  IN  IF parts = {} THEN 0 ELSE 1 + Max({Height(p) : p \in parts})
Heights    == [x \in Deep \union Coded |-> Height(x)]
SampleRank == Heights

-----------------------------------------------------------------------------
\* The call sites, with the other machines at rest.
SitesOnly == Spec /\ part = "sites"
=============================================================================
