------------------------------ MODULE GunCodec ------------------------------
(***************************************************************************)
(* What becomes of a value on its way through Gun: gun_db_schema_encode,   *)
(* put and gun_resolve, gun_db_schema_decode (DB/serialize/encode.ts,      *)
(* gun_resolve.ts, decode.ts, schemas/).                                   *)
(*                                                                         *)
(* Encoded values are leaves, objects with named fields, and texts that    *)
(* hold an object as JSON.  Cells and propagators go by their ids; a value *)
(* that cannot be decoded is Nothing, and a decoder that throws yields     *)
(* Thrown.                                                                 *)
(***************************************************************************)
EXTENDS Naturals, Sequences, Functions

CONSTANTS KnownPrimitives,   \* the names in primitive_registry
          Values, Encoded,   \* values and what they are stored as, with everything in them
          Rank               \* how deep they are nested

Atom(x)        == [kind |-> "atom", is |-> x]
Object         == [kind |-> "object"]
CellRef(id)    == [kind |-> "cell", id |-> id]
MapOf(entries) == [kind |-> "map", entries |-> entries]
SetOf(members) == [kind |-> "set", members |-> members]
Layered(base, layers)  == [kind |-> "layered", base |-> base, layers |-> layers]
Element(type, held)    == [kind |-> "element", type |-> type, value |-> held]
Closure(env, body)     == [kind |-> "closure", env |-> env, body |-> body]
Primitive(name)        == [kind |-> "primitive", name |-> name]
Neighbor(prop, type)   == [kind |-> "neighbor", prop |-> prop, type |-> type]

Written(text)  == [kind |-> "written", text |-> text]   \* an encoded object, as a string

Nothing == Atom("nothing")
Thrown  == [kind |-> "thrown"]

Leaf(x)  == [json |-> "leaf", is |-> x]
Obj(f)   == [json |-> "object", fields |-> f]
Text(o)  == [json |-> "text", object |-> o]
List(s)  == [json |-> "list", items |-> s]

PlainObject    == [json |-> "plain"]   \* an object or an array that is no schema

\* Fields that are written over others.
Over(f, g) == [k \in DOMAIN f \union DOMAIN g |-> IF k \in DOMAIN f THEN f[k] ELSE g[k]]
Tag(t)     == [type |-> Leaf(t)]

-----------------------------------------------------------------------------
(* Values.                                                                 *)

\* identify_by: what a member of a set is stored under.
identify_by(v) == IF v.kind = "atom" THEN v.is ELSE v.id

PartsOf(v) ==
  CASE v.kind = "map"     -> Range(v.entries)
    [] v.kind = "set"     -> v.members
    [] v.kind = "layered" -> Range(v.layers) \union {v.base}
    [] v.kind = "element" -> {v.value}
    [] v.kind = "closure" -> Range(v.body[1])
    [] OTHER -> {}

\* The members of a set are told apart by what they are stored under; no layer
\* is named like the base or the tag.
IsValue(v) ==
  CASE v.kind = "atom"      -> v = Atom(v.is)
    [] v.kind = "object"    -> v = Object
    [] v.kind = "list"      -> v = [kind |-> "list"]
    [] v.kind = "cell"      -> v = CellRef(v.id)
    [] v.kind = "map"       -> v = MapOf([k \in DOMAIN v.entries |-> v.entries[k]])
    [] v.kind = "set"       -> /\ v = SetOf(v.members)
                               /\ \A m \in v.members : m.kind \in {"atom", "cell"}
                               /\ \A m, n \in v.members : identify_by(m) = identify_by(n) => m = n
    [] v.kind = "layered"   -> /\ v = Layered(v.base, [l \in DOMAIN v.layers |-> v.layers[l]])
                               /\ {"base", "type"} \intersect DOMAIN v.layers = {}
    [] v.kind = "element"   -> v = Element(v.type, v.value)
    [] v.kind = "closure"   -> /\ v = Closure(v.env, [i \in 1..Len(v.body) |-> v.body[i]]) /\ Len(v.body) > 0
                               /\ v.body[1] = [i \in 1..Len(v.body[1]) |-> v.body[1][i]]
    [] v.kind = "primitive" -> v = Primitive(v.name)
    [] v.kind = "neighbor"  -> v = Neighbor(v.prop, v.type)
    [] OTHER -> FALSE

\* What gun_resolve leaves of what a value is stored as: it drops the entries
\* named like Gun's own data, but reads no texts.  With its tag, no object it
\* sees is a bare reference {"#": ...} to another node.
Reserved == "_"
Resolved(v, res) ==
  CASE v.kind = "map"     -> MapOf([k \in DOMAIN v.entries \ {Reserved} |-> res[v.entries[k]]])
    [] v.kind = "set"     -> SetOf({m \in v.members : identify_by(m) # Reserved})
    [] v.kind = "element" -> Element(v.type, res[v.value])
    [] OTHER -> v

resolve[v \in Values] == Resolved(v, resolve)

AreValues(S) ==
  \A v \in S : /\ IsValue(v) /\ Rank[v] \in Nat
               /\ \A p \in PartsOf(v) : p \in S /\ Rank[p] < Rank[v]
               /\ resolve[v] \in S

-----------------------------------------------------------------------------
(* Encoding.                                                               *)

\* The member that is stored under an id.
Members(S, id) == CHOOSE v \in S : identify_by(v) = id

encode_cell_reference(id) == Obj([type |-> Leaf("reference"), ref_type |-> Leaf("cell"), id |-> Leaf(id)])

\* The schemas, each with the function that encodes what it holds.
map_schema(m, enc) ==
  Obj(Over([k \in DOMAIN m.entries |->
              IF m.entries[k].kind = "cell" THEN encode_cell_reference(m.entries[k].id) ELSE enc[m.entries[k]]],
           Tag("MAP")))

set_schema_encode(s, enc) ==
  Obj(Over([id \in {identify_by(m) : m \in s.members} |-> enc[Members(s.members, id)]], Tag("set")))

layered_object_schema(o, enc) ==
  Obj(Over([l \in DOMAIN o.layers |-> enc[o.layers[l]]], [type |-> Leaf("layered_object"), base |-> enc[o.base]]))

lain_element_schema(e, enc) ==
  Obj([type |-> Leaf("lain_element"), element_type |-> Leaf(e.type), value |-> enc[e.value]])

\* The first expression of the body.
closure_schema(c, enc) ==
  Obj([type |-> Leaf("closure"), env |-> encode_cell_reference(c.env),
       body |-> List([i \in DOMAIN c.body[1] |-> enc[c.body[1][i]]])])

interested_neighbor_schema(n) ==
  Obj([type |-> Leaf("interested_neighbor"), propagator |-> Leaf(n.prop), neighbor_type |-> Leaf(n.type)])

Encoding(v, enc) ==
  CASE v.kind = "atom"      -> Obj([value |-> Leaf(v.is)])
    [] v.kind \in {"object", "list"} -> Obj([value |-> PlainObject])
    [] v.kind = "cell"      -> Obj([type |-> Leaf("cell"), id |-> Leaf(v.id)])
    [] v.kind = "map"       -> map_schema(v, enc)
    [] v.kind = "set"       -> set_schema_encode(v, enc)
    [] v.kind = "layered"   -> Text(layered_object_schema(v, enc))
    [] v.kind = "element"   -> lain_element_schema(v, enc)
    [] v.kind = "closure"   -> Text(closure_schema(v, enc))
    [] v.kind = "primitive" -> Obj([type |-> Leaf("primitive"), name |-> Leaf(v.name)])
    [] v.kind = "neighbor"  -> Text(interested_neighbor_schema(v))

encode[v \in Values] == Encoding(v, encode)

-----------------------------------------------------------------------------
(* Decoding.                                                               *)

IsTagged(o, t) == o.json = "object" /\ "type" \in DOMAIN o.fields /\ o.fields.type = Leaf(t)
is_cell_schema(o)      == IsTagged(o, "cell")
is_reference(o)        == IsTagged(o, "reference")
is_map_schema(o)       == IsTagged(o, "MAP")
is_set_schema(o)       == IsTagged(o, "set")
is_layered_schema(o)   == IsTagged(o, "layered_object")
is_element_schema(o)   == IsTagged(o, "lain_element")
is_closure_schema(o)   == IsTagged(o, "closure")
is_primitive_schema(o) == IsTagged(o, "primitive")
is_neighbor_schema(o)  == IsTagged(o, "interested_neighbor")

\* A decoder that throws ends the decoding of everything around it.
Unless(parts, v) == IF Thrown \in parts THEN Thrown ELSE v

\* Faulty variant: an entry named like a plain value is taken for one.
EntryKeys(o) == DOMAIN o.fields \ {"type", "value"}
MapKeys(o)   == DOMAIN o.fields \ {"type"}

KnownLayers == {"vector_clock", "support"}

decode_map(o, dec) ==
  LET entries == [k \in MapKeys(o) |-> dec[o.fields[k]]]
  IN  Unless(Range(entries), MapOf(entries))

decode_set(o, dec) ==
  LET members == {dec[o.fields[k]] : k \in DOMAIN o.fields \ {"type"}}
  IN  Unless(members, SetOf(members))

decode_layered(o, dec) ==
  LET layers == [l \in DOMAIN o.fields \intersect KnownLayers |-> dec[o.fields[l]]]
      base   == dec[o.fields.base]
  IN  Unless(Range(layers) \union {base}, Layered(base, layers))

decode_element(o, dec) ==
  LET held == dec[o.fields.value]
  IN  Unless({held}, Element(o.fields.element_type.is, held))

decode_closure(o, dec) ==
  LET items == o.fields.body.items
      body  == [i \in DOMAIN items |-> dec[items[i]]]
  IN  Unless(Range(body), Closure(o.fields.env.fields.id.is, <<body>>))

decode_primitive(o) ==
  IF o.fields.name.is \in KnownPrimitives THEN Primitive(o.fields.name.is) ELSE Thrown

\* An object that is no schema: what it has as its value, when that is a string
\* or the like.  The text of an object is a string.
decode_plain(o) ==
  IF "value" \notin DOMAIN o.fields THEN Nothing
  ELSE LET x == o.fields.value
       IN  CASE x.json = "leaf" -> Atom(x.is) [] x.json = "text" -> Written(x) [] OTHER -> Nothing

\* A text is parsed under a try that catches whatever its decoding throws.
Decoding(e, dec) ==
  CASE e.json = "text" -> IF dec[e.object] = Thrown THEN Nothing ELSE dec[e.object]
    [] is_cell_schema(e) \/ is_reference(e) -> CellRef(e.fields.id.is)
    [] is_map_schema(e)       -> decode_map(e, dec)
    [] is_set_schema(e)       -> decode_set(e, dec)
    [] is_layered_schema(e)   -> decode_layered(e, dec)
    [] is_element_schema(e)   -> decode_element(e, dec)
    [] is_closure_schema(e)   -> decode_closure(e, dec)
    [] is_neighbor_schema(e)  -> Neighbor(e.fields.propagator.is, e.fields.neighbor_type.is)
    [] is_primitive_schema(e) -> decode_primitive(e)
    [] OTHER -> decode_plain(e)

\* What is decoded with a code.
PartsOfCode(e) ==
  CASE e.json = "text" -> {e.object}
    [] is_map_schema(e) \/ is_set_schema(e) -> {e.fields[k] : k \in DOMAIN e.fields \ {"type"}}
    [] is_layered_schema(e) -> {e.fields[l] : l \in DOMAIN e.fields \intersect KnownLayers} \union {e.fields.base}
    [] is_element_schema(e) -> {e.fields.value}
    [] is_closure_schema(e) -> Range(e.fields.body.items)
    [] OTHER -> {}

AreCodes(S) ==
  /\ \A e \in S : /\ e.json \in {"text", "object"} /\ Rank[e] \in Nat
                  /\ \A p \in PartsOfCode(e) : p \in S /\ Rank[p] < Rank[e]
  /\ \A v \in Values : encode[v] \in S

decode[e \in Encoded] == Decoding(e, decode)

-----------------------------------------------------------------------------
(* What is kept.                                                           *)

Decoded(v) == decode[encode[v]]
Back(v)    == Decoded(resolve[v])

\* v and everything in it, however deep.
Within[v \in Values] == {v} \union UNION {Within[p] : p \in PartsOf(v)}

\* What Gun carries whole, if it carries its parts: no entry named like the tag,
\* no layers it does not know, no plain objects or lists, one expression in a
\* body, no primitive that this process does not know.
Carried(v) ==
  CASE v.kind \in {"object", "list"} -> FALSE
    [] v.kind = "map"       -> "type" \notin DOMAIN v.entries
    [] v.kind = "set"       -> \A m \in v.members : identify_by(m) # "type"
    [] v.kind = "layered"   -> DOMAIN v.layers \subseteq KnownLayers
    [] v.kind = "closure"   -> Len(v.body) = 1
    [] v.kind = "primitive" -> v.name \in KnownPrimitives
    [] OTHER -> TRUE

\* Nothing that gun_resolve would drop.
Unreserved(v) ==
  /\ v.kind = "map" => Reserved \notin DOMAIN v.entries
  /\ v.kind = "set" => \A m \in v.members : identify_by(m) # Reserved

\* w is v, with what becomes of each part by itself in the place of that part:
\* nothing is added, and what is missing are layers and further expressions.
Remains(w, v) ==
  /\ w.kind = v.kind /\ Thrown \notin PartsOf(w)
  /\ CASE v.kind = "map"     -> w = MapOf([k \in DOMAIN v.entries |-> Decoded(v.entries[k])])
       [] v.kind = "set"     -> w = v
       [] v.kind = "layered" ->
            w = Layered(Decoded(v.base), [l \in DOMAIN v.layers \intersect KnownLayers |-> Decoded(v.layers[l])])
       [] v.kind = "element" -> w = Element(v.type, Decoded(v.value))
       [] v.kind = "closure" -> w = Closure(v.env, <<[i \in DOMAIN v.body[1] |-> Decoded(v.body[1][i])]>>)
       [] OTHER -> w = v

\* A map with entries named like the tag and like a plain value.
Garbled(w, v) ==
  v.kind = "map" /\ {"type", "value"} \subseteq DOMAIN v.entries /\ w = Written(encode[v.entries.value])

\* A value loses only what gun_resolve drops, if it and everything in it can be
\* carried; else it is Nothing, or each part of it is what that part alone is
\* decoded to; and decoding throws only over a primitive that this process does
\* not know (gun_db_schema_encode, gun_resolve, gun_db_schema_decode).
ComesBack(v) ==
  LET u == resolve[v]
      w == Back(v)
  IN  /\ (\A p \in Within[v] : Unreserved(p)) => u = v
      /\ (\A p \in Within[u] : Carried(p)) => w = u
      /\ w \in {Nothing, Thrown} \/ Remains(w, u) \/ Garbled(w, u)
      /\ w = Thrown => \E p \in Within[u] : p.kind = "primitive" /\ p.name \notin KnownPrimitives
=============================================================================
