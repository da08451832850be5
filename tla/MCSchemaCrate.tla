----------------------------- MODULE MCSchemaCrate -----------------------------
(***************************************************************************)
(* A crate that compiles, and every crate that differs from it in one or two   *)
(* of its parts: other kinds, other registries, or a slip in one of them.      *)
(***************************************************************************)
EXTENDS SchemaCrate

up(l) == [letter |-> l, case |-> "upper"]
lo(l) == [letter |-> l, case |-> "lower"]

\* Names of kinds, of which some share a method name or are keywords in snake case.
MCSpelling ==
  [Name |-> <<up("n"), lo("a")>>, Tags |-> <<up("t"), lo("a")>>, State |-> <<up("s"), lo("t")>>,
   NA |-> <<up("n"), up("a")>>, NAx |-> <<up("n"), up("a"), lo("x")>>,
   Mood |-> <<up("m"), lo("d")>>, Status |-> <<up("s"), lo("s")>>,
   If |-> <<up("i"), lo("f")>>, Super |-> <<up("s"), lo("u")>>, Gen |-> <<up("g"), lo("n")>>,
   Label |-> <<up("l"), lo("l")>>]
MCRustKeywords == {<<"i", "f">>, <<"s", "u">>}
MCNotRaw == {<<"s", "u">>}
MCReserved == {<<"i", "f">>, <<"s", "u">>, <<"g", "n">>}

path(p, last) == [path |-> p, last |-> last, inner |-> <<>>]
plain(name) == path(name, name)
enum(inner) == [path |-> "Enum", last |-> "Enum", inner |-> inner]
arg(key, value) == [key |-> key, value |-> value]
attr(name, args) == [name |-> name, parses |-> TRUE, args |-> args]
broken(name) == [name |-> name, parses |-> FALSE, args |-> <<>>]
variant(name, attrs) == [name |-> name, attrs |-> attrs]
typed(name, typ, qty) == variant(name, <<attr("property", <<arg("typ", typ), arg("quantity", plain(qty))>>)>>)
carries(name, typ) == variant(name, <<attr("property", <<arg("typ", typ)>>)>>)
lists(name, props) ==
  variant(name, <<attr("properties", [i \in DOMAIN props |-> arg(NoKeyword, plain(props[i]))])>>)
of(attrs, variants) == [attrs |-> attrs, variants |-> variants]

MCEnums == {[path |-> "Mood", variants |-> <<"Up", "Down">>],
            [path |-> "Status", variants |-> <<"On", "Off", "Out">>],
            [path |-> "m::Mood", variants |-> <<"Low">>]}

Props(variants) == of(<<>>, variants)
name == typed("Name", plain("String"), "One")
tags == typed("Tags", path("p::String", "String"), "Multi")
state == typed("State", enum(<<"Status">>), "One")
PropertyDecls ==
  <<Props(<<name, tags, state>>),
    Props(<<typed("If", plain("Int"), "One"), name, typed("State", enum(<<"Mood">>), "Multi")>>),
    Props(<<name, variant("State", <<attr("property", <<arg("typ", plain("Int")), arg("quantity", plain("Multi")),
       arg("typ", plain("None")), arg("rename", plain("Name"))>>)>>)>>),
    Props(<<name, variant("State", <<>>), tags>>),
    Props(<<name, variant("State", <<broken("property"), attr("property", <<>>)>>)>>),
    Props(<<name, carries("State", plain("Int"))>>),
    Props(<<name, typed("State", plain("None"), "One"), typed("Super", plain("Int"), "One")>>),
    Props(<<name, typed("State", enum(<<>>), "One")>>),
    Props(<<name, typed("Super", plain("Int"), "One")>>),
    Props(<<name, typed("Gen", plain("Text"), "Many")>>),
    Props(<<name, typed("Gen", plain("Int"), "One")>>)>>

EdgeDecl(variants) == of(<<attr("edge_kind", <<arg("schema", plain("S"))>>)>>, variants)
EdgeDecls ==
  <<EdgeDecl(<<carries("Name", plain("None")), carries("Mood", enum(<<"Mood">>))>>),
    EdgeDecl(<<carries("Name", plain("Double")), carries("Mood", plain("None")),
               carries("State", enum(<<"Status">>))>>),
    EdgeDecl(<<variant("Name", <<attr("property", <<arg("rename", plain("Mood"))>>)>>)>>),
    EdgeDecl(<<variant("Label", <<attr("property", <<arg("rename", plain("Name")), arg("typ", plain("Int"))>>)>>),
               variant("Name", <<attr("property", <<arg("typ", plain("None"))>>)>>)>>),
    EdgeDecl(<<carries("Name", enum(<<"Mood", "Status">>))>>),
    of(<<attr("edge_kind", <<>>)>>, <<carries("Name", plain("Text"))>>)>>

NodeDecl(variants) ==
  of(<<attr("node_kind", <<arg("property_kind", plain("Properties")), arg("schema", plain("S"))>>)>>, variants)
NodeDecls ==
  <<NodeDecl(<<lists("Name", <<"Name", "State">>), lists("Mood", <<>>)>>),
    NodeDecl(<<lists("Name", <<"Name">>), lists("NAx", <<"Name">>), lists("Mood", <<"Name">>)>>),
    NodeDecl(<<lists("Name", <<>>), lists("Mood", <<>>), lists("NA", <<>>)>>),
    NodeDecl(<<lists("If", <<"Name", "Name">>), lists("Gen", <<>>)>>),
    NodeDecl(<<lists("Name", <<>>), variant("Mood", <<>>), lists("Super", <<>>)>>),
    NodeDecl(<<variant("Name", <<broken("properties")>>), lists("NA", <<>>), lists("Name", <<>>)>>),
    NodeDecl(<<lists("Name", <<>>), variant("Mood", <<attr("properties", <<>>), broken("property")>>)>>),
    of(<<attr("node_kind", <<arg("schema", plain("S"))>>)>>, <<lists("Name", <<>>)>>)>>

ByMacro(n, types) == [name |-> n, macro |-> TRUE, types |-> types, decl |-> Props(<<>>)]
ByHand(n, variants) == [name |-> n, macro |-> FALSE, types |-> <<>>, decl |-> Props(variants)]
registers(n, type) == variant(n, <<attr("enum_type", <<arg(NoKeyword, plain(type))>>)>>)
RegistryLists ==
  <<<<ByMacro("Reg", <<plain("Mood"), plain("Status")>>)>>,
    <<ByMacro("Reg", <<plain("Status"), path("m::Mood", "Mood")>>), ByHand("Other", <<registers("Mood", "Mood")>>)>>,
    <<ByMacro("Other", <<plain("Mood")>>), ByMacro("Reg", <<plain("Status")>>)>>,
    <<ByHand("Reg", <<registers("Status", "Status"), registers("Mood", "Mood")>>)>>,
    <<ByMacro("Reg", <<plain("Mood"), plain("Status"), path("m::Mood", "Mood")>>)>>,
    <<ByMacro("Reg", <<>>)>>,
    <<ByHand("Reg", <<registers("Mood", "Mood"), variant("Status", <<>>)>>)>>>>

ident(t) == [form |-> "ident", text |-> t, parts |-> <<>>]
literal(parts) == [form |-> "literal", text |-> "", parts |-> parts]
entry(key, value) == [key |-> key, equals |-> TRUE, value |-> value, comma |-> TRUE]
n1 == entry("name", ident("S"))
n2 == entry("node_kind", ident("Nodes"))
n3 == entry("edge_kind", ident("Edges"))
n4 == entry("prop_kind", [form |-> "path", text |-> "Properties", parts |-> <<>>])
n5 == entry("version", literal(<<1, 0, 2>>))
n6 == entry("enum_prop_registry", ident("Reg"))
Calls ==
  <<<<n1, n2, n3, n4, n6, [n5 EXCEPT !.comma = FALSE]>>,
    <<n6, n5, n4, n3, n2, n1>>,
    <<n1, n2, n3, n4, n5>>,
    <<n1, n2, n2, n4, n5>>,
    <<n1, n2, n3, [n4 EXCEPT !.comma = FALSE], n5>>,
    <<n1, entry("schema", ident("S")), n1>>,
    <<n3, n1, [n1 EXCEPT !.value.form = "literal"], n2>>,
    <<n2, [n1 EXCEPT !.value.form = "path"], [n3 EXCEPT !.equals = FALSE]>>,
    <<n1, n2, n3, n4, entry("version", literal(<<1, 2>>))>>,
    <<n1, n2, n3, n4, entry("version", literal(<<1, NotANumber, 2>>))>>,
    <<n1, n2, n3, n4, entry("version", literal(<<1, 3, 2>>)), n6>>,
    <<n1, n2>>>>

MCCrate(p, e, n, r, c) ==
  [enums |-> MCEnums, properties |-> PropertyDecls[p], edges |-> EdgeDecls[e],
   nodes |-> NodeDecls[n], registries |-> RegistryLists[r], call |-> Calls[c]]

MCCrates ==
  {MCCrate(w[1], w[2], w[3], w[4], w[5]) : w \in
    {w \in (DOMAIN PropertyDecls) \X (DOMAIN EdgeDecls) \X (DOMAIN NodeDecls)
           \X (DOMAIN RegistryLists) \X (DOMAIN Calls) :
       Cardinality({i \in 1 .. 5 : w[i] # 1}) <= 2}}
=============================================================================
