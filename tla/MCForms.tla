------------------------------ MODULE MCForms -------------------------------
EXTENDS Forms

Field == [kind |-> "field", default |-> <<>>]
Flag == [kind |-> "field", default |-> <<"false">>]
Of(kind, sh) == [kind |-> kind, of |-> sh]
Struct(f) == [kind |-> "struct", fields |-> f]

A == <<"a">>
B == <<"b">>
C == <<"c">>
I == <<"1">>
K(i) == <<"k", i>>
V(i) == <<"v", i>>

\* a: Vec<_>, b: HashMap<_, Vec<_>>
Mixed == Struct((A :> Of("vec", Field)) @@ (B :> Of("map", Of("vec", Field))))
\* Vec<{a, b}> and {a, b} with a checkbox b, alone and in each of the wrappers
Items == Of("vec", Struct((A :> Field) @@ (B :> Flag)))
Single == Struct((A :> Field) @@ (B :> Of("result", Flag)))
Entries == Of("map", Struct((A :> Field) @@ (B :> Of("option", Field))))
Table == Of("strict", Of("map", Field))

MCShapes ==
    {Mixed, Entries, Table, Of("contextual", Single), Of("option", Of("lenient", Single)), Struct(A :> Items)}
    \cup {Items, Single}
    \cup {Of(kind, sh) : kind \in {"option", "strict", "result"}, sh \in {Items, Single}}

F(name, value) == [name |-> name, value |-> value]
ItemFields == {F(<<NoKey, A>>, "x"), F(<<I, A>>, "x"), F(<<I, B>>, "x"), F(<<I, A>>, "bad"),
               F(<<I, B>>, "data"), F(<<<<"2">>, A>>, "y"), F(<<I, C>>, "x")}
SingleFields == {F(<<A>>, "x"), F(<<A>>, "y"), F(<<A>>, "bad"), F(<<A>>, "data"), F(<<B>>, "x"),
                 F(<<B>>, "bad"), F(<<C>>, "x"), F(<<<<"_method">>>>, "x")}
MixedFields == {F(<<A>>, "x"), F(<<A, I>>, "y"), F(<<A, I>>, "bad"), F(<<B, A>>, "x"), F(<<B, A, I>>, "y"),
                F(<<B, K("a")>>, "bad"), F(<<B, V("a")>>, "x"), F(<<C>>, "x")}
EntryFields == {F(<<A, A>>, "x"), F(<<A, B>>, "bad"), F(<<K("a")>>, "x"), F(<<V("a"), A>>, "y"),
                F(<<K("b")>>, "x"), F(<<V("b"), A>>, "x"), F(<<NoKey>>, "x"), F(<<<<"z", "a">>>>, "x")}
TableFields == {F(<<A>>, "x"), F(<<A>>, "bad"), F(<<K("a")>>, "y"), F(<<V("a")>>, "x"),
                F(<<K("b")>>, "y"), F(<<V("b")>>, "y"), F(<<NoKey>>, "x")}

RECURSIVE MCFields(_)
MCFields(sh) ==
    CASE sh = Mixed -> MixedFields
      [] sh = Items -> ItemFields
      [] sh = Single -> SingleFields
      [] sh = Entries -> EntryFields
      [] sh = Table -> TableFields
      [] sh = Struct(A :> Items) -> {F(<<A>> \o f.name, f.value) : f \in ItemFields}
      [] OTHER -> MCFields(sh.of)
MCParse(text) ==
    CASE text = "bad" -> Err({"Invalid"})
      [] text = "data" -> Err({"Unexpected"})
      [] OTHER -> Ok(text)
=============================================================================
