------------------------------- MODULE Forms --------------------------------
(***************************************************************************)
(* core/lib/src/form: the push parser, with the code that                  *)
(* core/codegen/src/derive/from_form.rs generates for structs.             *)
(*                                                                         *)
(* Fields arrive one by one, with a name like `m[a].x`, in any order; each *)
(* is pushed down a tree of contexts that the type of the form determines, *)
(* one key of its name per level, and finalize() makes values of the       *)
(* contexts from the leaves up.                                            *)
(*                                                                         *)
(* A name is the sequence of its keys, a key the sequence of its indices   *)
(* (`k:a` has two), NoKey an empty or missing one.  What a text means to   *)
(* the type of a field is the operator Parse: a value, or one of the kinds *)
(* of error that matter here.                                              *)
(***************************************************************************)
EXTENDS Naturals, Sequences, SequencesExt

CONSTANTS
    Shapes,     \* the types of forms: trees of [kind, ...], see below
    Fields(_),  \* the fields that may come for a shape: a set of [name, value]
    Parse(_),   \* what a text is to a field: [ok, val] or [ok, errs]
    MaxFields   \* bound: fields of one form

NoKey == <<>>

Ok(val) == [ok |-> TRUE, val |-> val]
Err(errs) == [ok |-> FALSE, errs |-> errs]

\* Types: [kind |-> "field", default |-> a value or <<>>], [kind |-> "struct",
\* fields |-> by key], and "vec", "map", "option", "result", "strict", "lenient"
\* and "contextual" of a type `of`.
KeyShape == [kind |-> "field", default |-> <<>>]

VARIABLES
    shape,      \* the type of the form
    fields,     \* history: the fields so far
    ctxt,       \* the context of the form
    broken,     \* the parser has reported an error
    phase,      \* "parsing", "closed" (the parser is done), "done"
    result

vars == <<shape, fields, ctxt, broken, phase, result>>

-----------------------------------------------------------------------------
(* FromForm::init                                                          *)

RECURSIVE New(_, _)
New(sh, strict) ==
    CASE sh.kind = "field" -> [strict |-> strict, value |-> <<>>, pushes |-> 0]
      [] sh.kind = "vec" -> [strict |-> strict, last_key |-> NoKey, current |-> <<>>,
                             errors |-> {}, items |-> <<>>]
      [] sh.kind = "map" -> [strict |-> strict, table |-> <<>>, entries |-> <<>>, errors |-> {}]
      [] sh.kind = "struct" -> [strict |-> strict, errors |-> {},
                                fields |-> [n \in DOMAIN sh.fields |-> <<>>]]
      [] sh.kind = "contextual" -> [inner |-> New(sh.of, strict), errors |-> {}]
      [] sh.kind \in {"option", "strict"} -> New(sh.of, TRUE)
      [] sh.kind = "lenient" -> New(sh.of, FALSE)
      [] sh.kind = "result" -> New(sh.of, strict)

-----------------------------------------------------------------------------
(* FromForm::finalize                                                      *)

\* FromFieldContext: the first value, if it is the only one or the form lenient
FinalizeField(sh, c) ==
    IF c.value # <<>>
    THEN IF c.value[1].ok /\ c.strict /\ c.pushes > 1 THEN Err({"Duplicate"}) ELSE c.value[1]
    ELSE IF ~c.strict /\ sh.default # <<>> THEN Ok(sh.default[1])
    ELSE Err({"Missing"})

Errors(rs) == UNION {IF rs[i].ok THEN {} ELSE rs[i].errs : i \in DOMAIN rs}

RECURSIVE Finalize(_, _)

\* VecContext::shift: the item under construction is finished.
Shift(sh, c) ==
    IF c.current = <<>> THEN c
    ELSE LET r == Finalize(sh.of, c.current[1]) IN
         IF r.ok THEN [c EXCEPT !.current = <<>>, !.items = Append(@, r.val)]
         ELSE [c EXCEPT !.current = <<>>, !.errors = @ \cup r.errs]

FinalizeVec(sh, c) ==
    LET s == Shift(sh, c) IN
    IF s.errors # {} THEN Err(s.errors)
    ELSE IF s.strict /\ s.items = <<>> THEN Err({"Missing"})
    ELSE Ok(s.items)

\* Pairs collected into a map: the last one of a key wins.
Collect(pairs) ==
    LET keys == {pairs[i][1] : i \in DOMAIN pairs}
        LastOf(k) == CHOOSE i \in DOMAIN pairs :
                        pairs[i][1] = k /\ \A j \in DOMAIN pairs : pairs[j][1] = k => j <= i
    IN [k \in keys |-> pairs[LastOf(k)][2]]

FinalizeMap(sh, c) ==
    LET ks == [i \in DOMAIN c.entries |-> FinalizeField(KeyShape, c.entries[i].key)]
        vs == [i \in DOMAIN c.entries |-> Finalize(sh.of, c.entries[i].val)]
        errors == c.errors \cup Errors(ks) \cup Errors(vs)
    IN IF errors # {} THEN Err(errors)
       ELSE IF c.strict /\ c.table = <<>> THEN Err({"Missing"})
       ELSE Ok(Collect([i \in DOMAIN ks |-> <<ks[i].val, vs[i].val>>]))

\* FromForm::default: what becomes of a field of a struct that was never pushed
Default(sh, strict) ==
    LET r == Finalize(sh, New(sh, strict)) IN IF r.ok THEN r ELSE Err({"Missing"})

\* The generated code for structs
FinalizeStruct(sh, c) ==
    LET rs == [n \in DOMAIN sh.fields |->
                 IF c.fields[n] = <<>> THEN Default(sh.fields[n], c.strict)
                 ELSE Finalize(sh.fields[n], c.fields[n][1])]
        errors == c.errors \cup Errors(rs)
    IN IF errors # {} THEN Err(errors) ELSE Ok([n \in DOMAIN rs |-> rs[n].val])

Finalize(sh, c) ==
    CASE sh.kind = "field" -> FinalizeField(sh, c)
      [] sh.kind = "vec" -> FinalizeVec(sh, c)
      [] sh.kind = "map" -> FinalizeMap(sh, c)
      [] sh.kind = "struct" -> FinalizeStruct(sh, c)
      [] sh.kind \in {"strict", "lenient"} -> Finalize(sh.of, c)
      [] sh.kind = "option" ->
            LET r == Finalize(sh.of, c) IN Ok(IF r.ok THEN <<r.val>> ELSE <<>>)
      [] sh.kind = "result" -> Ok(Finalize(sh.of, c))
      [] sh.kind = "contextual" ->
            LET r == Finalize(sh.of, c.inner) IN
            Ok([value |-> IF r.ok THEN <<r.val>> ELSE <<>>,
                errors |-> c.errors \cup (IF r.ok THEN {} ELSE r.errs)])

-----------------------------------------------------------------------------
(* FromForm::push_value and push_data, which differ in how a leaf is read  *)

\* NameView::key and NameView::shift
Key(name) == IF name = <<>> THEN NoKey ELSE Head(name)
Rest(name) == IF name = <<>> THEN <<>> ELSE Tail(name)

\* FromFieldContext: the first value counts.  A lenient form ignores a field that
\* its type does not expect.
PushField(c, value) ==
    LET r == Parse(value)
        ignored == ~c.strict /\ ~r.ok /\ r.errs = {"Unexpected"}
    IN [c EXCEPT !.pushes = @ + 1,
                 !.value = IF @ = <<>> /\ ~ignored THEN <<r>> ELSE @]

RECURSIVE Push(_, _, _, _)

\* VecContext::context: the same key as before continues the item, any other
\* key, or none, begins a new one.
PushVec(sh, c, name, value) ==
    LET match == c.last_key # NoKey /\ c.last_key = Key(name)
        this == IF match THEN c ELSE [Shift(sh, c) EXCEPT !.current = <<New(sh.of, c.strict)>>]
    IN [this EXCEPT !.last_key = Key(name),
                    !.current = <<Push(sh.of, this.current[1], Rest(name), value)>>]

\* MapContext::ctxt: the entry of an index, made if it is new.
Entry(sh, c, idx) ==
    IF \E i \in DOMAIN c.table : c.table[i] = idx THEN c
    ELSE [c EXCEPT !.table = Append(@, idx),
                   !.entries = Append(@, [key |-> New(KeyShape, c.strict), val |-> New(sh.of, c.strict)])]

IndexOf(c, idx) == CHOOSE i \in DOMAIN c.table : c.table[i] = idx

\* The key is pushed with every value.
PushMapKeyAgain(sh, c, name, value) ==
    LET key == Key(name) IN
    IF Len(key) = 1
    THEN LET d == Entry(sh, c, key[1]) IN
         [d EXCEPT !.entries[IndexOf(d, key[1])].key = PushField(@, key[1]),
                   !.entries[IndexOf(d, key[1])].val = Push(sh.of, @, Rest(name), value)]
    ELSE IF Len(key) > 1 /\ key[1] = "k"
    THEN LET d == Entry(sh, c, key[2]) IN [d EXCEPT !.entries[IndexOf(d, key[2])].key = PushField(@, value)]
    ELSE IF Len(key) > 1 /\ key[1] = "v"
    THEN LET d == Entry(sh, c, key[2]) IN
         [d EXCEPT !.entries[IndexOf(d, key[2])].val = Push(sh.of, @, Rest(name), value)]
    ELSE [c EXCEPT !.errors = @ \cup {IF key = NoKey THEN "Missing" ELSE "Kind"}]

\* MapContext::push: `m[a]` gives the key of a new entry and its value, `m[k:a]`
\* and `m[v:a]` one of them.
PushMap(sh, c, name, value) ==
    LET key == Key(name) IN
    IF Len(key) = 1
    THEN LET d == Entry(sh, c, key[1])
             i == IndexOf(d, key[1])
         IN [d EXCEPT !.entries[i].key = IF d # c THEN PushField(@, key[1]) ELSE @,
                      !.entries[i].val = Push(sh.of, @, Rest(name), value)]
    ELSE IF Len(key) > 1 /\ key[1] = "k"
    THEN LET d == Entry(sh, c, key[2]) IN [d EXCEPT !.entries[IndexOf(d, key[2])].key = PushField(@, value)]
    ELSE IF Len(key) > 1 /\ key[1] = "v"
    THEN LET d == Entry(sh, c, key[2]) IN
         [d EXCEPT !.entries[IndexOf(d, key[2])].val = Push(sh.of, @, Rest(name), value)]
    ELSE [c EXCEPT !.errors = @ \cup {IF key = NoKey THEN "Missing" ELSE "Kind"}]

\* The generated code for structs: a field is made when it is first pushed to; an
\* unknown name is an error if the form is strict.
PushStruct(sh, c, name, value) ==
    LET n == Key(name) IN
    IF n \in DOMAIN sh.fields
    THEN LET f == IF c.fields[n] = <<>> THEN New(sh.fields[n], c.strict) ELSE c.fields[n][1]
         IN [c EXCEPT !.fields[n] = <<Push(sh.fields[n], f, Rest(name), value)>>]
    ELSE IF n = <<"_method">> \/ ~c.strict THEN c
    ELSE [c EXCEPT !.errors = @ \cup {"Unexpected"}]

Push(sh, c, name, value) ==
    CASE sh.kind = "field" -> PushField(c, value)
      [] sh.kind = "vec" -> PushVec(sh, c, name, value)
      [] sh.kind = "map" -> PushMap(sh, c, name, value)
      [] sh.kind = "struct" -> PushStruct(sh, c, name, value)
      [] sh.kind = "contextual" -> [c EXCEPT !.inner = Push(sh.of, @, name, value)]
      [] OTHER -> Push(sh.of, c, name, value)

-----------------------------------------------------------------------------
(* FromData for Form<T>                                                    *)

Init ==
    /\ shape \in Shapes
    /\ fields = <<>>
    /\ ctxt = New(shape, FALSE)
    /\ broken = FALSE /\ phase = "parsing" /\ result = <<>>

\* The parser's next field
PushValue(f) ==
    /\ phase = "parsing" /\ Len(fields) < MaxFields
    /\ fields' = Append(fields, f)
    /\ ctxt' = Push(shape, ctxt, f.name, f.value)
    /\ UNCHANGED <<shape, broken, phase, result>>

\* Structs, too, do nothing with it.
PushErrorIgnored(fatal) ==
    /\ phase = "parsing" /\ ~broken
    /\ broken' = TRUE
    /\ phase' = IF fatal THEN "closed" ELSE phase
    /\ UNCHANGED <<shape, fields, ctxt, result>>

\* An error of the multipart parser.  The generated code and Contextual keep it; the
\* other types do nothing, Strict and Lenient included: they do not hand it on.  The parser is done, unless only the text of one
\* field could not be read.
PushError(fatal) ==
    /\ phase = "parsing" /\ ~broken
    /\ broken' = TRUE
    /\ ctxt' = IF shape.kind \in {"struct", "contextual"}
               THEN [ctxt EXCEPT !.errors = @ \cup {"Multipart"}] ELSE ctxt
    /\ phase' = IF fatal THEN "closed" ELSE phase
    /\ UNCHANGED <<shape, fields, result>>

\* The parser has no more fields.
Finish ==
    /\ phase \in {"parsing", "closed"}
    /\ result' = Finalize(shape, ctxt)
    /\ phase' = "done"
    /\ UNCHANGED <<shape, fields, ctxt, broken>>

Next ==
    \/ \E f \in Fields(shape) : PushValue(f)
    \/ \E fatal \in BOOLEAN : PushError(fatal)
    \/ Finish

Spec == Init /\ [][Next]_vars

-----------------------------------------------------------------------------
(* What a form means, read off all of its fields at once                   *)

Shifted(fs) == [i \in DOMAIN fs |-> [fs[i] EXCEPT !.name = Rest(@)]]
WithKey(fs, k) == SelectSeq(fs, LAMBDA f : Key(f.name) = k)

\* The items of a vector: maximal runs of fields with the same key
Starts(fs) == {i \in DOMAIN fs : i = 1 \/ Key(fs[i].name) = NoKey \/ Key(fs[i].name) # Key(fs[i - 1].name)}
RunFrom(fs, i) ==
    LET later == {j \in Starts(fs) : j > i}
        end == IF later = {} THEN Len(fs) ELSE (CHOOSE j \in later : \A k \in later : j <= k) - 1
    IN SubSeq(fs, i, end)

MeansField(sh, strict, fs) ==
    LET rs == [i \in DOMAIN fs |-> Parse(fs[i].value)]
        counted == IF strict THEN rs ELSE SelectSeq(rs, LAMBDA r : r.ok \/ r.errs # {"Unexpected"})
    IN CASE counted = <<>> -> IF ~strict /\ sh.default # <<>> THEN Ok(sh.default[1]) ELSE Err({"Missing"})
         [] counted # <<>> /\ ~counted[1].ok -> counted[1]
         [] OTHER -> IF strict /\ Len(fs) > 1 THEN Err({"Duplicate"}) ELSE counted[1]

\* The index of a map's entry that a key names, in a sequence of length 0 or 1
Named(k) ==
    IF Len(k) = 1 THEN <<k[1]>>
    ELSE IF Len(k) > 1 /\ k[1] \in {"k", "v"} THEN <<k[2]>> ELSE <<>>

\* The texts for the key of entry x, given the fields that name it: an entry first
\* named without k or v has its index for a key.
KeyTexts(mine, x) ==
    (IF Key(mine[1].name) = <<x>> THEN <<[name |-> <<>>, value |-> x]>> ELSE <<>>)
    \o SelectSeq(mine, LAMBDA f : Len(Key(f.name)) > 1 /\ Key(f.name)[1] = "k")

MapErrors(keys) ==
    (IF NoKey \in keys THEN {"Missing"} ELSE {})
    \cup (IF \E k \in keys \ {NoKey} : Named(k) = <<>> THEN {"Kind"} ELSE {})

RECURSIVE Means(_, _, _)
Means(sh, strict, fs) ==
    CASE sh.kind = "field" -> MeansField(sh, strict, fs)
      [] sh.kind = "vec" ->
            LET starts == SetToSortSeq(Starts(fs), LAMBDA a, b : a < b)
                rs == [i \in DOMAIN starts |-> Means(sh.of, strict, Shifted(RunFrom(fs, starts[i])))]
                errors == Errors(rs)
            IN IF errors # {} THEN Err(errors)
               ELSE IF strict /\ fs = <<>> THEN Err({"Missing"})
               ELSE Ok([i \in DOMAIN rs |-> rs[i].val])
      [] sh.kind = "map" ->
            LET keys == {Key(fs[i].name) : i \in DOMAIN fs}
                Mine(x) == SelectSeq(fs, LAMBDA f : Named(Key(f.name)) = <<x>>)
                Val(x) == SelectSeq(Mine(x), LAMBDA f : ~(Len(Key(f.name)) > 1 /\ Key(f.name)[1] = "k"))
                named == SelectSeq([i \in DOMAIN fs |-> Named(Key(fs[i].name))], LAMBDA k : k # <<>>)
                order == FoldLeft(LAMBDA xs, k : IF k[1] \in ToSet(xs) THEN xs ELSE xs \o k, <<>>, named)
                ks == [i \in DOMAIN order |-> MeansField(KeyShape, strict, KeyTexts(Mine(order[i]), order[i]))]
                vs == [i \in DOMAIN order |-> Means(sh.of, strict, Shifted(Val(order[i])))]
                errors == MapErrors(keys) \cup Errors(ks) \cup Errors(vs)
            IN IF errors # {} THEN Err(errors)
               ELSE IF strict /\ order = <<>> THEN Err({"Missing"})
               ELSE Ok(Collect([i \in DOMAIN ks |-> <<ks[i].val, vs[i].val>>]))
      [] sh.kind = "struct" ->
            LET rs == [n \in DOMAIN sh.fields |-> Means(sh.fields[n], strict, Shifted(WithKey(fs, n)))]
                Field(n) == IF WithKey(fs, n) = <<>> /\ ~rs[n].ok THEN Err({"Missing"}) ELSE rs[n]
                unknown == {Key(fs[i].name) : i \in DOMAIN fs} \ (DOMAIN sh.fields \cup {<<"_method">>})
                errors == Errors([n \in DOMAIN rs |-> Field(n)])
                          \cup (IF strict /\ unknown # {} THEN {"Unexpected"} ELSE {})
            IN IF errors # {} THEN Err(errors) ELSE Ok([n \in DOMAIN rs |-> rs[n].val])
      [] sh.kind = "option" ->
            LET r == Means(sh.of, TRUE, fs) IN Ok(IF r.ok THEN <<r.val>> ELSE <<>>)
      [] sh.kind = "result" -> Ok(Means(sh.of, strict, fs))
      [] sh.kind = "strict" -> Means(sh.of, TRUE, fs)
      [] sh.kind = "lenient" -> Means(sh.of, FALSE, fs)
      [] sh.kind = "contextual" ->
            LET r == Means(sh.of, strict, fs) IN
            Ok([value |-> IF r.ok THEN <<r.val>> ELSE <<>>, errors |-> IF r.ok THEN {} ELSE r.errs])

\* Whatever the order of the fields and however those of different parts of the
\* form are interleaved: pushing them one by one comes to what the form means.
StreamingAgrees == phase = "done" /\ ~broken => result = Means(shape, FALSE, fields)

\* A form that the parser could not read to its end is rejected if its type is a
\* struct.  (The contexts of vectors, maps and options ignore the error, and those
\* of Strict and Lenient do not pass it on: they are accepted with what came before.)
BrokenIsRejected ==
    phase = "done" /\ broken =>
        CASE shape.kind = "struct" -> ~result.ok
          [] shape.kind = "contextual" -> result.val.errors # {}
          [] OTHER -> result = Means(shape, FALSE, fields)

\* The types of the state around the contexts
TypeOK ==
    /\ shape \in Shapes /\ ToSet(fields) \subseteq Fields(shape)
    /\ phase \in {"parsing", "closed", "done"} /\ broken \in BOOLEAN
    /\ result = <<>> <=> phase # "done"
=============================================================================
