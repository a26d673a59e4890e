------------------------------ MODULE MCDriver ------------------------------
(* Instances of Driver for TLC. *)
EXTENDS Driver

Numeral(kind, base, text) == [kind |-> kind, base |-> base, text |-> text]
Written(slots) == [slots |-> slots, literals |-> {Numeral("I32", "Decimal", <<1>>)}]

(* A phrase that may be left out. *)
Possibly(phrase) == {<<>>, phrase}

FnHead == {<<"fn", "id", "(", ")", "{">>}
FnEnd == {<<"}">>}

(* Expressions of one statement. *)
Infix ==
    {<<"*", "literal">>, <<"=", "id">>, <<"?", "id", ":", "true">>, <<".", "id">>,
     <<"(", "id", ",", "false", ")">>, <<"[", "id", "]">>, <<"as", "id", "[", "]", "?">>, <<")">>}
Operators == Written(<<FnHead, {<<"id">>}, Infix, Infix, Infix, {<<";">>}, FnEnd>>)
Primaries ==
    Written(<<FnHead,
              {<<>>, <<"null">>, <<"-">>, <<"(", "id", ")">>, <<"{", "id", ",", "literal", "}">>,
               <<"new", "i32", "(", "id", ")">>, <<"new", "id", "(", ")">>, <<"this", ".", "id">>,
               <<"::", "id">>, <<"break">>, <<"continue">>, <<"continue", "(", "id", ")">>,
               <<"return">>, <<"return", "id">>, <<"yield", "id">>},
              {<<>>, <<"*", "id">>, <<"[", "{", "}", "]">>}, {<<";">>, <<",", "id", ";">>}, FnEnd>>)
Matches ==
    LET cases == {<<"id", ":", "literal">>, <<"default", ":", "id">>, <<"id">>}
    IN Written(<<FnHead, {<<"match", "(", "id", ")">>}, Possibly(<<"->", "void">>), Possibly(<<"{">>),
                 cases, {<<",">>}, cases, {<<"}">>}, {<<";">>}, FnEnd>>)

(* Statements. *)
Plain == {<<"id", ",", "true", ";">>, <<"{", "id", ";", "}">>, <<"{", "}">>}
Conditions ==
    Written(<<FnHead, {<<"if", "(", "id", ")">>, <<"while", "(", "id", ")">>, <<"if", "(">>},
              Plain \cup {<<"if", "(", "literal", ")", "id", ";">>}, Plain, FnEnd>>)
DoLoops ==
    Written(<<FnHead, {<<"do">>}, Plain, Possibly(<<"(", "literal", ")">>), {<<";">>}, Plain, FnEnd>>)
ForLoops ==
    Written(<<FnHead, {<<"for", "(">>}, Possibly(<<"id">>), Possibly(<<":", "object">>),
              Possibly(<<"=", "literal">>), Possibly(<<",", "id", "=", "id">>), {<<";", "id", ";">>},
              {<<>>, <<"id">>, <<"id", ",", "true">>}, {<<")", "id", ";">>}, FnEnd>>)
Bindings ==
    Written(<<FnHead, {<<"let">>, <<"var">>}, Possibly(<<"id">>), Possibly(<<":", "object">>),
              Possibly(<<"=", "literal">>), Possibly(<<",", "id", "=", "id">>), {<<";">>}, FnEnd>>)
Switches ==
    LET label == {<<"case", "(", "literal", ")">>, <<"default">>, <<"space">>}
        stmt == {<<"id", ";">>, <<"{", "}">>, <<>>}
    IN Written(<<FnHead, {<<"switch", "(", "id", ")", "{">>}, label, stmt, label, stmt, {<<"}">>}, FnEnd>>)

(* Type names and identifier references. *)
References ==
    Written(<<FnHead, {<<"let", "id", ":">>}, {<<>>, <<"::">>, <<"this", ".">>}, {<<"id">>, <<"void">>},
              {<<>>, <<"<", "id", ">">>, <<"<", "id", "<", "object", ">>">>, <<"<", "id">>},
              Possibly(<<".", "id">>), Possibly(<<"const">>), Possibly(<<"[", "]", "?">>), {<<";">>}, FnEnd>>)

(* Members. *)
Functions ==
    Written(<<{<<"fn", "id">>, <<"async", "id">>, <<"operator", "+">>, <<"operator", "space", "(", ")">>,
               <<"operator", "id">>, <<"fn">>},
              {<<"(">>}, {<<>>, <<"id", ":", "i32">>, <<"id", "=", "literal", ",", "...">>}, {<<")">>},
              {<<>>, <<"virtual", "override">>, <<"override", "(", "id", ")">>},
              Possibly(<<"->", "void">>), {<<";">>, <<"{", "}">>, <<"{", "id", ";", "}">>}>>)
Types ==
    Written(<<{<<"class">>, <<"struct">>, <<"interface">>, <<"trait">>, <<"except">>}, {<<"id">>},
              Possibly(<<"<", "id", ">">>), Possibly(<<"(", "id", ")">>), Possibly(<<":", "id", "+", "id">>),
              {<<"{">>}, Possibly(<<"fn", "id", "(", ")", ";">>), Possibly(<<"var", "id", ";">>),
              Possibly(<<"fn", "id", "(", ")", "{", "}">>), {<<"}">>}>>)
Enumerations ==
    LET item == {<<>>, <<"id">>, <<"id", "=", "literal">>, <<"case", "id", "(", "id", ")">>}
    IN Written(<<{<<"enum">>}, {<<>>, <<"const">>, <<"union">>}, {<<"id">>}, Possibly(<<"(", "i32", ")">>),
                 {<<"{">>}, item, {<<",">>}, item, {<<"}">>}>>)
Modules ==
    LET member == {<<"import", "id", ";">>, <<"let", "id", ";">>, <<"fn", "id", "(", ")", ";">>,
                   <<"enum", "const", "id", "{", "}">>, <<"id">>, <<>>}
    IN Written(<<Possibly(<<"module", "id", ";">>), member, member, member>>)

(* Literals.  A letter of a prefix or a suffix is its distance from '0'. *)
Texts(digits, n) == UNION {[1 .. k -> digits] : k \in 1 .. n}
Numerals ==
    [slots |-> <<{<<"fn", "id", "(", ")", "{">> \o <<"literal", ";">>}, FnEnd>>,
     literals |->
        {Numeral("I32", "Decimal", t) : t \in {s \in Texts({1, 2, 7, 8}, 4) : Len(s) < 4 \/ s[1] = 1}}
        \cup {Numeral("I32", "Octal", <<0>> \o t) : t \in Texts({1, 2, 7}, 3)}
        \cup {Numeral("I32", "Hexadecimal", <<0, 72>> \o t) : t \in Texts({1, 7, 8, 17, 54}, 3)}
        \cup {Numeral("I32", "Binary", <<0, 50>> \o t) : t \in Texts({0, 1}, 2)}
        \cup {Numeral("U32", "Decimal", t \o <<69>>) : t \in Texts({1, 9}, 3)}
        \cup {Numeral("U64", "Decimal", t \o <<69, 60>>) : t \in Texts({1, 9}, 3)}
        \cup {Numeral(k, "Decimal", <<1>>) : k \in {"F32", "F64", "String"}}]

EveryLanguage == {Operators, Primaries, Matches, Conditions, DoLoops, ForLoops, Bindings, Switches,
        References, Functions, Types, Enumerations, Modules, Numerals}
Indices == 1 .. 100
=============================================================================
