---------------------------- MODULE MCExprParser ----------------------------
(* Instances of ExprParser for TLC. *)
EXTENDS ExprParser

Singles(kinds) == {<<k>> : k \in kinds}

(* One token at a time: operators, brackets and a cast. *)
Constructs ==
    [length |-> 6,
     phrases |-> Singles({"id", "-", "*", "=", "?", ":", "(", ")", ",", "[", "]", "as", "i32",
                          "space"})]

(* The expressions that begin with a keyword, and type arguments. *)
Keywords ==
    [length |-> 7,
     phrases |-> Singles({"id", ",", ":", "}", ">", ")"}) \cup
                 {<<"match", "(">>, <<")", "{">>, <<")", "->", "i32", "{">>, <<"default", ":">>,
                  <<"continue", "(">>, <<"return">>, <<"yield", "{">>, <<"new", "i32", "(">>,
                  <<"this", ".">>, <<"::", "<">>}]

(* Operands and the binary operators, one or two of each level. *)
Operands ==
    [length |-> 9,
     phrases |-> {<<"id">>} \cup
                 {<<op, "id">> : op \in {"=", "+=", "||", "&&", "|", "==", "<", "-", "+", "*"}}]

(* Closing brackets that the lexer takes together. *)
DoubleClosing ==
    [length |-> 8, phrases |-> Singles({"id", "[", "]]", "::", "<", ">>", "i32", "space"})]

(* The same in phrases, of which each has a place in an accepted input.     *)
Splits ==
    [length |-> 10,
     phrases |-> Singles({"]", "]]", ">", ">>", ",", "space"}) \cup
                 {<<"id", "[", "id">>, <<"id", "::", "<", "id">>, <<"<", "i32">>}]

(* A match expression with its cases. *)
Cases ==
    [length |-> 13,
     phrases |-> Singles({"id", ",", "}"}) \cup
                 {<<"match", "(", "id", ")", "{">>, <<"id", ":">>, <<"default", ":">>}]

All == {Constructs, Keywords, Operands, Splits, Cases}
OperandsOnly == {Operands}
DoubleClosingOnly == {DoubleClosing}
=============================================================================
