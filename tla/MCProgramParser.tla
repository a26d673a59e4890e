-------------------------- MODULE MCProgramParser --------------------------
(* Instances of ProgramParser for TLC. *)
EXTENDS ProgramParser

Singles(kinds) == {<<k>> : k \in kinds}

(* Functions with bodies: blocks, conditions and expressions. *)
Functions ==
    [length |-> 11, errors |-> 2,
     phrases |-> {<<"fn", "id", "(", ")", "{">>, <<"if", "(", "id">>, <<"id", ";">>} \cup
                 Singles({"{", "}", ")", ";", "space"})]

(* The statements that have parts of their own. *)
Bodies ==
    [length |-> 18, errors |-> 2,
     phrases |-> {<<"fn", "id", "(", ")", "{">>, <<"for", "(", "id", ";", "id", ";", "id", ")">>,
                  <<"let", "id">>, <<"switch", "(", "id", ")", "{", "case", "(", "id">>,
                  <<"case", "(", "id">>, <<"do", "id", ";", "(", "id">>,
                  <<"id", ";">>, <<"id", ";", "}">>} \cup
                 Singles({"}", ")", ";"})]

(* Declarations of modules and of types. *)
Definitions ==
    [length |-> 9, errors |-> 2,
     phrases |-> {<<"module", "id", ";">>, <<"import", "id">>, <<"var", "id">>,
                  <<"class", "id", "{">>, <<"fn", "id", "(", ")">>} \cup
                 Singles({"static", ";", "}"})]

(* Enumerations and what stands before their braces. *)
Enumerations ==
    [length |-> 10, errors |-> 2,
     phrases |-> {<<"enum", "id">>, <<"enum", "union", "id">>, <<"case", "id", "(">>,
                  <<"=", "id">>, <<"<", "id">>, <<"(", "id">>} \cup
                 Singles({"id", ",", "{", "}", ">", ")"})]

(* A module's name. *)
Headers == [length |-> 5, errors |-> 2,
            phrases |-> Singles({"module", "id", ".", ";", "import", "space"})]

(* A type and its members. *)
Classes == [length |-> 5, errors |-> 2,
            phrases |-> Singles({"class", "id", "{", "}", ";", "var"})]

All == {Functions, Bodies, Definitions, Enumerations}
HeadersOnly == {Headers}
ClassesOnly == {Classes}
=============================================================================
