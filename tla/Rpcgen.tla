------------------------------- MODULE Rpcgen -------------------------------
(***************************************************************************)
(* tools/rpcgen reads declarations of remote procedures.  Its input is a   *)
(* sequence of words; what each read_* function returns is a record of     *)
(* what it built and the position it stopped at, or Abort when an          *)
(* assertion of the reader fails.                                          *)
(***************************************************************************)
EXTENDS Integers, Sequences, FiniteSets, SequencesExt

Modifiers == {"oneway", "out"}
Typenames == {"void", "int", "string", "long", "blob"}
Punctuation == {"(", ")", "{", "}", ";", ","}
IsIdentifier(w) == w \notin Modifiers \cup Typenames \cup Punctuation

Abort == [ok |-> FALSE]
Is(s, p, w) == p <= Len(s) /\ s[p] = w
is_type(w) == w \in Typenames \cup Modifiers

(* The words of a type go on until a word that is neither a type name nor  *)
(* a modifier; there must be such a word, one type name and at most one    *)
(* modifier.                                                               *)
read_type(s, p) ==
    LET stops == {q \in p .. Len(s) : ~is_type(s[q])}
        q == Min(stops)
        names == {i \in p .. q - 1 : s[i] \in Typenames}
        mods == {i \in p .. q - 1 : s[i] \in Modifiers}
    IN IF stops = {} THEN Abort
       ELSE IF Cardinality(names) # 1 \/ Cardinality(mods) > 1 THEN Abort
       ELSE [ok |-> TRUE, pos |-> q,
             type |-> s[CHOOSE i \in names : TRUE],
             mod |-> IF mods = {} THEN "" ELSE s[CHOOSE i \in mods : TRUE]]

read_function_param(s, p) ==
    LET t == read_type(s, p)
    IN IF ~t.ok THEN Abort
       ELSE IF ~IsIdentifier(s[t.pos]) THEN Abort
       ELSE [ok |-> TRUE, pos |-> t.pos + 1, param |-> [type |-> t.type, mod |-> t.mod]]

(* Faulty: a parameter after the first replaces the ones before it. *)
RECURSIVE params_last(_, _, _)
params_last(s, p, params) ==
    IF p > Len(s) THEN Abort
    ELSE IF ~is_type(s[p]) THEN [ok |-> TRUE, pos |-> p, params |-> params]
    ELSE LET one == read_function_param(s, p)
         IN IF ~one.ok \/ one.pos > Len(s) THEN Abort
            ELSE IF s[one.pos] # "," THEN [ok |-> TRUE, pos |-> one.pos, params |-> <<one.param>>]
            ELSE params_last(s, one.pos + 1, <<one.param>>)

(* After a comma the list may end. *)
RECURSIVE read_function_param_list(_, _, _)
read_function_param_list(s, p, params) ==
    IF p > Len(s) THEN Abort
    ELSE IF ~is_type(s[p]) THEN [ok |-> TRUE, pos |-> p, params |-> params]
    ELSE LET one == read_function_param(s, p)
             more == Append(params, one.param)
         IN IF ~one.ok \/ one.pos > Len(s) THEN Abort
            ELSE IF s[one.pos] # "," THEN [ok |-> TRUE, pos |-> one.pos, params |-> more]
            ELSE read_function_param_list(s, one.pos + 1, more)

read_function(s, p) ==
    LET t == read_type(s, p)
        list == read_function_param_list(s, t.pos + 2, << >>)
    IN IF ~t.ok THEN Abort
       ELSE IF ~(IsIdentifier(s[t.pos]) /\ Is(s, t.pos + 1, "(")) THEN Abort
       ELSE IF ~list.ok THEN Abort
       ELSE IF ~(Is(s, list.pos, ")") /\ Is(s, list.pos + 1, ";")) THEN Abort
       ELSE [ok |-> TRUE, pos |-> list.pos + 2,
             fn |-> [name |-> s[t.pos], ret |-> t.type, mod |-> t.mod, params |-> list.params]]

RECURSIVE read_statements(_, _, _)
read_statements(s, p, fns) ==
    IF p > Len(s) THEN [ok |-> TRUE, fns |-> fns]
    ELSE LET f == read_function(s, p)
         IN IF ~f.ok THEN Abort ELSE read_statements(s, f.pos, Append(fns, f.fn))

(* What the generators refuse: results of type string and blob, parameters *)
(* of type void, one-way functions with a result.  A parameter with the    *)
(* modifier oneway becomes an empty argument, which the C compiler refuses.*)
Generates(f) ==
    /\ f.ret \in {"void", "int", "long"}
    /\ f.mod = "oneway" => f.ret = "void"
    /\ \A i \in DOMAIN f.params : f.params[i].type # "void" /\ f.params[i].mod # "oneway"
-----------------------------------------------------------------------------
(* tools/rpcgen/Grammar.txt, by splitting instead of reading on.  It and   *)
(* rpcgen disagree on words: void is no TYPENAME there (line 23) and so    *)
(* matches IDENTIFIER, and an IDENTIFIER starts with a letter or an        *)
(* underscore and has two characters at least (line 25).  NotNames are the *)
(* words of the instances that are none of Grammar.txt's tokens.           *)
GrammarTypenames == {"int", "string", "long", "blob"}
NotNames == {"x", "9th"}
GrammarIdentifier(w) == w \notin Modifiers \cup GrammarTypenames \cup Punctuation \cup NotNames

GrammarType(s) ==
    /\ Len(s) \in {1, 2}
    /\ Cardinality({i \in DOMAIN s : s[i] \in GrammarTypenames}) = 1
    /\ \A i \in DOMAIN s : s[i] \in GrammarTypenames \cup Modifiers
GrammarParam(s) == Len(s) > 1 /\ GrammarIdentifier(Last(s)) /\ GrammarType(Front(s))

(* The stretches between the commas of a parameter list. *)
Segments(s) ==
    LET cuts == {0, Len(s) + 1} \cup {i \in DOMAIN s : s[i] = ","}
    IN {c \in cuts \X cuts : c[1] < c[2] /\ ~\E m \in cuts : c[1] < m /\ m < c[2]}
GrammarParamList(s) ==
    \A c \in Segments(s) :
        \/ GrammarParam(SubSeq(s, c[1] + 1, c[2] - 1))
        \/ c = <<Len(s), Len(s) + 1>>

(* s is one declaration, its parameter list starting after position o.     *)
GrammarFunction(s, o) ==
    /\ o >= 3 /\ o <= Len(s) - 2 /\ s[o] = "(" /\ GrammarIdentifier(s[o - 1])
    /\ GrammarType(SubSeq(s, 1, o - 2))
    /\ s[Len(s) - 1] = ")" /\ s[Len(s)] = ";"
    /\ GrammarParamList(SubSeq(s, o + 1, Len(s) - 2))

(* The parameters it declares: one for each identifier of the list.        *)
GrammarParamTypes(s, o) ==
    LET ids == SetToSortSeq({i \in o + 1 .. Len(s) : GrammarIdentifier(s[i])}, <)
    IN [k \in DOMAIN ids |-> IF s[ids[k] - 1] \in GrammarTypenames THEN s[ids[k] - 1] ELSE s[ids[k] - 2]]

(* A source in the words of Grammar.txt: void read as one of its types,    *)
(* and what is not one of its identifiers as one.                          *)
InGrammarWords(s) ==
    [i \in DOMAIN s |-> IF s[i] = "void" THEN "int" ELSE IF s[i] \in NotNames THEN "name" ELSE s[i]]
=============================================================================
