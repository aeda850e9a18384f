----------------------------- MODULE MCMasking -----------------------------
(***************************************************************************)
(* Every plain line of at most four symbols and some with digits, objects  *)
(* of two members, one of which may be nested or both in an array, and one *)
(* of three, and rules whose matches overlap each other, themselves, a key *)
(* with its blank, an escaped symbol, and two members at once, are empty,  *)
(* or begin and end where a word does.                                     *)
(***************************************************************************)
EXTENDS Audit, TLC

Symbol == {"u", "@", "&"}
Digits == {<<"5", "5">>, <<"u", "@", "u", "5", "5">>, <<"@", "5", "5", "&", "5">>,
           <<"5", "5", "&", "u", "5", "5">>, <<"u", "u", "5", "5", "@", "5", "5">>}
Value  == UNION {[1..n -> Symbol] : n \in 1..4} \cup Digits
Plain  == {[object |-> FALSE, spaced |-> FALSE, members |-> <<[path |-> <<>>, value |-> v]>>] :
              v \in Value}
Paths  == {<<<<"id">>, <<"pwd">>>>, <<<<"pwd", "id">>, <<"pwd", "x">>>>,
           <<<<"a", "pwd">>, <<"id">>>>, <<<<"a", "[0]", "pwd">>, <<"a", "[1]", "pwd">>>>}
Object == {[object |-> TRUE, spaced |-> s,
            members |-> <<[path |-> ps[1], value |-> v], [path |-> ps[2], value |-> w]>>] :
              s \in BOOLEAN, ps \in Paths,
              v \in {<<"u", "@", "u">>, <<"&", "u">>}, w \in {<<"u", "u", "u">>, <<"u", "&">>}}
Three  == [object |-> TRUE, spaced |-> FALSE,
           members |-> <<[path |-> <<"pwd">>, value |-> <<"u">>],
                         [path |-> <<"x">>, value |-> <<"@", "u">>],
                         [path |-> <<"zip">>, value |-> <<"&", "@">>]>>]
MCLine == Plain \cup Object \cup {Three}

WordEnd == Boundary({"u", "5"})

MCWord == "mail" :> Literal(<<"u", "@", "u">>) @@ "user" :> <<Class({"u"}, "plus")>>
       @@ "pair" :> Literal(<<"u", "u">>) @@ "amp" :> Literal(<<"&", "u">>)
       @@ "handle" :> <<Class({"@"}, "one"), Class({"u", "&"}, "star")>>
       @@ "next" :> Literal(<<"u", ",", "zip", "u0026">>)
       @@ "entry" :> Literal(<<"id", " ", "u">>)
       @@ "otp" :> <<WordEnd>> \o Literal(<<"5", "5">>) \o <<WordEnd>>
       @@ "word" :> <<WordEnd, Class({"u", "5"}, "plus"), WordEnd>>
       @@ "any" :> <<Class({"@"}, "star")>>

MCLibrary == {"mail", "pair", "otp"}

PatternSpec(n, b, r) == [name |-> n, builtin |-> b, regex |-> r]
MCAuditPolicy == {
    <<PatternSpec("mail", "mail", "")>>,
    <<PatternSpec("otp", "otp", ""), PatternSpec("a", "", "any"), PatternSpec("p", "pair", "")>>,
    <<PatternSpec("pair", "mail", ""), PatternSpec("x", "", "amp")>>,
    <<PatternSpec("h", "", "handle"), PatternSpec("y", "pair", ""), PatternSpec("mail", "mail", "")>>,
    <<PatternSpec("x", "mail", ""), PatternSpec("x", "pair", ""), PatternSpec("amp", "", "amp")>>}

Regex(p)    == [name |-> p, pattern |-> p, field |-> "", replace |-> "[REDACTED]"]
Field(f, n) == [name |-> n, pattern |-> "", field |-> f, replace |-> "[REDACTED]"]

MCPolicyRules == {<<>>, <<Regex("mail"), Regex("user")>>, <<Regex("user"), Regex("amp")>>,
                  <<Field("pwd", "p"), Regex("entry")>>, <<Field("pwd", "p")>>,
                  <<Field("pwd", "p"), Regex("next")>>, <<Regex("entry"), Regex("amp")>>,
                  <<Regex("handle"), Regex("mail")>>, <<Regex("otp"), Regex("word")>>,
                  <<Regex("any"), Regex("otp")>>, <<Regex("otp")>>}
MCAddedRules  == {<<>>, <<Regex("pair"), Regex("mail")>>, <<Regex("pair")>>, <<Regex("user")>>,
                  <<Field("zip", "field:zip")>>, <<Field("x", "field:x")>>, <<Field("pwd", "field:pwd")>>,
                  <<Regex("amp"), Field("id", "field:id")>>}
=============================================================================
