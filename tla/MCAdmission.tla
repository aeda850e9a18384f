---------------------------- MODULE MCAdmission ----------------------------
(***************************************************************************)
(* Two policies and pods whose annotations repeat, contradict and extend   *)
(* them.                                                                   *)
(***************************************************************************)
EXTENDS Admission, TLC

MCLibrary   == {"email", "ssn"}
MCSafeRegex == {"ord", "tok"}

PatternSpec(n, b, r, f) == [name |-> n, builtin |-> b, regex |-> r, field |-> f]
Policy(s, ps, w)  == [selector |-> s, patterns |-> ps, redactWith |-> w]

MCPolicySpec == {
    Policy(Everyone,
           <<PatternSpec("email", "email", "", ""), PatternSpec("id", "", "ord", "")>>, ""),
    Policy("app",
           <<PatternSpec("id", "ssn", "tok", ""), PatternSpec("field:pin", "", "", "pwd")>>, "[X]"),
    Policy("app", <<PatternSpec("id", "", "tok", ""), PatternSpec("none", "", "", "")>>, "[X]"),
    Policy("app", <<PatternSpec("mix", "ssn", "", "pin")>>, ""),
    Policy(BadSelector, <<PatternSpec("ssn", "ssn", "", "")>>, "") }

PodWith(s, l, p, r, f) ==
    [skip |-> s, labels |-> l, patterns |-> p, regexes |-> r, fields |-> f]

MCPod == {
    PodWith(FALSE, {"app"}, <<>>, <<>>, <<>>),
    PodWith(FALSE, {"app"}, <<"ssn", "", "email">>, "id" :> "tok" @@ "ssn" :> "ord", <<"pin">>),
    PodWith(FALSE, {"db"}, <<"id">>, "email" :> "tok" @@ "ord" :> "", <<"pwd", "pwd">>),
    PodWith(FALSE, {"app"}, <<>>, "id" :> "(?=", <<>>),
    PodWith(FALSE, {}, <<>>, <<>>, <<"pin", "">>),
    PodWith(TRUE, {"app"}, <<>>, "id" :> "(?=", <<>>) }
=============================================================================
