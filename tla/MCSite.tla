------------------------------- MODULE MCSite -------------------------------
(***************************************************************************)
(* A form with two built-in patterns, of which phone-us is another one in  *)
(* the sidecar's library, and two rows whose expressions overlap, match    *)
(* nothing or are refused; a guide with two codes.                         *)
(***************************************************************************)
EXTENDS Site, RegexTokens

MCLetter    == {"O"}
MCDigit     == {"1"}
MCSeparator == {"-", "_"}
MCSpecial   == {"."}

Regex(ts, f) == [tokens |-> ts, fault |-> f]
Number       == Class({"1"}, "plus")
Edge         == Boundary({"O", "1"})

PhoneUS    == <<Class({"1"}, "one"), Class({"-"}, "star"), Class({"1"}, "one")>>
OTP        == <<Edge, Class({"1"}, "one"), Class({"1"}, "one"), Edge>>
MCBUILTINS == <<[name |-> "phone-us", pattern |-> Regex(PhoneUS, "none")],
                [name |-> "otp", pattern |-> Regex(OTP, "none")]>>
MCLibrary  == [n \in {"phone-us", "otp"} |->
                  Regex(IF n = "otp" THEN OTP ELSE <<Edge>> \o PhoneUS \o <<Edge>>, "none")]
MCName     == {"", "ord", "sku"}
MCTyped    == {Regex(<<>>, "none"), Regex(<<Class({"-"}, "star")>>, "none"),
               Regex(<<Edge, Class({"O"}, "one"), Class({"1"}, "star")>>, "none"),
               Regex(<<Number>>, "construct")}
MCSample   == {<<" ", "O", "-", "1", " ">>}
MCLog      == {<<"O", "-", "1", "O", "1", "-", "1", "1", "-", "O">>}
MCNamespaceInput == {""}  \* no property is about the namespace
MCcodes    == <<"built-in", "regex">>

\* PreviewAgreesWithSidecarHolds assumes it of the form's expressions.
ASSUME RedactedUnmatched ==
    \A r \in Tool!Expression : \A k \in DOMAIN r.tokens : "[REDACTED]" \notin r.tokens[k].chars
=============================================================================
