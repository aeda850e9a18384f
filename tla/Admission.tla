----------------------------- MODULE Admission -----------------------------
(***************************************************************************)
(* Admission of a pod: mutate() and resolveRules() of the webhook          *)
(* (pkg/webhook/handler.go), the merging of MaskingPolicy rules with the   *)
(* rules of the pod's annotations (pkg/rules), and the encoding of the     *)
(* result for the sidecar.  Users edit policies while requests are served. *)
(* A handler shares nothing with another request, so requests come one     *)
(* after the other.                                                        *)
(*                                                                         *)
(* Names, regular expressions and JSON field names are strings; "" is an   *)
(* absent one and " " a field of blanks.                                   *)
(***************************************************************************)
EXTENDS Naturals, Sequences, SequencesExt, FiniteSets, Filter

CONSTANTS
    Library,    \* names of the built-in patterns
    SafeRegex,  \* regular expressions that pass Validate and compile
    PolicySpec, \* what a MaskingPolicy may say: [selector, patterns, redactWith]
    NPolicy,    \* the policies of the namespace are 1..NPolicy, as listed
    Pod,        \* pods: [skip, labels, patterns, regexes, fields]
    MaxMoments  \* bound: how many policy sets one request may live through

\* A nil or empty selector, and one that LabelSelectorAsSelector cannot convert;
\* any other selector is the one label it asks for.
Everyone    == "everyone"
BadSelector == "bad selector"

\* A policy that does not exist contributes what one without patterns does.
Absent == [selector |-> Everyone, patterns |-> <<>>, redactWith |-> ""]

ASSUME AdmissionAssumption ==
    /\ NPolicy \in Nat
    /\ MaxMoments \in Nat \ {0}
    /\ "" \notin Library \cup SafeRegex
    /\ \A p \in Pod : BadSelector \notin p.labels /\ DOMAIN p.regexes \subseteq STRING \ {""}

PatternSpecs == [name : STRING, builtin : STRING, regex : STRING, field : STRING]

ASSUME ListAssumption ==
    /\ \A s \in PolicySpec : s.patterns \in Seq(PatternSpecs)
    /\ \A p \in Pod : /\ p.patterns \in Seq(STRING) /\ p.fields \in Seq(STRING)
                      /\ IsFiniteSet(DOMAIN p.regexes)

VARIABLES
    failurePolicy,  \* of the webhook's registration: "Ignore" or "Fail"
    policies,       \* the MaskingPolicies of the namespace
    pc,             \* the handler: "idle", "mutate" or "merge"
    pod,            \* the pod of the current or last request
    todo,           \* what Merge has yet to add: [spec, redactWith]
    rules,          \* Merge's result so far
    outcome,        \* of the last request: [by, created, env]
    moments         \* history: the policies during the current or last request

vars == <<failurePolicy, policies, pc, pod, todo, rules, outcome, moments>>

\* env is the value of LOGCLOAK_RULES in a set, empty when there is no sidecar.
Pending      == [by |-> "nobody", created |-> FALSE, env |-> {}]
Denied       == [by |-> "webhook", created |-> FALSE, env |-> {}]
Unpatched    == [by |-> "webhook", created |-> TRUE, env |-> {}]
Injected(e)  == [by |-> "webhook", created |-> TRUE, env |-> {e}]
Unanswered(f) == [by |-> "failurePolicy", created |-> f = "Ignore", env |-> {}]

Init ==
    /\ failurePolicy \in {"Ignore", "Fail"}
    /\ policies \in [1..NPolicy -> PolicySpec \cup {Absent}]
    /\ pc = "idle"
    /\ pod \in Pod
    /\ todo = <<>>
    /\ rules = <<>>
    /\ outcome = Pending
    /\ moments = {}

-----------------------------------------------------------------------------
(* Patterns and rules.  The pattern of a rule is a set: nil is the empty   *)
(* one.                                                                    *)

Blanks   == {"", " "}
Blank(f) == f \in Blanks

\* compileSpec returns an error.
\* Mutant: a spec with neither builtin, regex nor field is let through.
InvalidUnlessEmpty(s) ==
    \/ s.field # "" /\ (s.builtin # "" \/ s.regex # "" \/ Blank(s.field))
    \/ s.field = "" /\ s.builtin # "" /\ s.builtin \notin Library
    \/ s.field = "" /\ s.builtin = "" /\ s.regex \notin SafeRegex \cup {""}

Invalid(s) ==
    \/ s.field # "" /\ (s.builtin # "" \/ s.regex # "" \/ Blank(s.field))
    \/ s.field = "" /\ s.builtin # "" /\ s.builtin \notin Library
    \/ s.field = "" /\ s.builtin = "" /\ s.regex \notin SafeRegex

\* Mutant: an empty redactWith stays empty.
CompileEmpty(e) ==
    LET s == e.spec IN
    [name |-> s.name, field |-> s.field, replace |-> e.redactWith,
     pattern |-> IF s.field # "" THEN {}
                 ELSE IF s.builtin # "" THEN {s.builtin} ELSE {s.regex} \ {""}]

\* The rule of a valid entry; builtin takes precedence over regex.
Compile(e) ==
    LET s == e.spec IN
    [name |-> s.name,
     field |-> s.field,
     replace |-> IF e.redactWith = "" THEN "[REDACTED]" ELSE e.redactWith,
     pattern |-> IF s.field # "" THEN {}
                 ELSE IF s.builtin # "" THEN {s.builtin} ELSE {s.regex} \ {""}]

Serialize(rs) ==
    [i \in DOMAIN rs |->
        [name |-> rs[i].name, field |-> rs[i].field, replace |-> rs[i].replace,
         pattern |-> IF rs[i].pattern = {} THEN "" ELSE CHOOSE p \in rs[i].pattern : TRUE]]

\* What the sidecar compiles from LOGCLOAK_RULES; Parses: without an error.
Parses(env) ==
    \A i \in DOMAIN env : env[i].pattern \in Library \cup SafeRegex \cup {""}
Deserialize(env) ==
    [i \in DOMAIN env |->
        [name |-> env[i].name, field |-> env[i].field, replace |-> env[i].replace,
         pattern |-> {env[i].pattern} \ {""}]]

-----------------------------------------------------------------------------
(* The entries Merge goes through, in order.                               *)

\* A selector that does not parse matches no pod.
Matches(p, d) == p.selector = Everyone \/ p.selector \in d.labels

PolicyEntries(ps, d) ==
    LET entries(p) == [i \in DOMAIN p.patterns |->
                          [spec |-> p.patterns[i], redactWith |-> p.redactWith]]
    IN  FlattenSeq([n \in 1..NPolicy |-> IF Matches(ps[n], d) THEN entries(ps[n]) ELSE <<>>])

\* ParseAnnotations: the keys of the annotation map come in any order.
AnnotationEntries(d, keys) ==
    LET named   == Kept(d.patterns, STRING \ Blanks)
        custom  == Kept(keys, {k \in DOMAIN d.regexes : d.regexes[k] # ""})
        fields  == Kept(d.fields, STRING \ Blanks)
        spec(n, b, r, f) == [redactWith |-> "[REDACTED]",
                             spec |-> [name |-> n, builtin |-> b, regex |-> r, field |-> f]]
    IN  [i \in DOMAIN named |-> spec(named[i], named[i], "", "")]
        \o [i \in DOMAIN custom |-> spec(custom[i], "", d.regexes[custom[i]], "")]
        \o [i \in DOMAIN fields |-> spec("field:" \o fields[i], "", "", fields[i])]

\* Mutant: the annotations go first.
AnnotationsFirst(ps, d, keys) == AnnotationEntries(d, keys) \o PolicyEntries(ps, d)

Entries(ps, d, keys) == PolicyEntries(ps, d) \o AnnotationEntries(d, keys)

-----------------------------------------------------------------------------
(* The users and the API server.                                           *)

\* A policy is created, changed or deleted.
Edit ==
    /\ \E p \in 1..NPolicy, s \in PolicySpec \cup {Absent} :
          policies' = [policies EXCEPT ![p] = s]
    /\ moments' = IF pc = "idle" THEN moments ELSE moments \cup {policies'}
    /\ Cardinality(moments') <= MaxMoments
    /\ UNCHANGED <<failurePolicy, pc, pod, todo, rules, outcome>>

Submit ==
    /\ pc = "idle"
    /\ pc' = "mutate"
    /\ pod' \in Pod
    /\ outcome' = Pending
    /\ moments' = {policies}
    /\ UNCHANGED <<failurePolicy, policies, todo, rules>>

\* The request is over, and with it the local variables of its handler.
Answer(o) ==
    /\ pc' = "idle"
    /\ todo' = <<>>
    /\ rules' = <<>>
    /\ outcome' = o
    /\ UNCHANGED <<failurePolicy, policies, pod, moments>>

\* No replica can be called, or none answers within timeoutSeconds.
NoAnswer ==
    /\ pc # "idle"
    /\ Answer(Unanswered(failurePolicy))

-----------------------------------------------------------------------------
(* The handler.                                                            *)

Skip ==
    /\ pc = "mutate"
    /\ pod.skip
    /\ Answer(Unpatched)

BadAnnotation ==
    \/ \E k \in DOMAIN pod.regexes : pod.regexes[k] \notin SafeRegex \cup {""}
    \/ \E i \in DOMAIN pod.fields : Blank(pod.fields[i])

RejectAnnotation ==
    /\ pc = "mutate"
    /\ ~pod.skip
    /\ BadAnnotation
    /\ Answer(Denied)

ListPolicies ==
    /\ pc = "mutate"
    /\ ~pod.skip
    /\ ~BadAnnotation
    /\ \E keys \in SetToSeqs(DOMAIN pod.regexes) : todo' = Entries(policies, pod, keys)
    /\ pc' = "merge"
    /\ UNCHANGED <<failurePolicy, policies, pod, rules, outcome, moments>>

\* Mutant: the pod is admitted without rules when the policies cannot be read.
ListFailsOpen ==
    /\ pc = "mutate"
    /\ ~pod.skip
    /\ ~BadAnnotation
    /\ Answer(Unpatched)

ListFails ==
    /\ pc = "mutate"
    /\ ~pod.skip
    /\ ~BadAnnotation
    /\ Answer(Denied)

Seen(n) == \E i \in DOMAIN rules : rules[i].name = n

SkipDuplicate ==
    /\ pc = "merge"
    /\ todo # <<>>
    /\ Seen(Head(todo).spec.name)
    /\ todo' = Tail(todo)
    /\ UNCHANGED <<failurePolicy, policies, pc, pod, rules, outcome, moments>>

\* Mutant: names that are there already are not looked up.
AddUnchecked ==
    /\ pc = "merge"
    /\ todo # <<>>
    /\ ~Invalid(Head(todo).spec)
    /\ rules' = Append(rules, Compile(Head(todo)))
    /\ todo' = Tail(todo)
    /\ UNCHANGED <<failurePolicy, policies, pc, pod, outcome, moments>>

Add ==
    /\ pc = "merge"
    /\ todo # <<>>
    /\ ~Seen(Head(todo).spec.name)
    /\ ~Invalid(Head(todo).spec)
    /\ rules' = Append(rules, Compile(Head(todo)))
    /\ todo' = Tail(todo)
    /\ UNCHANGED <<failurePolicy, policies, pc, pod, outcome, moments>>

RejectRule ==
    /\ pc = "merge"
    /\ todo # <<>>
    /\ ~Seen(Head(todo).spec.name)
    /\ Invalid(Head(todo).spec)
    /\ Answer(Denied)

Inject ==
    /\ pc = "merge"
    /\ todo = <<>>
    /\ Answer(Injected(Serialize(rules)))

Handler ==
    \/ Skip \/ RejectAnnotation \/ ListPolicies \/ ListFails
    \/ SkipDuplicate \/ Add \/ RejectRule \/ Inject

Next == Edit \/ Submit \/ NoAnswer \/ Handler

Spec == Init /\ [][Next]_vars

-----------------------------------------------------------------------------
EntryOK(e) == DOMAIN e = {"spec", "redactWith"}
RuleOK(r) ==
    /\ r.replace # ""
    /\ Cardinality(r.pattern) <= 1
    /\ r.pattern \subseteq Library \cup SafeRegex

TypeOK ==
    /\ failurePolicy \in {"Ignore", "Fail"}
    /\ policies \in [1..NPolicy -> PolicySpec \cup {Absent}]
    /\ pc \in {"idle", "mutate", "merge"}
    /\ pod \in Pod
    /\ \A i \in DOMAIN todo : EntryOK(todo[i])
    /\ \A i \in DOMAIN rules : RuleOK(rules[i])
    /\ outcome.by \in {"nobody", "webhook", "failurePolicy"}
    /\ Cardinality(moments) <= MaxMoments

Sidecar == outcome.env # {}
Env     == CHOOSE e \in outcome.env : TRUE

(* The first entry of every name.                                          *)
Firsts(es) ==
    {i \in DOMAIN es : \A j \in DOMAIN es : es[j].spec.name = es[i].spec.name => i <= j}

(* The rules of an injected pod are those of its annotations and of the     *)
(* policies that matched it at one moment of its admission, however the     *)
(* policies were edited meanwhile: one rule for each name, the first, and   *)
(* none of them missing because it could not be compiled (resolveRules).    *)
RulesOfOneMoment ==
    Sidecar =>
        \E ps \in moments, keys \in SetToSeqs(DOMAIN pod.regexes) :
            LET es == Entries(ps, pod, keys)
                rs == {Compile(es[i]) : i \in Firsts(es)}
            IN  /\ \A i \in Firsts(es) : ~Invalid(es[i].spec)
                /\ Len(Env) = Cardinality(rs)
                /\ ToSet(Deserialize(Env)) = rs

(* "CRD rules are always included; annotation rules extend but cannot       *)
(* remove them" (Merge): the rules start with what the same pod gets        *)
(* without annotations.                                                     *)
AnnotationsExtend ==
    Sidecar =>
        \E ps \in moments :
            LET es == PolicyEntries(ps, pod)
                n  == Cardinality(Firsts(es))
            IN  /\ n <= Len(Env)
                /\ {Deserialize(Env)[i] : i \in 1..n} = {Compile(es[i]) : i \in Firsts(es)}

(* A pod the webhook was asked about runs without a sidecar only when it    *)
(* says so itself, and one it was not asked about only under                *)
(* failurePolicy Ignore: errors of any kind deny the pod (mutate).          *)
NoneUnmaskedByError ==
    outcome.created /\ ~Sidecar =>
        IF outcome.by = "webhook" THEN pod.skip ELSE failurePolicy = "Ignore"

(* The sidecar can use what the webhook encoded: LOGCLOAK_RULES parses, so  *)
(* drop-all mode is never entered, and every rule has a pattern or a field, *)
(* so MaskLine never calls a nil pattern (Serialize, Deserialize).          *)
SidecarCanMask ==
    Sidecar =>
        /\ Parses(Env)
        /\ \A i \in DOMAIN Env :
              LET r == Deserialize(Env)[i] IN r.field # "" \/ r.pattern # {}
=============================================================================
