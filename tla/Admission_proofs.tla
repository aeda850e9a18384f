-------------------------- MODULE Admission_proofs --------------------------
(***************************************************************************)
(* Proofs about Admission for any policies, pods, built-in patterns and    *)
(* regular expressions: no error lets a pod through unmasked, the sidecar  *)
(* can use every rule the webhook encodes, and no two rules share a name.  *)
(***************************************************************************)
EXTENDS Admission, SequenceTheorems, InductionLemmas

Pattern == Library \cup SafeRegex

\* A rule with a pattern or a field, the pattern being one that compiles.
Usable(r) ==
    /\ r.field # "" \/ r.pattern # {}
    /\ r.pattern = {} \/ \E p \in Pattern : r.pattern = {p}

\* The same of a rule in LOGCLOAK_RULES.
Readable(s) ==
    /\ s.pattern \in Pattern \cup {""}
    /\ s.field # "" \/ s.pattern # ""

RulesUsable ==
    /\ \E S : rules \in Seq(S)
    /\ \A i \in DOMAIN rules : Usable(rules[i])

EnvReadable == \A e \in outcome.env : \A i \in DOMAIN e : Readable(e[i])

DistinctNames(rs) == \A i, j \in DOMAIN rs : rs[i].name = rs[j].name => i = j

\* One rule for each name, in Merge's result and in what the sidecar reads.
OneRulePerName ==
    /\ DistinctNames(rules)
    /\ \A e \in outcome.env : DistinctNames(e)

OutcomeExplained ==
    /\ failurePolicy \in {"Ignore", "Fail"}
    /\ outcome.created /\ outcome.env = {} =>
          IF outcome.by = "webhook" THEN pod.skip ELSE failurePolicy = "Ignore"

IInv == RulesUsable /\ EnvReadable /\ OneRulePerName /\ OutcomeExplained

-----------------------------------------------------------------------------
\* An entry that compileSpec accepts compiles to a usable rule of its name.
LEMMA CompiledUsable ==
  ASSUME NEW e, ~Invalid(e.spec)
  PROVE  Usable(Compile(e)) /\ Compile(e).name = e.spec.name
<1> DEFINE s == e.spec
<1>1. Compile(e).name = s.name /\ Compile(e).field = s.field
  BY DEF Compile
<1>2. CASE s.field # ""
  BY <1>1, <1>2 DEF Compile, Usable
<1>3. CASE s.field = "" /\ s.builtin # ""
  <2>1. Compile(e).pattern = {s.builtin}
    BY <1>3 DEF Compile
  <2>2. s.builtin \in Library
    BY <1>3 DEF Invalid
  <2>3. QED
    BY <1>1, <2>1, <2>2 DEF Usable, Pattern
<1>4. CASE s.field = "" /\ s.builtin = ""
  <2>1. s.regex \in SafeRegex
    BY <1>4 DEF Invalid
  <2>2. s.regex # ""
    BY <2>1, AdmissionAssumption
  <2>3. Compile(e).pattern = {s.regex}
    BY <1>4, <2>2 DEF Compile
  <2>4. QED
    BY <1>1, <2>1, <2>3 DEF Usable, Pattern
<1>5. QED
  BY <1>2, <1>3, <1>4

\* Encoding keeps the number of rules and their names, and makes usable rules
\* readable ones.
LEMMA SerializeReadable ==
  ASSUME NEW rs, \A i \in DOMAIN rs : Usable(rs[i])
  PROVE  /\ DOMAIN Serialize(rs) = DOMAIN rs
         /\ \A i \in DOMAIN rs :
               Serialize(rs)[i].name = rs[i].name /\ Readable(Serialize(rs)[i])
<1>1. DOMAIN Serialize(rs) = DOMAIN rs
  BY DEF Serialize
<1>2. SUFFICES ASSUME NEW i \in DOMAIN rs
               PROVE  Serialize(rs)[i].name = rs[i].name /\ Readable(Serialize(rs)[i])
  BY <1>1
<1>3. /\ Serialize(rs)[i].name = rs[i].name
      /\ Serialize(rs)[i].field = rs[i].field
      /\ Serialize(rs)[i].pattern =
            IF rs[i].pattern = {} THEN "" ELSE CHOOSE p \in rs[i].pattern : TRUE
  BY DEF Serialize
<1>4. Usable(rs[i])
  OBVIOUS
<1>5. CASE rs[i].pattern = {}
  BY <1>3, <1>4, <1>5 DEF Usable, Readable
<1>6. CASE rs[i].pattern # {}
  <2>1. PICK p \in Pattern : rs[i].pattern = {p}
    BY <1>4, <1>6 DEF Usable
  <2>2. (CHOOSE q \in {p} : TRUE) = p
    OBVIOUS
  <2>3. Serialize(rs)[i].pattern = p
    BY <1>3, <1>6, <2>1, <2>2
  <2>4. p # ""
    BY AdmissionAssumption DEF Pattern
  <2>5. QED
    BY <1>3, <2>3, <2>4 DEF Readable
<1>7. QED
  BY <1>5, <1>6

\* What Append does to a sequence over any set.
LEMMA AppendAny ==
  ASSUME NEW s, NEW x, \E S : s \in Seq(S)
  PROVE  /\ \E S : Append(s, x) \in Seq(S)
         /\ DOMAIN Append(s, x) = DOMAIN s \cup {Len(s) + 1}
         /\ Len(s) + 1 \notin DOMAIN s
         /\ \A i \in DOMAIN s : Append(s, x)[i] = s[i]
         /\ Append(s, x)[Len(s) + 1] = x
<1>1. PICK S : s \in Seq(S)
  OBVIOUS
<1> DEFINE T == S \cup {x}
<1>2. s \in Seq(T) /\ x \in T
  BY <1>1
<1> HIDE DEF T
<1>3. Append(s, x) \in Seq(T)
  BY <1>2
<1>4. QED
  BY <1>2, <1>3

-----------------------------------------------------------------------------
\* Nothing has been answered or merged yet.
LEMMA InvInit == Init => IInv
<1>1. SUFFICES ASSUME Init
               PROVE  IInv
  OBVIOUS
<1>2. rules = <<>> /\ outcome.env = {} /\ ~outcome.created
  BY <1>1 DEF Init, Pending
<1>3. RulesUsable
  <2>1. rules \in Seq({})
    BY <1>2
  <2>2. QED
    BY <1>2, <2>1 DEF RulesUsable
<1>4. EnvReadable /\ OneRulePerName
  BY <1>2 DEF EnvReadable, OneRulePerName, DistinctNames
<1>5. OutcomeExplained
  BY <1>1, <1>2 DEF OutcomeExplained, Init
<1>6. QED
  BY <1>3, <1>4, <1>5 DEF IInv

\* An answer without a sidecar leaves no rules behind, so it has to be explained.
LEMMA AnswerWithout ==
  ASSUME IInv, NEW o, Answer(o), o.env = {},
         o.created => IF o.by = "webhook" THEN pod.skip ELSE failurePolicy = "Ignore"
  PROVE  IInv'
<1>1. rules' = <<>> /\ outcome' = o /\ UNCHANGED <<failurePolicy, pod>>
  BY DEF Answer
<1>2. RulesUsable'
  <2>1. rules' \in Seq({})
    BY <1>1
  <2>2. QED
    BY <1>1, <2>1 DEF RulesUsable
<1>3. EnvReadable' /\ OneRulePerName'
  BY <1>1 DEF EnvReadable, OneRulePerName, DistinctNames
<1>4. OutcomeExplained'
  BY <1>1 DEF OutcomeExplained, IInv
<1>5. QED
  BY <1>2, <1>3, <1>4 DEF IInv

\* The invariant is inductive.
LEMMA InvStep == IInv /\ [Next]_vars => IInv'
<1> SUFFICES ASSUME IInv, [Next]_vars
             PROVE  IInv'
  OBVIOUS
<1> USE DEF IInv
<1>1. CASE rules' = rules /\ UNCHANGED <<failurePolicy, pod, outcome>>
  BY <1>1 DEF RulesUsable, EnvReadable, OneRulePerName, DistinctNames, OutcomeExplained
<1>2. CASE Submit
  <2>1. rules' = rules /\ failurePolicy' = failurePolicy /\ outcome' = Pending
    BY <1>2 DEF Submit
  <2>2. outcome'.env = {} /\ ~outcome'.created
    BY <2>1 DEF Pending
  <2>3. QED
    BY <2>1, <2>2 DEF RulesUsable, EnvReadable, OneRulePerName, DistinctNames,
                      OutcomeExplained
<1>3. CASE NoAnswer
  BY <1>3, AnswerWithout DEF NoAnswer, Unanswered, OutcomeExplained
<1>4. CASE Skip
  BY <1>4, AnswerWithout DEF Skip, Unpatched
<1>5. CASE RejectAnnotation \/ ListFails \/ RejectRule
  <2>1. Answer(Denied)
    BY <1>5 DEF RejectAnnotation, ListFails, RejectRule
  <2>2. QED
    BY <2>1, AnswerWithout DEF Denied
<1>6. CASE Add
  <2> DEFINE e == Head(todo)
             new == Compile(e)
             n == Len(rules) + 1
  <2>1. /\ ~Seen(e.spec.name) /\ ~Invalid(e.spec)
        /\ rules' = Append(rules, new)
        /\ UNCHANGED <<failurePolicy, pod, outcome>>
    BY <1>6 DEF Add
  <2>2. Usable(new) /\ new.name = e.spec.name
    BY <2>1, CompiledUsable
  <2> HIDE DEF e, new
  <2>3. /\ \E S : rules' \in Seq(S)
        /\ DOMAIN rules' = DOMAIN rules \cup {n}
        /\ n \notin DOMAIN rules
        /\ \A i \in DOMAIN rules : rules'[i] = rules[i]
        /\ rules'[n] = new
    <3>1. \E S : rules \in Seq(S)
      BY DEF RulesUsable
    <3>2. /\ \E S : Append(rules, new) \in Seq(S)
          /\ DOMAIN Append(rules, new) = DOMAIN rules \cup {Len(rules) + 1}
          /\ Len(rules) + 1 \notin DOMAIN rules
          /\ \A i \in DOMAIN rules : Append(rules, new)[i] = rules[i]
          /\ Append(rules, new)[Len(rules) + 1] = new
      BY ONLY <3>1, AppendAny, Zenon
    <3>3. QED
      BY <2>1, <3>2
  <2> HIDE DEF n
  <2>4. RulesUsable'
    BY <2>2, <2>3 DEF RulesUsable, Usable
  <2>5. \A i \in DOMAIN rules : rules[i].name # new.name
    BY <2>1, <2>2 DEF Seen
  <2>6. DistinctNames(rules')
    BY <2>3, <2>5 DEF OneRulePerName, DistinctNames
  <2>7. EnvReadable' /\ OneRulePerName' /\ OutcomeExplained'
    BY <2>1, <2>6 DEF EnvReadable, OneRulePerName, DistinctNames, OutcomeExplained
  <2>8. QED
    BY <2>4, <2>7
<1>7. CASE Inject
  <2> DEFINE e == Serialize(rules)
  <2>1. rules' = <<>> /\ outcome' = Injected(e) /\ failurePolicy' = failurePolicy
    BY <1>7 DEF Inject, Answer
  <2>2. /\ DOMAIN e = DOMAIN rules
        /\ \A i \in DOMAIN rules : e[i].name = rules[i].name /\ Readable(e[i])
    BY SerializeReadable DEF RulesUsable
  <2> HIDE DEF e
  <2>3. outcome'.env = {e}
    BY <2>1 DEF Injected
  <2>4. RulesUsable'
    <3>1. rules' \in Seq({})
      BY <2>1
    <3>2. QED
      BY <2>1, <3>1 DEF RulesUsable
  <2>5. EnvReadable'
    BY <2>2, <2>3 DEF EnvReadable
  <2>6. OneRulePerName'
    BY <2>1, <2>2, <2>3 DEF OneRulePerName, DistinctNames
  <2>7. OutcomeExplained'
    BY <2>1, <2>3 DEF OutcomeExplained
  <2>8. QED
    BY <2>4, <2>5, <2>6, <2>7
<1>8. CASE Edit \/ ListPolicies \/ SkipDuplicate \/ UNCHANGED vars
  BY <1>1, <1>8 DEF Edit, ListPolicies, SkipDuplicate, vars
<1>9. QED
  BY <1>2, <1>3, <1>4, <1>5, <1>6, <1>7, <1>8 DEF Next, Handler

\* The invariant holds in every reachable state.
THEOREM Inductive == Spec => []IInv
<1>1. QED
  BY InvInit, InvStep, PTL DEF Spec

(* A pod that runs without a sidecar asked for it, or was not answered      *)
(* under failurePolicy Ignore (mutate denies a pod on every error).         *)
THEOREM NoneUnmaskedByErrorHolds == Spec => []NoneUnmaskedByError
<1>1. IInv => NoneUnmaskedByError
  BY DEF IInv, OutcomeExplained, NoneUnmaskedByError, Sidecar
<1>2. QED
  BY <1>1, Inductive, PTL

(* LOGCLOAK_RULES always parses, and each of its rules has a pattern or a   *)
(* field for MaskLine to use (Serialize, Deserialize).                      *)
THEOREM SidecarCanMaskHolds == Spec => []SidecarCanMask
<1>1. IInv => SidecarCanMask
  <2>1. SUFFICES ASSUME IInv, Sidecar
                 PROVE  /\ Parses(Env)
                        /\ \A i \in DOMAIN Env :
                              \/ Deserialize(Env)[i].field # ""
                              \/ Deserialize(Env)[i].pattern # {}
    BY DEF SidecarCanMask
  <2>2. Env \in outcome.env
    BY <2>1 DEF Sidecar, Env
  <2>3. \A i \in DOMAIN Env : Readable(Env[i])
    BY <2>1, <2>2 DEF IInv, EnvReadable
  <2>4. Parses(Env)
    BY <2>3 DEF Parses, Readable, Pattern
  <2>5. ASSUME NEW i \in DOMAIN Env
        PROVE  Deserialize(Env)[i].field # "" \/ Deserialize(Env)[i].pattern # {}
    <3>1. /\ Deserialize(Env)[i].field = Env[i].field
          /\ Deserialize(Env)[i].pattern = {Env[i].pattern} \ {""}
      BY DEF Deserialize
    <3>2. QED
      BY <2>3, <3>1 DEF Readable
  <2>6. QED
    BY <2>4, <2>5
<1>2. QED
  BY <1>1, Inductive, PTL

(* Whatever policies and annotations repeat, the sidecar gets one rule for  *)
(* each name ("Deduplication is by Name - first occurrence wins", Merge).   *)
THEOREM OneRulePerNameHolds == Spec => []OneRulePerName
<1>1. IInv => OneRulePerName
  BY DEF IInv
<1>2. QED
  BY <1>1, Inductive, PTL

-----------------------------------------------------------------------------
(* The entries Merge goes through are a sequence.                          *)

\* A sequence of entries.
Lists(s) == \E S : s \in Seq(S) /\ \A e \in S : EntryOK(e)

LEMMA FunctionIsSeq ==
  ASSUME NEW n \in Nat, NEW s, s = [i \in 1..n |-> s[i]], \A i \in 1..n : EntryOK(s[i])
  PROVE  Lists(s)
<1> DEFINE S == {s[i] : i \in 1..n}
<1>1. s \in [1..n -> S]
  OBVIOUS
<1>2. s \in Seq(S)
  <2> HIDE DEF S
  <2>1. QED
    BY <1>1
<1>3. \A e \in S : EntryOK(e)
  OBVIOUS
<1> HIDE DEF S
<1>4. QED
  BY <1>2, <1>3 DEF Lists

LEMMA ConcatIsSeq ==
  ASSUME NEW s, NEW t, Lists(s), Lists(t)
  PROVE  \E S : /\ s \in Seq(S) /\ t \in Seq(S) /\ s \o t \in Seq(S)
                /\ \A e \in S : EntryOK(e)
<1>1. PICK S : s \in Seq(S) /\ \A e \in S : EntryOK(e)
  BY DEF Lists
<1>2. PICK T : t \in Seq(T) /\ \A e \in T : EntryOK(e)
  BY DEF Lists
<1> DEFINE U == S \cup T
<1>3. s \in Seq(U) /\ t \in Seq(U) /\ \A e \in U : EntryOK(e)
  BY <1>1, <1>2
<1> HIDE DEF U
<1>4. s \o t \in Seq(U)
  BY <1>3, ConcatProperties
<1>5. QED
  BY <1>3, <1>4

PolicySet == [1..NPolicy -> PolicySpec \cup {Absent}]

LEMMA PolicyEntriesIsSeq ==
  ASSUME NEW ps \in PolicySet, NEW d
  PROVE  Lists(PolicyEntries(ps, d))
<1> DEFINE entries(p) == [i \in DOMAIN p.patterns |->
                            [spec |-> p.patterns[i], redactWith |-> p.redactWith]]
           part == [n \in 1..NPolicy |-> IF Matches(ps[n], d) THEN entries(ps[n]) ELSE <<>>]
           S    == UNION {{entries(ps[n])[i] : i \in DOMAIN ps[n].patterns} : n \in 1..NPolicy}
<1>1. NPolicy \in Nat
  BY AdmissionAssumption
<1>2. \A n \in 1..NPolicy : ps[n].patterns \in Seq(PatternSpecs)
  <2> SUFFICES ASSUME NEW n \in 1..NPolicy PROVE ps[n].patterns \in Seq(PatternSpecs)
    OBVIOUS
  <2>1. CASE ps[n] \in PolicySpec
    BY <2>1, ListAssumption
  <2>2. CASE ps[n] = Absent
    <3>1. Absent.patterns = <<>>
      BY DEF Absent
    <3>2. <<>> \in Seq(PatternSpecs)
      OBVIOUS
    <3>3. QED
      BY <2>2, <3>1, <3>2
  <2>3. QED
    BY <2>1, <2>2 DEF PolicySet
<1>3. part \in [1..NPolicy -> Seq(S)]
  <2> SUFFICES ASSUME NEW n \in 1..NPolicy PROVE part[n] \in Seq(S)
    OBVIOUS
  <2>1. entries(ps[n]) \in Seq(S)
    <3> DEFINE m == Len(ps[n].patterns)
    <3>1. m \in Nat /\ DOMAIN ps[n].patterns = 1..m
      BY <1>2, LenProperties
    <3>2. \A i \in DOMAIN ps[n].patterns : entries(ps[n])[i] \in S
      OBVIOUS
    <3>3. entries(ps[n]) = [i \in 1..m |-> entries(ps[n])[i]]
      BY <3>1
    <3> HIDE DEF m, S
    <3>4. entries(ps[n]) \in [1..m -> S]
      BY <3>1, <3>2, <3>3
    <3>5. QED
      BY <3>1, <3>4
  <2>2. <<>> \in Seq(S)
    OBVIOUS
  <2> HIDE DEF S
  <2>3. QED
    BY <2>1, <2>2
<1>4. \A e \in S : EntryOK(e)
  <2>1. ASSUME NEW n \in 1..NPolicy, NEW i \in DOMAIN ps[n].patterns
        PROVE  EntryOK(entries(ps[n])[i])
    <3>1. entries(ps[n])[i] = [spec |-> ps[n].patterns[i], redactWith |-> ps[n].redactWith]
      OBVIOUS
    <3> HIDE DEF entries
    <3>2. QED
      BY <3>1 DEF EntryOK
  <2> HIDE DEF entries
  <2>2. QED
    BY <2>1, Zenon
<1>5. PolicyEntries(ps, d) = FlattenSeq(part)
  BY DEF PolicyEntries
<1> HIDE DEF part, S
<1>6. part \in Seq(Seq(S))
  BY <1>1, <1>3
<1>7. FlattenSeq(part) \in Seq(S)
  BY <1>6, Flattened
<1>8. QED
  BY <1>4, <1>5, <1>7 DEF Lists

Orders(d) == SetToSeqs(DOMAIN d.regexes)

LEMMA AnnotationEntriesIsSeq ==
  ASSUME NEW d \in Pod, NEW keys \in Orders(d)
  PROVE  Lists(AnnotationEntries(d, keys))
<1> DEFINE named   == Kept(d.patterns, STRING \ Blanks)
           custom  == Kept(keys, {k \in DOMAIN d.regexes : d.regexes[k] # ""})
           fields  == Kept(d.fields, STRING \ Blanks)
           spec(n, b, r, f) == [redactWith |-> "[REDACTED]",
                                spec |-> [name |-> n, builtin |-> b, regex |-> r, field |-> f]]
           one   == [i \in DOMAIN named |-> spec(named[i], named[i], "", "")]
           two   == [i \in DOMAIN custom |-> spec(custom[i], "", d.regexes[custom[i]], "")]
           three == [i \in DOMAIN fields |-> spec("field:" \o fields[i], "", "", fields[i])]
<1>1. keys \in Seq(DOMAIN d.regexes)
  <2>1. Cardinality(DOMAIN d.regexes) \in Nat
    BY ListAssumption, FS_CardinalityType
  <2>2. QED
    BY <2>1 DEF Orders, SetToSeqs
<1>2. named \in Seq(STRING) /\ custom \in Seq(DOMAIN d.regexes) /\ fields \in Seq(STRING)
  <2>1. d.patterns \in Seq(STRING) /\ d.fields \in Seq(STRING)
    BY ListAssumption
  <2> DEFINE given == {k \in DOMAIN d.regexes : d.regexes[k] # ""}
             said  == STRING \ Blanks
  <2>2. /\ named \in Seq(STRING \cap said) /\ fields \in Seq(STRING \cap said)
        /\ custom \in Seq(DOMAIN d.regexes \cap given)
    <3> HIDE DEF given, said
    <3>1. /\ Kept(d.patterns, said) \in Seq(STRING \cap said)
          /\ Kept(d.fields, said) \in Seq(STRING \cap said)
          /\ Kept(keys, given) \in Seq(DOMAIN d.regexes \cap given)
      BY <1>1, <2>1, KeptIsSeq
    <3>2. QED
      BY <3>1 DEF given, said
  <2> HIDE DEF given, said, named, custom, fields
  <2>3. QED
    BY <2>2
<1> HIDE DEF named, custom, fields
<1>3. /\ Len(named) \in Nat /\ DOMAIN named = 1..Len(named)
      /\ Len(custom) \in Nat /\ DOMAIN custom = 1..Len(custom)
      /\ Len(fields) \in Nat /\ DOMAIN fields = 1..Len(fields)
  BY <1>2
<1>4. /\ one = [i \in 1..Len(named) |-> one[i]]
      /\ two = [i \in 1..Len(custom) |-> two[i]]
      /\ three = [i \in 1..Len(fields) |-> three[i]]
  BY <1>3
<1>10. /\ \A i \in 1..Len(named) : EntryOK(one[i])
       /\ \A i \in 1..Len(custom) : EntryOK(two[i])
       /\ \A i \in 1..Len(fields) : EntryOK(three[i])
  BY <1>3 DEF EntryOK
<1> HIDE DEF one, two, three
<1>5. Lists(one) /\ Lists(two) /\ Lists(three)
  BY <1>3, <1>4, <1>10, FunctionIsSeq
<1>6. Lists(one \o two)
  BY <1>5, ConcatIsSeq DEF Lists
<1>7. Lists((one \o two) \o three)
  BY <1>5, <1>6, ConcatIsSeq DEF Lists
<1>8. AnnotationEntries(d, keys) = (one \o two) \o three
  BY DEF AnnotationEntries, one, two, three, named, custom, fields
<1>9. QED
  BY <1>7, <1>8

LEMMA EntriesIsSeq ==
  ASSUME NEW ps \in PolicySet, NEW d \in Pod, NEW keys \in Orders(d)
  PROVE  \E S : /\ PolicyEntries(ps, d) \in Seq(S) /\ AnnotationEntries(d, keys) \in Seq(S)
                /\ Entries(ps, d, keys) \in Seq(S) /\ \A e \in S : EntryOK(e)
<1>1. Lists(PolicyEntries(ps, d)) /\ Lists(AnnotationEntries(d, keys))
  BY PolicyEntriesIsSeq, AnnotationEntriesIsSeq
<1>2. QED
  BY <1>1, ConcatIsSeq DEF Entries

-----------------------------------------------------------------------------
(* Merge.                                                                  *)

UpTo(es, n) == {i \in Firsts(es) : i <= n}

\* rs is what Merge makes of the first n entries, and at[k] the entry of rule k.
MergedAs(es, n, rs, m, at) ==
    /\ at \in [1..m -> UpTo(es, n)]
    /\ \A i, k \in 1..m : i < k => at[i] < at[k]
    /\ \A i \in UpTo(es, n) : \E k \in 1..m : at[k] = i
    /\ rs = [k \in 1..m |-> Compile(es[at[k]])]

Merged(es, n, rs) ==
    /\ \A i \in UpTo(es, n) : ~Invalid(es[i].spec)
    /\ \E m \in Nat : \E at : MergedAs(es, n, rs, m, at)

LEMMA CompiledName == \A e : Compile(e).name = e.spec.name
  BY DEF Compile

LEMMA FirstOfName ==
  ASSUME NEW S, NEW es \in Seq(S), NEW j \in DOMAIN es
  PROVE  \E i \in Firsts(es) : i <= j /\ es[i].spec.name = es[j].spec.name
<1> DEFINE T == {i \in DOMAIN es : es[i].spec.name = es[j].spec.name}
<1>1. DOMAIN es = 1..Len(es) /\ Len(es) \in Nat
  OBVIOUS
<1>2. T \in SUBSET Nat /\ j \in T
  BY <1>1
<1>3. PICK i \in T : \A m \in T : i <= m
  <2> HIDE DEF T
  <2>1. QED
    BY <1>2, LeastNumber
<1>4. i \in Firsts(es)
  BY <1>3 DEF Firsts
<1>5. QED
  BY <1>2, <1>3, <1>4

LEMMA MergeBegins ==
  ASSUME NEW S, NEW es \in Seq(S)
  PROVE  Merged(es, 0, <<>>)
<1>1. UpTo(es, 0) = {}
  <2>1. \A i \in Firsts(es) : i \in 1..Len(es)
    BY DEF Firsts
  <2>2. QED
    BY <2>1 DEF UpTo
<1> DEFINE at == [k \in 1..0 |-> k]
<1>2. MergedAs(es, 0, <<>>, 0, at)
  BY <1>1 DEF MergedAs
<1>3. QED
  BY <1>1, <1>2 DEF Merged

\* An entry whose name is there adds nothing.
LEMMA MergeSkips ==
  ASSUME NEW S, NEW es \in Seq(S), NEW n \in Nat, n + 1 \in DOMAIN es, NEW rs, Merged(es, n, rs),
         \E k \in DOMAIN rs : rs[k].name = es[n + 1].spec.name
  PROVE  Merged(es, n + 1, rs)
<1>0. PICK m \in Nat : \E at : MergedAs(es, n, rs, m, at)
  BY DEF Merged
<1>1. PICK at : MergedAs(es, n, rs, m, at)
  BY <1>0
<1>2. PICK k \in 1..m : rs[k].name = es[n + 1].spec.name
  BY <1>1 DEF MergedAs
<1>3. at[k] \in DOMAIN es /\ at[k] <= n /\ es[at[k]].spec.name = es[n + 1].spec.name
  BY <1>1, <1>2, CompiledName DEF MergedAs, UpTo, Firsts
<1>4. n + 1 \notin Firsts(es)
  <2>1. at[k] \in Int
    BY <1>3
  <2>2. ~(n + 1 <= at[k])
    BY <1>3, <2>1
  <2>3. QED
    BY <1>3, <2>2 DEF Firsts
<1>5. UpTo(es, n + 1) = UpTo(es, n)
  <2>1. \A i \in Firsts(es) : i \in Int /\ i # n + 1
    BY <1>4 DEF Firsts
  <2>2. ASSUME NEW i \in Firsts(es) PROVE i <= n + 1 <=> i <= n
    <3>1. i \in Int /\ i # n + 1
      BY <2>1
    <3>2. QED
      BY <3>1
  <2>3. QED
    BY <2>2 DEF UpTo
<1>6. MergedAs(es, n + 1, rs, m, at)
  BY <1>1, <1>5 DEF MergedAs
<1>7. \A i \in UpTo(es, n + 1) : ~Invalid(es[i].spec)
  BY <1>5 DEF Merged
<1>8. QED
  BY <1>6, <1>7 DEF Merged

\* An entry with a new name adds its rule.
LEMMA MergeAdds ==
  ASSUME NEW S, NEW es \in Seq(S), NEW n \in Nat, n + 1 \in DOMAIN es, NEW rs, Merged(es, n, rs),
         \A k \in DOMAIN rs : rs[k].name # es[n + 1].spec.name, ~Invalid(es[n + 1].spec)
  PROVE  Merged(es, n + 1, Append(rs, Compile(es[n + 1])))
<1>0. PICK m \in Nat : \E at : MergedAs(es, n, rs, m, at)
  BY DEF Merged
<1>1. PICK at : MergedAs(es, n, rs, m, at)
  BY <1>0
<1>2. \A i \in Firsts(es) : i \in 1..Len(es) /\ i \in Int
  BY DEF Firsts
<1>3. n + 1 \in Firsts(es)
  <2>1. PICK i \in Firsts(es) : i <= n + 1 /\ es[i].spec.name = es[n + 1].spec.name
    BY FirstOfName
  <2>2. CASE i <= n
    <3>1. i \in UpTo(es, n)
      BY <2>1, <2>2 DEF UpTo
    <3>2. PICK k \in 1..m : at[k] = i
      BY <1>1, <3>1 DEF MergedAs
    <3>3. k \in DOMAIN rs /\ rs[k].name = es[i].spec.name
      BY <1>1, <3>2, CompiledName DEF MergedAs
    <3>4. QED
      BY <2>1, <3>3
  <2>3. CASE i = n + 1
    BY <2>1, <2>3
  <2>4. QED
    BY <1>2, <2>1, <2>2, <2>3
<1>4. UpTo(es, n + 1) = UpTo(es, n) \cup {n + 1} /\ n + 1 \notin UpTo(es, n)
  <2>1. \A i \in Firsts(es) : i <= n + 1 <=> i <= n \/ i = n + 1
    BY <1>2
  <2>2. ~(n + 1 <= n)
    OBVIOUS
  <2>3. QED
    BY <1>3, <2>1, <2>2 DEF UpTo
<1> DEFINE m2  == m + 1
           at2 == [k \in 1..m2 |-> IF k = m2 THEN n + 1 ELSE at[k]]
           rs2 == Append(rs, Compile(es[n + 1]))
<1>5. \A k \in 1..m2 : k = m2 \/ (k \in 1..m /\ k # m2)
  OBVIOUS
<1>6. at2 \in [1..m2 -> UpTo(es, n + 1)]
  <2>1. \A k \in 1..m : at[k] \in UpTo(es, n)
    BY <1>1 DEF MergedAs
  <2>2. QED
    BY <1>4, <1>5, <2>1
<1>7. \A i, k \in 1..m2 : i < k => at2[i] < at2[k]
  <2> SUFFICES ASSUME NEW i \in 1..m2, NEW k \in 1..m2, i < k PROVE at2[i] < at2[k]
    OBVIOUS
  <2>1. i \in 1..m /\ i # m2
    BY <1>5
  <2>2. at[i] \in UpTo(es, n)
    BY <1>1, <2>1 DEF MergedAs
  <2>3. at[i] \in Int /\ at[i] <= n
    BY <1>2, <2>2 DEF UpTo
  <2>4. CASE k = m2
    BY <2>1, <2>3, <2>4
  <2>5. CASE k \in 1..m /\ k # m2
    BY <1>1, <2>1, <2>5 DEF MergedAs
  <2>6. QED
    BY <1>5, <2>4, <2>5
<1>8. \A i \in UpTo(es, n + 1) : \E k \in 1..m2 : at2[k] = i
  <2> SUFFICES ASSUME NEW i \in UpTo(es, n + 1) PROVE \E k \in 1..m2 : at2[k] = i
    OBVIOUS
  <2>1. CASE i = n + 1
    <3>1. m2 \in 1..m2 /\ at2[m2] = n + 1
      OBVIOUS
    <3>2. QED
      BY <2>1, <3>1
  <2>2. CASE i \in UpTo(es, n)
    <3>1. PICK k \in 1..m : at[k] = i
      BY <1>1, <2>2 DEF MergedAs
    <3>2. k \in 1..m2 /\ k # m2
      OBVIOUS
    <3>3. QED
      BY <3>1, <3>2
  <2>3. QED
    BY <1>4, <2>1, <2>2
<1>9. rs2 = [k \in 1..m2 |-> Compile(es[at2[k]])]
  <2> DEFINE T == {Compile(es[i]) : i \in UpTo(es, n + 1)}
  <2>1. /\ rs \in [1..m -> T] /\ Compile(es[n + 1]) \in T
        /\ \A k \in 1..m : rs[k] = Compile(es[at[k]])
    BY <1>1, <1>4 DEF MergedAs
  <2> HIDE DEF T
  <2>2. rs \in Seq(T) /\ Len(rs) = m
    BY <2>1
  <2>3. /\ rs2 \in Seq(T) /\ DOMAIN rs2 = 1..m2 /\ rs2[m2] = Compile(es[n + 1])
        /\ \A k \in 1..m : rs2[k] = rs[k]
    BY <2>1, <2>2, AppendProperties
  <2>4. rs2 = [k \in 1..m2 |-> rs2[k]]
    BY <2>3
  <2>5. \A k \in 1..m2 : rs2[k] = Compile(es[at2[k]])
    <3> SUFFICES ASSUME NEW k \in 1..m2 PROVE rs2[k] = Compile(es[at2[k]])
      OBVIOUS
    <3>1. CASE k = m2
      BY <2>3, <3>1
    <3>2. CASE k \in 1..m /\ k # m2
      <4>1. at2[k] = at[k]
        BY <3>2
      <4>2. QED
        BY <2>1, <2>3, <3>2, <4>1
    <3>3. QED
      BY <1>5, <3>1, <3>2
  <2>6. QED
    BY <2>4, <2>5
<1> HIDE DEF at2, rs2
<1>10. MergedAs(es, n + 1, rs2, m2, at2)
  BY <1>6, <1>7, <1>8, <1>9 DEF MergedAs
<1>11. \A i \in UpTo(es, n + 1) : ~Invalid(es[i].spec)
  BY <1>4 DEF Merged
<1>12. m2 \in Nat
  OBVIOUS
<1>13. QED
  BY <1>10, <1>11, <1>12 DEF Merged, rs2

LEMMA RestOfEntries ==
  ASSUME NEW S, NEW es \in Seq(S), NEW n \in Nat, n <= Len(es)
  PROVE  LET rest == SubSeq(es, n + 1, Len(es))
         IN  /\ rest = <<>> => n = Len(es)
             /\ rest # <<>> => /\ n + 1 \in DOMAIN es /\ Head(rest) = es[n + 1]
                              /\ Tail(rest) = SubSeq(es, (n + 1) + 1, Len(es))
<1> DEFINE rest == SubSeq(es, n + 1, Len(es))
<1>1. Len(es) \in Nat /\ DOMAIN es = 1..Len(es)
  OBVIOUS
<1>2. CASE n = Len(es)
  <2>1. rest = <<>>
    BY <1>1, <1>2, SubSeqEmpty
  <2>2. QED
    BY <1>2, <2>1
<1>3. CASE n < Len(es)
  <2>1. n + 1 \in 1..Len(es) /\ n + 1 \in Int /\ Len(es) \in Int
    BY <1>1, <1>3
  <2> DEFINE m == n + 1
  <2>2. Head(SubSeq(es, m, Len(es))) = es[m] /\ Tail(SubSeq(es, m, Len(es))) = SubSeq(es, m + 1, Len(es))
    <3>1. m \in 1..Len(es) /\ Len(es) \in m..Len(es)
      BY <2>1
    <3> HIDE DEF m
    <3>2. QED
      BY <1>1, <3>1, HeadTailOfSubSeq
  <2>3. rest # <<>>
    <3>1. \A i \in (n + 1)..Len(es) : es[i] \in S
      BY <1>1, <2>1
    <3>2. Len(rest) = IF n + 1 <= Len(es) THEN Len(es) - (n + 1) + 1 ELSE 0
      BY <2>1, <3>1, SubSeqProperties
    <3> DEFINE l == Len(es)
    <3>3. l \in Nat /\ n < l /\ Len(rest) = IF n + 1 <= l THEN l - (n + 1) + 1 ELSE 0
      BY <1>1, <1>3, <3>2
    <3> HIDE DEF rest, l
    <3>4. Len(rest) # 0
      BY <3>3
    <3>5. QED
      BY <3>4, EmptySeq
  <2>4. QED
    BY <1>1, <2>1, <2>2, <2>3
<1>4. n = Len(es) \/ n < Len(es)
  <2> DEFINE l == Len(es)
  <2>1. l \in Nat /\ n <= l
    BY <1>1
  <2> HIDE DEF l
  <2>2. n = l \/ n < l
    BY <2>1
  <2>3. QED
    BY <2>2 DEF l
<1>5. QED
  BY <1>2, <1>3, <1>4, Zenon

\* The sidecar reads the rules that were encoded.
LEMMA ReadBack ==
  ASSUME NEW es, NEW n, NEW rs, Merged(es, n, rs)
  PROVE  Deserialize(Serialize(rs)) = rs
<1>0. PICK m \in Nat : \E at : MergedAs(es, n, rs, m, at)
  BY DEF Merged
<1>1. PICK at : MergedAs(es, n, rs, m, at)
  BY <1>0
<1>2. DOMAIN rs = 1..m /\ rs = [k \in 1..m |-> rs[k]]
  BY <1>1 DEF MergedAs
<1> DEFINE back == Deserialize(Serialize(rs))
<1>3. back = [k \in 1..m |-> back[k]]
  BY <1>2 DEF Deserialize, Serialize
<1>4. ASSUME NEW k \in 1..m PROVE back[k] = rs[k]
  <2> DEFINE e == es[at[k]]
             r == Compile(e)
             code == IF r.pattern = {} THEN "" ELSE CHOOSE p \in r.pattern : TRUE
  <2>1. rs[k] = r /\ ~Invalid(e.spec)
    BY <1>1 DEF Merged, MergedAs
  <2>2. back[k] = [name |-> r.name, field |-> r.field, replace |-> r.replace, pattern |-> {code} \ {""}]
    BY <1>2, <2>1 DEF Deserialize, Serialize
  <2>3. Usable(r)
    BY <2>1, CompiledUsable
  <2>4. {code} \ {""} = r.pattern
    <3> HIDE DEF r
    <3>1. CASE r.pattern = {}
      BY <3>1
    <3>2. ASSUME NEW p \in Pattern, r.pattern = {p} PROVE {code} \ {""} = r.pattern
      <4>1. (CHOOSE q \in {p} : TRUE) = p
        OBVIOUS
      <4>2. code = p
        BY <3>2, <4>1
      <4>3. p # ""
        BY AdmissionAssumption DEF Pattern
      <4>4. QED
        BY <3>2, <4>2, <4>3
    <3>3. QED
      BY <2>3, <3>1, <3>2 DEF Usable
  <2>5. r = [name |-> r.name, field |-> r.field, replace |-> r.replace, pattern |-> r.pattern]
    BY DEF Compile
  <2> HIDE DEF r, code, back
  <2>6. QED
    BY <2>1, <2>2, <2>4, <2>5
<1> HIDE DEF back
<1>5. QED
  BY <1>2, <1>3, <1>4 DEF back

-----------------------------------------------------------------------------
(* The rules of a request come from one moment of it.                      *)

MergeInv ==
    /\ pod \in Pod /\ policies \in PolicySet /\ moments \subseteq PolicySet
    /\ pc \in {"idle", "mutate", "merge"}
    /\ pc # "idle" => policies \in moments
    /\ pc # "merge" => todo = <<>> /\ rules = <<>>
    /\ pc = "merge" =>
          \E ps \in moments, keys \in Orders(pod), n \in Nat :
              LET es == Entries(ps, pod, keys)
              IN  n <= Len(es) /\ todo = SubSeq(es, n + 1, Len(es)) /\ Merged(es, n, rules)
    /\ outcome.env # {} => pc = "idle"
    /\ \A e \in outcome.env :
          \E ps \in moments, keys \in Orders(pod) :
              LET es == Entries(ps, pod, keys) IN Merged(es, Len(es), Deserialize(e))

LEMMA MergeInit == Init => MergeInv
  BY DEF Init, MergeInv, Pending, PolicySet

\* An answer without a sidecar.
LEMMA MergeOver ==
  ASSUME MergeInv, NEW o, Answer(o), o.env = {}
  PROVE  MergeInv'
  BY DEF MergeInv, Answer

\* A step of Merge goes on with the entries it has.
LEMMA MergeOnward ==
  ASSUME MergeInv, SkipDuplicate \/ Add
  PROVE  MergeInv'
<1>1. /\ pc = "merge" /\ todo # <<>> /\ todo' = Tail(todo)
      /\ UNCHANGED <<policies, pc, pod, outcome, moments>>
  BY DEF SkipDuplicate, Add
<1>2. PICK ps \in moments, keys \in Orders(pod), n \in Nat :
         LET es == Entries(ps, pod, keys)
         IN  n <= Len(es) /\ todo = SubSeq(es, n + 1, Len(es)) /\ Merged(es, n, rules)
  BY <1>1 DEF MergeInv
<1> DEFINE es == Entries(ps, pod, keys)
<1>3. PICK S : es \in Seq(S)
  <2>1. ps \in PolicySet /\ pod \in Pod
    BY DEF MergeInv
  <2>2. QED
    BY <2>1, EntriesIsSeq
<1> HIDE DEF es
<1>4. n <= Len(es) /\ todo = SubSeq(es, n + 1, Len(es)) /\ Merged(es, n, rules)
  BY <1>2 DEF es
<1>5. /\ n + 1 \in DOMAIN es /\ Head(todo) = es[n + 1]
      /\ todo' = SubSeq(es, (n + 1) + 1, Len(es))
  BY <1>1, <1>3, <1>4, RestOfEntries
<1>6. n + 1 \in Nat /\ n + 1 <= Len(es)
  BY <1>3, <1>5
<1>7. Merged(es, n + 1, rules')
  <2>1. CASE SkipDuplicate
    <3>1. rules' = rules /\ \E k \in DOMAIN rules : rules[k].name = es[n + 1].spec.name
      BY <1>5, <2>1 DEF SkipDuplicate, Seen
    <3>2. QED
      BY <1>3, <1>4, <1>5, <3>1, MergeSkips
  <2>2. CASE Add
    <3>1. /\ rules' = Append(rules, Compile(es[n + 1])) /\ ~Invalid(es[n + 1].spec)
          /\ \A k \in DOMAIN rules : rules[k].name # es[n + 1].spec.name
      BY <1>5, <2>2 DEF Add, Seen
    <3>2. QED
      BY <1>3, <1>4, <1>5, <3>1, MergeAdds
  <2>3. QED
    BY <2>1, <2>2
<1>8. \E p \in moments', k \in Orders(pod'), i \in Nat :
         LET r == Entries(p, pod', k)
         IN  i <= Len(r) /\ todo' = SubSeq(r, i + 1, Len(r)) /\ Merged(r, i, rules')
  BY <1>1, <1>5, <1>6, <1>7 DEF es
<1>9. QED
  BY <1>1, <1>8 DEF MergeInv

LEMMA MergeStart ==
  ASSUME MergeInv, ListPolicies
  PROVE  MergeInv'
<1>1. PICK keys \in Orders(pod) : todo' = Entries(policies, pod, keys)
  BY DEF ListPolicies, Orders
<1>2. /\ pc = "mutate" /\ pc' = "merge" /\ rules = <<>> /\ policies \in moments
      /\ UNCHANGED <<policies, pod, rules, outcome, moments>>
  BY DEF ListPolicies, MergeInv
<1> DEFINE es == Entries(policies, pod, keys)
<1>3. PICK S : es \in Seq(S)
  <2>1. policies \in PolicySet /\ pod \in Pod
    BY DEF MergeInv
  <2>2. QED
    BY <2>1, EntriesIsSeq
<1> HIDE DEF es
<1>4. 0 <= Len(es) /\ todo' = SubSeq(es, 0 + 1, Len(es)) /\ Merged(es, 0, rules')
  <2>1. Len(es) \in Nat /\ SubSeq(es, 1, Len(es)) = es
    BY <1>3, SubSeqFull
  <2>2. QED
    BY <1>1, <1>2, <1>3, <2>1, MergeBegins DEF es
<1>5. \E p \in moments', k \in Orders(pod'), i \in Nat :
         LET r == Entries(p, pod', k)
         IN  i <= Len(r) /\ todo' = SubSeq(r, i + 1, Len(r)) /\ Merged(r, i, rules')
  BY <1>2, <1>4 DEF es
<1>6. QED
  BY <1>2, <1>5 DEF MergeInv

LEMMA MergeEnds ==
  ASSUME MergeInv, Inject
  PROVE  MergeInv'
<1>1. /\ pc = "merge" /\ todo = <<>> /\ pc' = "idle" /\ todo' = <<>> /\ rules' = <<>>
      /\ outcome'.env = {Serialize(rules)} /\ UNCHANGED <<policies, pod, moments>>
  BY DEF Inject, Answer, Injected
<1>2. PICK ps \in moments, keys \in Orders(pod), n \in Nat :
         LET es == Entries(ps, pod, keys)
         IN  n <= Len(es) /\ todo = SubSeq(es, n + 1, Len(es)) /\ Merged(es, n, rules)
  BY <1>1 DEF MergeInv
<1> DEFINE es == Entries(ps, pod, keys)
<1>3. PICK S : es \in Seq(S)
  <2>1. ps \in PolicySet /\ pod \in Pod
    BY DEF MergeInv
  <2>2. QED
    BY <2>1, EntriesIsSeq
<1> HIDE DEF es
<1>4. n <= Len(es) /\ todo = SubSeq(es, n + 1, Len(es)) /\ Merged(es, n, rules)
  BY <1>2 DEF es
<1>5. n = Len(es)
  BY <1>1, <1>3, <1>4, RestOfEntries
<1>6. Merged(es, Len(es), Deserialize(Serialize(rules)))
  BY <1>4, <1>5, ReadBack
<1>7. \A e \in outcome'.env :
         \E p \in moments', k \in Orders(pod') :
            LET r == Entries(p, pod', k) IN Merged(r, Len(r), Deserialize(e))
  BY <1>1, <1>6 DEF es
<1>8. QED
  BY <1>1, <1>7 DEF MergeInv

LEMMA MergeStep ==
  ASSUME MergeInv, [Next]_vars
  PROVE  MergeInv'
<1>1. CASE Edit
  <2>1. PICK p \in 1..NPolicy, s \in PolicySpec \cup {Absent} :
           policies' = [policies EXCEPT ![p] = s]
    BY <1>1 DEF Edit
  <2>2. policies' \in PolicySet
    BY <2>1 DEF MergeInv, PolicySet
  <2>3. /\ moments' = IF pc = "idle" THEN moments ELSE moments \cup {policies'}
        /\ UNCHANGED <<pc, pod, todo, rules, outcome>>
    BY <1>1 DEF Edit
  <2>4. moments \subseteq moments' /\ moments' \subseteq PolicySet /\ (pc # "idle" => policies' \in moments')
    BY <2>2, <2>3 DEF MergeInv
  <2>5. QED
    BY <2>2, <2>3, <2>4 DEF MergeInv
<1>2. CASE Submit
  BY <1>2 DEF Submit, Pending, MergeInv
<1>3. CASE NoAnswer
  BY <1>3, MergeOver DEF NoAnswer, Unanswered
<1>4. CASE Skip
  BY <1>4, MergeOver DEF Skip, Unpatched
<1>5. CASE RejectAnnotation \/ ListFails \/ RejectRule
  BY <1>5, MergeOver DEF RejectAnnotation, ListFails, RejectRule, Denied
<1>6. CASE UNCHANGED vars
  BY <1>6 DEF vars, MergeInv
<1>7. QED
  BY <1>1, <1>2, <1>3, <1>4, <1>5, <1>6, MergeStart, MergeOnward, MergeEnds DEF Next, Handler

\* The invariant of Merge holds in every reachable state.
THEOREM MergeInductive == Spec => []MergeInv
  BY MergeInit, MergeStep, PTL DEF Spec

-----------------------------------------------------------------------------
(* What the result of Merge says.                                          *)

LEMMA RulesCounted ==
  ASSUME NEW S, NEW es \in Seq(S), NEW rs, Merged(es, Len(es), rs)
  PROVE  LET all == {Compile(es[i]) : i \in Firsts(es)}
         IN  /\ \A i \in Firsts(es) : ~Invalid(es[i].spec)
             /\ Len(rs) = Cardinality(all)
             /\ ToSet(rs) = all
<1> DEFINE all == {Compile(es[i]) : i \in Firsts(es)}
<1>1. UpTo(es, Len(es)) = Firsts(es) /\ \A i \in Firsts(es) : i \in 1..Len(es)
  <2>1. \A i \in Firsts(es) : i \in 1..Len(es) /\ i <= Len(es)
    BY DEF Firsts
  <2>2. QED
    BY <2>1 DEF UpTo
<1>2a. PICK m \in Nat : \E at : MergedAs(es, Len(es), rs, m, at)
  BY DEF Merged
<1>2. PICK at : MergedAs(es, Len(es), rs, m, at)
  BY <1>2a
<1>3. /\ \A k \in 1..m : at[k] \in Firsts(es) /\ rs[k] = Compile(es[at[k]])
      /\ \A i \in Firsts(es) : \E k \in 1..m : at[k] = i
      /\ \A i, k \in 1..m : i < k => at[i] < at[k]
      /\ DOMAIN rs = 1..m /\ rs = [k \in 1..m |-> rs[k]]
  BY <1>1, <1>2 DEF MergedAs
<1>4. rs \in [1..m -> all]
  BY <1>3
<1>5. ToSet(rs) = all
  <2>1. \A r \in all : \E k \in 1..m : rs[k] = r
    BY <1>3
  <2> HIDE DEF all
  <2>2. QED
    BY <1>3, <1>4, <2>1 DEF ToSet
<1>6. ASSUME NEW i \in 1..m, NEW k \in 1..m, rs[i] = rs[k] PROVE i = k
  <2>1. at[i] \in Firsts(es) /\ at[k] \in Firsts(es) /\ at[i] \in 1..Len(es) /\ at[k] \in 1..Len(es)
    BY <1>1, <1>3
  <2>2. es[at[i]].spec.name = es[at[k]].spec.name
    <3>1. Compile(es[at[i]]) = Compile(es[at[k]])
      BY <1>3, <1>6
    <3>2. Compile(es[at[i]]).name = Compile(es[at[k]]).name
      BY <3>1
    <3>3. QED
      BY <3>2, CompiledName
  <2>3. at[i] <= at[k] /\ at[k] <= at[i]
    BY <2>1, <2>2 DEF Firsts
  <2>4. ~(i < k) /\ ~(k < i)
    BY <1>3, <2>1, <2>3
  <2>5. QED
    BY <2>4
<1>7. Len(rs) = m
  <2> HIDE DEF all
  <2>1. rs \in Seq(all)
    BY <1>4
  <2>2. QED
    BY <1>3, <2>1
<1>8. Cardinality(all) = m
  <2> HIDE DEF all
  <2>1. rs \in Bijection(1..m, all)
    BY <1>3, <1>4, <1>5, <1>6 DEF Bijection, Injection, Surjection, IsInjective, ToSet
  <2>2. QED
    BY <2>1, FS_CountingElements DEF ExistsBijection
<1>9. \A i \in Firsts(es) : ~Invalid(es[i].spec)
  BY <1>1 DEF Merged
<1>10. QED
  BY <1>5, <1>7, <1>8, <1>9

\* The first n rules are those of the entries p alone.
Begins(rs, n, p) == {rs[i] : i \in 1..n} = {Compile(p[i]) : i \in Firsts(p)}

LEMMA PoliciesKeepRules ==
  ASSUME NEW S, NEW p \in Seq(S), NEW a \in Seq(S), NEW rs, Merged(p \o a, Len(p \o a), rs)
  PROVE  Cardinality(Firsts(p)) <= Len(rs) /\ Begins(rs, Cardinality(Firsts(p)), p)
<1> DEFINE es == p \o a
           n  == Cardinality(Firsts(p))
<1>1. /\ Len(p) \in Nat /\ DOMAIN p = 1..Len(p) /\ es \in Seq(S) /\ Len(es) \in Nat /\ Len(p) <= Len(es)
      /\ DOMAIN es = 1..Len(es) /\ \A i \in 1..Len(p) : i \in 1..Len(es) /\ es[i] = p[i]
  <2>1. /\ Len(p) \in Nat /\ Len(a) \in Nat /\ DOMAIN p = 1..Len(p) /\ es \in Seq(S)
        /\ Len(es) = Len(p) + Len(a) /\ DOMAIN es = 1..Len(es)
        /\ \A i \in 1..(Len(p) + Len(a)) : es[i] = IF i <= Len(p) THEN p[i] ELSE a[i - Len(p)]
    BY ConcatProperties
  <2> HIDE DEF es
  <2>2. \A i \in 1..Len(p) : i \in 1..(Len(p) + Len(a)) /\ i <= Len(p)
    BY <2>1
  <2>3. Len(es) \in Nat /\ Len(p) <= Len(es)
    BY <2>1
  <2>4. QED
    BY <2>1, <2>2, <2>3
<1> HIDE DEF es
<1>2. Firsts(p) = {i \in Firsts(es) : i <= Len(p)}
  <2>1. ASSUME NEW i \in Firsts(p) PROVE i \in Firsts(es) /\ i <= Len(p)
    <3>1. i \in 1..Len(p) /\ i \in 1..Len(es) /\ es[i] = p[i]
      BY <1>1 DEF Firsts
    <3>2. ASSUME NEW j \in 1..Len(es), es[j].spec.name = es[i].spec.name PROVE i <= j
      <4>1. CASE j <= Len(p)
        <5>1. j \in 1..Len(p) /\ es[j] = p[j]
          BY <1>1, <4>1
        <5>2. QED
          BY <1>1, <3>1, <3>2, <5>1 DEF Firsts
      <4>2. CASE ~(j <= Len(p))
        BY <1>1, <3>1, <4>2
      <4>3. QED
        BY <4>1, <4>2
    <3>3. QED
      BY <1>1, <3>1, <3>2 DEF Firsts
  <2>2. ASSUME NEW i \in Firsts(es), i <= Len(p) PROVE i \in Firsts(p)
    <3>1. i \in 1..Len(p) /\ es[i] = p[i]
      BY <1>1, <2>2 DEF Firsts
    <3>2. ASSUME NEW j \in 1..Len(p), p[j].spec.name = p[i].spec.name PROVE i <= j
      <4>1. j \in 1..Len(es) /\ es[j] = p[j]
        BY <1>1
      <4>2. QED
        BY <1>1, <3>1, <3>2, <4>1 DEF Firsts
    <3>3. QED
      BY <1>1, <3>1, <3>2 DEF Firsts
  <2>3. QED
    BY <2>1, <2>2
<1>3a. PICK m \in Nat : \E at : MergedAs(es, Len(es), rs, m, at)
  BY DEF Merged, es
<1>3. PICK at : MergedAs(es, Len(es), rs, m, at)
  BY <1>3a
<1>4. \A i \in Firsts(es) : i \in UpTo(es, Len(es)) /\ i \in 1..Len(es)
  <2>1. \A i \in Firsts(es) : i \in 1..Len(es) /\ i <= Len(es)
    BY <1>1 DEF Firsts
  <2>2. QED
    BY <2>1 DEF UpTo
<1>5. /\ \A k \in 1..m : at[k] \in Firsts(es) /\ at[k] \in 1..Len(es) /\ rs[k] = Compile(es[at[k]])
      /\ \A i \in Firsts(es) : \E k \in 1..m : at[k] = i
      /\ \A i, k \in 1..m : i < k => at[i] < at[k]
      /\ DOMAIN rs = 1..m
  BY <1>3, <1>4 DEF MergedAs, UpTo
<1> DEFINE K == {k \in 1..m : at[k] <= Len(p)}
<1>6. K \in SUBSET (1..m) /\ \A i \in K, k \in 1..m : k <= i => k \in K
  <2> SUFFICES ASSUME NEW i \in 1..m, at[i] <= Len(p), NEW k \in 1..m, k <= i PROVE at[k] <= Len(p)
    OBVIOUS
  <2>1. k = i \/ k < i
    OBVIOUS
  <2>2. at[k] = at[i] \/ at[k] < at[i]
    BY <1>5, <2>1
  <2>3. at[k] \in Int /\ at[i] \in Int /\ Len(p) \in Int
    BY <1>1, <1>5
  <2>4. QED
    BY <2>2, <2>3
<1>7. Cardinality(K) \in 0..m /\ K = 1..Cardinality(K)
  <2> HIDE DEF K
  <2>1. QED
    BY <1>6, InitialSegment
<1>8. n = Cardinality(K)
  <2> DEFINE f == [k \in K |-> at[k]]
  <2>1. \A k \in K : at[k] \in Firsts(p)
    BY <1>2, <1>5
  <2>2. \A i \in Firsts(p) : \E k \in K : at[k] = i
    BY <1>2, <1>5
  <2>3. \A i, k \in K : at[i] = at[k] => i = k
    <3> SUFFICES ASSUME NEW i \in 1..m, NEW k \in 1..m, at[i] = at[k], i # k PROVE FALSE
      OBVIOUS
    <3>1. i < k \/ k < i
      OBVIOUS
    <3>2. at[i] < at[k] \/ at[k] < at[i]
      BY <1>5, <3>1
    <3>3. at[i] \in Int
      BY <1>5
    <3>4. QED
      BY <3>2, <3>3
  <2> HIDE DEF K
  <2>4. IsFiniteSet(K)
    BY <1>6, RankTyped
  <2>5. f \in Bijection(K, Firsts(p))
    BY <2>1, <2>2, <2>3 DEF Bijection, Injection, Surjection, IsInjective
  <2>6. QED
    BY <2>4, <2>5, FS_Bijection DEF ExistsBijection
<1>9. Len(rs) = m
  <2>1. rs \in [1..m -> {rs[k] : k \in 1..m}]
    BY <1>3 DEF MergedAs
  <2>2. rs \in Seq({rs[k] : k \in 1..m})
    BY <2>1, SequenceOf
  <2>3. QED
    BY <1>5, <2>2
<1>10. {rs[i] : i \in 1..n} = {Compile(p[i]) : i \in Firsts(p)}
  <2>1. \A k \in 1..n : k \in K /\ k \in 1..m
    BY <1>7, <1>8
  <2>2. \A k \in K : at[k] \in Firsts(p) /\ rs[k] = Compile(p[at[k]])
    <3> SUFFICES ASSUME NEW k \in 1..m, at[k] <= Len(p)
                 PROVE  at[k] \in Firsts(p) /\ rs[k] = Compile(p[at[k]])
      OBVIOUS
    <3>1. at[k] \in Firsts(p) /\ at[k] \in 1..Len(p)
      BY <1>1, <1>2, <1>5
    <3>2. QED
      BY <1>1, <1>5, <3>1
  <2>3. \A i \in Firsts(p) : \E k \in K : at[k] = i
    BY <1>2, <1>5
  <2>4. K = 1..n
    BY <1>7, <1>8
  <2> HIDE DEF K, n
  <2>5. \A k \in 1..n : \E i \in Firsts(p) : rs[k] = Compile(p[i])
    BY <2>2, <2>4
  <2>6. \A i \in Firsts(p) : \E k \in 1..n : rs[k] = Compile(p[i])
    BY <2>2, <2>3, <2>4
  <2>7. QED
    BY <2>5, <2>6
<1>11. n <= Len(rs)
  BY <1>7, <1>8, <1>9
<1>12. QED
  BY <1>10, <1>11 DEF Begins

LEMMA SidecarEnv ==
  ASSUME MergeInv, Sidecar
  PROVE  \E ps \in moments, keys \in Orders(pod) :
            /\ ps \in PolicySet /\ pod \in Pod
            /\ Merged(Entries(ps, pod, keys), Len(Entries(ps, pod, keys)), Deserialize(Env))
            /\ Len(Env) = Len(Deserialize(Env))
<1>1. Env \in outcome.env
  BY DEF Sidecar, Env
<1>2. PICK ps \in moments, keys \in Orders(pod) :
         Merged(Entries(ps, pod, keys), Len(Entries(ps, pod, keys)), Deserialize(Env))
  BY <1>1 DEF MergeInv
<1>3. Len(Env) = Len(Deserialize(Env))
  <2>0. PICK m \in Nat : \E at : MergedAs(Entries(ps, pod, keys), Len(Entries(ps, pod, keys)), Deserialize(Env), m, at)
    BY <1>2 DEF Merged
  <2>1. PICK at : MergedAs(Entries(ps, pod, keys), Len(Entries(ps, pod, keys)), Deserialize(Env), m, at)
    BY <2>0
  <2>2. DOMAIN Deserialize(Env) = 1..m /\ DOMAIN Env = 1..m
    BY <2>1 DEF MergedAs, Deserialize
  <2>3. QED
    BY <2>2
<1>4. QED
  BY <1>2, <1>3 DEF MergeInv

(* The rules of an injected pod are those of its annotations and of the     *)
(* policies that matched it at one moment of its admission, one for each    *)
(* name, the first, and all of them compiled (resolveRules, Merge).         *)
THEOREM RulesOfOneMomentHolds == Spec => []RulesOfOneMoment
<1>1. MergeInv => RulesOfOneMoment
  <2> SUFFICES ASSUME MergeInv, Sidecar PROVE RulesOfOneMoment
    BY DEF RulesOfOneMoment
  <2>1. PICK ps \in moments, keys \in Orders(pod) :
           /\ ps \in PolicySet /\ pod \in Pod
           /\ Merged(Entries(ps, pod, keys), Len(Entries(ps, pod, keys)), Deserialize(Env))
           /\ Len(Env) = Len(Deserialize(Env))
    BY SidecarEnv
  <2> DEFINE es == Entries(ps, pod, keys)
             rs == {Compile(es[i]) : i \in Firsts(es)}
  <2>2. PICK S : es \in Seq(S)
    BY <2>1, EntriesIsSeq
  <2>3. /\ \A i \in Firsts(es) : ~Invalid(es[i].spec)
        /\ Len(Env) = Cardinality(rs) /\ ToSet(Deserialize(Env)) = rs
    <3>1. Merged(es, Len(es), Deserialize(Env)) /\ Len(Env) = Len(Deserialize(Env))
      BY <2>1
    <3> HIDE DEF es
    <3>2. QED
      BY <2>2, <3>1, RulesCounted
  <2>4. QED
    BY <2>3 DEF RulesOfOneMoment, Orders
<1>2. QED
  BY <1>1, MergeInductive, PTL

(* "CRD rules are always included; annotation rules extend but cannot       *)
(* remove them" (Merge): the rules start with what the same pod gets        *)
(* without annotations.                                                     *)
THEOREM AnnotationsExtendHolds == Spec => []AnnotationsExtend
<1>1. MergeInv => AnnotationsExtend
  <2> SUFFICES ASSUME MergeInv, Sidecar PROVE AnnotationsExtend
    BY DEF AnnotationsExtend
  <2>1. PICK ps \in moments, keys \in Orders(pod) :
           /\ ps \in PolicySet /\ pod \in Pod
           /\ Merged(Entries(ps, pod, keys), Len(Entries(ps, pod, keys)), Deserialize(Env))
           /\ Len(Env) = Len(Deserialize(Env))
    BY SidecarEnv
  <2> DEFINE p == PolicyEntries(ps, pod)
             a == AnnotationEntries(pod, keys)
             n == Cardinality(Firsts(p))
  <2>2. PICK S : p \in Seq(S) /\ a \in Seq(S)
    BY <2>1, EntriesIsSeq
  <2>3. n <= Len(Env) /\ {Deserialize(Env)[i] : i \in 1..n} = {Compile(p[i]) : i \in Firsts(p)}
    <3>1. Merged(p \o a, Len(p \o a), Deserialize(Env)) /\ Len(Env) = Len(Deserialize(Env))
      BY <2>1 DEF Entries
    <3> DEFINE d == Deserialize(Env)
    <3> HIDE DEF p, a, d
    <3>2. Merged(p \o a, Len(p \o a), d)
      BY <3>1 DEF d
    <3>3. n <= Len(d) /\ Begins(d, n, p)
      BY <2>2, <3>2, PoliciesKeepRules
    <3>4. QED
      BY <3>1, <3>3 DEF d, Begins
  <2>4. QED
    BY <2>3 DEF AnnotationsExtend
<1>2. QED
  BY <1>1, MergeInductive, PTL

-----------------------------------------------------------------------------
(* The type invariant.                                                     *)

Kinds ==
    /\ failurePolicy \in {"Ignore", "Fail"}
    /\ outcome.by \in {"nobody", "webhook", "failurePolicy"}
    /\ Cardinality(moments) <= MaxMoments

LEMMA KindsInit == Init => Kinds
<1> SUFFICES ASSUME Init PROVE Kinds
  OBVIOUS
<1>1. Cardinality(moments) <= MaxMoments
  <2>1. Cardinality({}) = 0
    BY FS_EmptySet
  <2>2. moments = {}
    BY DEF Init
  <2>3. MaxMoments \in Nat \ {0}
    BY AdmissionAssumption
  <2>4. QED
    BY <2>1, <2>2, <2>3
<1>2. outcome.by = "nobody"
  BY DEF Init, Pending
<1>3. QED
  BY <1>1, <1>2 DEF Init, Kinds

LEMMA KindsStep == Kinds /\ [Next]_vars => Kinds'
<1> SUFFICES ASSUME Kinds, [Next]_vars PROVE Kinds'
  OBVIOUS
<1>1. CASE Edit
  BY <1>1 DEF Edit, Kinds
<1>2. CASE Submit
  <2>1. Cardinality({policies}) = 1
    BY FS_Singleton
  <2>2. MaxMoments \in Nat \ {0}
    BY AdmissionAssumption
  <2>3. Cardinality(moments') <= MaxMoments
    BY <1>2, <2>1, <2>2 DEF Submit
  <2>4. outcome'.by = "nobody"
    BY <1>2 DEF Submit, Pending
  <2>5. QED
    BY <1>2, <2>3, <2>4 DEF Submit, Kinds
<1>3. CASE NoAnswer
  BY <1>3 DEF NoAnswer, Answer, Unanswered, Kinds
<1>4. CASE Skip
  BY <1>4 DEF Skip, Answer, Unpatched, Kinds
<1>5. CASE RejectAnnotation \/ ListFails \/ RejectRule
  BY <1>5 DEF RejectAnnotation, ListFails, RejectRule, Answer, Denied, Kinds
<1>6. CASE Inject
  BY <1>6 DEF Inject, Answer, Injected, Kinds
<1>7. CASE ListPolicies \/ SkipDuplicate \/ Add
  BY <1>7 DEF ListPolicies, SkipDuplicate, Add, Kinds
<1>8. CASE UNCHANGED vars
  BY <1>8 DEF vars, Kinds
<1>9. QED
  BY <1>1, <1>2, <1>3, <1>4, <1>5, <1>6, <1>7, <1>8 DEF Next, Handler

LEMMA TodoTyped == ASSUME MergeInv PROVE \A i \in DOMAIN todo : EntryOK(todo[i])
<1>1. CASE pc # "merge"
  BY <1>1 DEF MergeInv
<1>2. CASE pc = "merge"
  <2>1. PICK ps \in moments, keys \in Orders(pod), n \in Nat :
           LET es == Entries(ps, pod, keys)
           IN  n <= Len(es) /\ todo = SubSeq(es, n + 1, Len(es)) /\ Merged(es, n, rules)
    BY <1>2 DEF MergeInv
  <2> DEFINE es == Entries(ps, pod, keys)
             m  == n + 1
  <2>2. PICK S : es \in Seq(S) /\ \A e \in S : EntryOK(e)
    BY EntriesIsSeq DEF MergeInv
  <2>3. todo = SubSeq(es, m, Len(es))
    BY <2>1
  <2>4. m \in Int /\ 1 <= m
    OBVIOUS
  <2> HIDE DEF es, m
  <2>5. Len(es) \in Int /\ \A i \in m..Len(es) : es[i] \in S
    <3>1. Len(es) \in Nat /\ \A i \in 1..Len(es) : es[i] \in S
      BY <2>2
    <3>2. \A i \in m..Len(es) : i \in 1..Len(es)
      BY <2>4, <3>1
    <3>3. QED
      BY <3>1, <3>2
  <2>6. todo \in Seq(S)
    BY <2>3, <2>4, <2>5, SubSeqProperties
  <2>7. QED
    BY <2>2, <2>6
<1>3. QED
  BY <1>1, <1>2

LEMMA RulesTyped == ASSUME MergeInv PROVE \A i \in DOMAIN rules : RuleOK(rules[i])
<1>1. CASE pc # "merge"
  BY <1>1 DEF MergeInv
<1>2. CASE pc = "merge"
  <2>1. PICK ps \in moments, keys \in Orders(pod), n \in Nat :
           LET es == Entries(ps, pod, keys)
           IN  n <= Len(es) /\ todo = SubSeq(es, n + 1, Len(es)) /\ Merged(es, n, rules)
    BY <1>2 DEF MergeInv
  <2> DEFINE es == Entries(ps, pod, keys)
  <2>2a. PICK m \in Nat : \E at : MergedAs(es, n, rules, m, at)
    BY <2>1 DEF Merged
  <2>2. PICK at : MergedAs(es, n, rules, m, at)
    BY <2>2a
  <2>3. ASSUME NEW k \in DOMAIN rules PROVE RuleOK(rules[k])
    <3> DEFINE e == es[at[k]]
    <3>1. rules[k] = Compile(e) /\ ~Invalid(e.spec)
      BY <2>1, <2>2 DEF Merged, MergedAs
    <3> HIDE DEF e
    <3>2. Compile(e).replace # ""
      <4>1. Compile(e).replace = IF e.redactWith = "" THEN "[REDACTED]" ELSE e.redactWith
        BY DEF Compile
      <4>2. QED
        BY <4>1
    <3>3. Usable(Compile(e))
      BY <3>1, CompiledUsable
    <3>4. Cardinality(Compile(e).pattern) <= 1 /\ Compile(e).pattern \subseteq Library \cup SafeRegex
      <4>1. CASE Compile(e).pattern = {}
        <5>1. Cardinality(Compile(e).pattern) = 0
          BY <4>1, FS_EmptySet
        <5>2. QED
          BY <4>1, <5>1
      <4>2. ASSUME NEW p \in Pattern, Compile(e).pattern = {p}
            PROVE  Cardinality(Compile(e).pattern) <= 1 /\ Compile(e).pattern \subseteq Pattern
        <5>1. Cardinality({p}) = 1
          BY FS_Singleton
        <5>2. QED
          BY <4>2, <5>1
      <4>3. QED
        BY <3>3, <4>1, <4>2 DEF Usable, Pattern
    <3>5. QED
      BY <3>1, <3>2, <3>4 DEF RuleOK
  <2>4. QED
    BY <2>3
<1>3. QED
  BY <1>1, <1>2

(* Every variable of the handler keeps its type: what is left to merge are  *)
(* entries, and every rule has a replacement and at most one pattern, one   *)
(* that compiles (Merge, compileSpec).                                      *)
THEOREM TypeCorrect == Spec => []TypeOK
<1>1. MergeInv /\ Kinds => TypeOK
  BY TodoTyped, RulesTyped DEF MergeInv, Kinds, TypeOK, PolicySet
<1>2. Spec => []Kinds
  BY KindsInit, KindsStep, PTL DEF Spec
<1>3. QED
  BY <1>1, <1>2, MergeInductive, PTL
=============================================================================
