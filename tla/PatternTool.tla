---------------------------- MODULE PatternTool ----------------------------
(***************************************************************************)
(* The pattern tool of the website (components/site/PatternTool.tsx): a    *)
(* form with built-in and custom patterns, a preview of what they mask in  *)
(* a sample log line, and their export as a MaskingPolicy or as pod        *)
(* annotations.  A component without a Next of its own: Site composes it.  *)
(*                                                                         *)
(* A regular expression is [tokens, fault]; the fault, if it has one, is   *)
(* what keeps it from being used: a "construct" RE2 lacks (lookaround, a   *)
(* named group, a backreference), "syntax", or that only RE2 refuses it    *)
(* ("js only").  Names are plain words.                                    *)
(***************************************************************************)
EXTENDS Naturals, Sequences, SequencesExt, FiniteSets, RegexTokens, Filter

CONSTANTS
    BUILTINS,       \* the built-in patterns in the tool's order: [name, pattern]
    Library,        \* what the sidecar knows of them: a pattern for each name
    Name,           \* what the user may type: names,
    Typed,          \*   regular expressions,
    Sample,         \*   samples of a value, and log lines, sequences of symbols,
    Log,
    NamespaceInput, \*   and namespaces
    Letter, Digit, Separator, Special, \* symbols; Special: escaped in a regex
    MaxCustoms,     \* bound: rows for custom patterns
    MaxId,          \* bound: rows ever added
    MaxSuggesting   \* bound: rows that work with a sample

NoRegex == [tokens |-> <<>>, fault |-> "none"]

ToolAssumption ==
    /\ MaxCustoms \in Nat /\ MaxId \in Nat /\ MaxSuggesting \in Nat
    /\ "" \in Name
    /\ NoRegex \in Typed
    /\ BUILTINS \in Seq([name : STRING, pattern : [tokens : Seq(Token), fault : {"none"}]])
    /\ \A b \in ToSet(BUILTINS) : ~MatchesEmpty(b.pattern.tokens)
    /\ Library \in [{b.name : b \in ToSet(BUILTINS)} -> [tokens : Seq(Token), fault : {"none"}]]
    /\ \A r \in Typed : r.tokens \in Seq(Token)
    /\ Sample \cup Log \subseteq Seq(STRING)
    /\ Letter \cup Digit \cup Separator \cup Special \subseteq STRING
    /\ Special \cap (Letter \cup Digit) = {}

VARIABLES
    builtinChecked, \* names of the built-in patterns that are ticked
    customs,        \* the rows: [id, tab, name, regex, sample]
    nextId,
    target,         \* "policy" or "annotation"
    namespace,
    sampleLog

tool == <<builtinChecked, customs, nextId, target, namespace, sampleLog>>

Init ==
    /\ builtinChecked = {}
    /\ customs = <<>>
    /\ nextId = 1
    /\ target = "policy"
    /\ namespace = ""
    /\ sampleLog = <<>>

-----------------------------------------------------------------------------
(* Regular expressions.                                                    *)

\* "" for an empty expression, "ok", or why it is refused.  The check is the
\* browser's, so that what only RE2 refuses passes.
re2check(r) ==
    IF r = NoRegex THEN ""
    ELSE IF r.fault \in {"construct", "syntax"} THEN r.fault
    ELSE "ok"

Alnum == Letter \cup Digit

trim(s) ==
    LET kept == {i \in DOMAIN s : s[i] # " "}
    IN  IF kept = {} THEN <<>> ELSE SubSeq(s, Min(kept), Max(kept))

\* A hyphen between a prefix and a number is escaped, an underscore is not.
Prefix(s) ==
    [i \in DOMAIN s |->
        LET c == Class({s[i]}, "one") IN IF s[i] = "-" THEN Escaped(c) ELSE c]

Generalised(s) ==
    LET piece(i) ==
            IF s[i] \in Special THEN <<Escaped(Class({s[i]}, "one"))>>
            ELSE IF s[i] \notin Alnum THEN <<Class({s[i]}, "one")>>
            ELSE IF i > 1 /\ s[i - 1] \in Alnum THEN <<>>
            ELSE <<Class(Alnum, "plus")>>
    IN  FlattenSeq([i \in DOMAIN s |-> piece(i)])

Suggested(s) ==
    LET \* where a prefix ends: letters and digits, then one separator
        ends    == {k \in 2..(Len(s) - 1) :
                       /\ s[k] \in Separator
                       /\ \A i \in DOMAIN s \ {k} : s[i] \in Alnum}
        k       == Min(ends)
        tail    == {s[i] : i \in (k + 1)..Len(s)}
        tokens  ==
            IF ends # {}
            THEN Append(Prefix(SubSeq(s, 1, k)),
                        IF tail \subseteq Digit THEN Escaped(Class(Digit, "plus"))
                                                ELSE Class(Alnum, "plus"))
            ELSE IF ToSet(s) \subseteq Digit THEN [i \in DOMAIN s |-> Escaped(Class(Digit, "one"))]
            ELSE IF ToSet(s) \subseteq Alnum THEN [i \in DOMAIN s |-> Class(Alnum, "one")]
            ELSE Generalised(s)
    IN  [tokens |-> tokens, fault |-> "none"]

\* Mutant: the blanks around the sample are kept.
SuggestUntrimmed(sample) == Suggested(sample)

suggestRegex(sample) == Suggested(trim(sample))

-----------------------------------------------------------------------------
(* The form.                                                               *)

ToggleBuiltin(n) ==
    /\ builtinChecked' = IF n \in builtinChecked THEN builtinChecked \ {n}
                                                 ELSE builtinChecked \cup {n}
    /\ UNCHANGED <<customs, nextId, target, namespace, sampleLog>>

Row(id) == [id |-> id, tab |-> "write", name |-> "", regex |-> NoRegex, sample |-> <<>>]

\* Mutant: rows are numbered by their place.
AddRowByPlace ==
    /\ Len(customs) < MaxCustoms
    /\ nextId <= MaxId
    /\ customs' = Append(customs, Row(Len(customs) + 1))
    /\ nextId' = nextId + 1
    /\ UNCHANGED <<builtinChecked, target, namespace, sampleLog>>

AddRow ==
    /\ Len(customs) < MaxCustoms
    /\ nextId <= MaxId
    /\ customs' = Append(customs, Row(nextId))
    /\ nextId' = nextId + 1
    /\ UNCHANGED <<builtinChecked, target, namespace, sampleLog>>

RemoveRow(id) ==
    /\ customs' = Kept(customs, {c \in ToSet(customs) : c.id # id})
    /\ UNCHANGED <<builtinChecked, nextId, target, namespace, sampleLog>>

updateCustom(id, key, x) ==
    /\ customs' = [i \in DOMAIN customs |->
                      IF customs[i].id = id THEN [customs[i] EXCEPT ![key] = x] ELSE customs[i]]
    /\ UNCHANGED <<builtinChecked, nextId, target, namespace, sampleLog>>

\* The rows that work with a sample.
Suggesting == {i \in DOMAIN customs : customs[i].tab = "suggest" \/ customs[i].sample # <<>>}

SetTab(id, t) ==
    /\ t = "suggest" => Cardinality({i \in Suggesting : customs[i].id # id}) < MaxSuggesting
    /\ updateCustom(id, "tab", t)

SetName(id, n) == updateCustom(id, "name", n)

\* In the tab "from sample" the expression can be edited once there is one.
SetRegex(c, r) ==
    /\ c.tab = "write" \/ c.regex # NoRegex
    /\ updateCustom(c.id, "regex", r)

SetSample(c, s) ==
    /\ c.tab = "suggest"
    /\ updateCustom(c.id, "sample", s)

Suggest(c) ==
    /\ c.tab = "suggest"
    /\ updateCustom(c.id, "regex", suggestRegex(c.sample))

SetTarget(t) ==
    /\ target' = t
    /\ UNCHANGED <<builtinChecked, customs, nextId, namespace, sampleLog>>

SetNamespace(n) ==
    /\ namespace' = n
    /\ UNCHANGED <<builtinChecked, customs, nextId, target, sampleLog>>

SetSampleLog(l) ==
    /\ sampleLog' = l
    /\ UNCHANGED <<builtinChecked, customs, nextId, target, namespace>>

ToggleSome    == \E b \in ToSet(BUILTINS) : ToggleBuiltin(b.name)
RemoveSome    == \E c \in ToSet(customs) : RemoveRow(c.id)
SetSomeTab    == \E c \in ToSet(customs), t \in {"write", "suggest"} : SetTab(c.id, t)
SetSomeName   == \E c \in ToSet(customs), n \in Name : SetName(c.id, n)
SetSomeRegex  == \E c \in ToSet(customs), r \in Typed : SetRegex(c, r)
SetSomeSample == \E c \in ToSet(customs), s \in Sample : SetSample(c, s)
SuggestSome   == \E c \in ToSet(customs) : Suggest(c)
ExportAs      == \E t \in {"policy", "annotation"} : SetTarget(t)
NameNamespace == \E n \in NamespaceInput : SetNamespace(n)
PasteLog      == \E l \in Log : SetSampleLog(l)

-----------------------------------------------------------------------------
(* What the form shows.                                                    *)

ActiveCustom(c) == c.name # "" /\ re2check(c.regex) = "ok"

activePatterns ==
    LET builtins == Kept(BUILTINS, {b \in ToSet(BUILTINS) : b.name \in builtinChecked})
        used     == Kept(customs, {c \in ToSet(customs) : ActiveCustom(c)})
    IN  [i \in DOMAIN builtins |->
            [name |-> builtins[i].name, pattern |-> builtins[i].pattern, builtin |-> TRUE]]
        \o [i \in DOMAIN used |->
            [name |-> used[i].name, pattern |-> used[i].regex, builtin |-> FALSE]]

Plain(t, i, j)  == IF j < i THEN <<>> ELSE <<[text |-> SubSeq(t, i, j), masked |-> FALSE]>>
Masked(t, i, j) == <<[text |-> SubSeq(t, i, j), masked |-> TRUE]>>

\* Where a search from p on finds its first match, 0 for nowhere.
Found(t, p, re) ==
    LET at == {i \in p..(Len(t) + 1) : MatchesAt(t, i, re)} IN IF at = {} THEN 0 ELSE Min(at)

\* Mutant: what follows an empty match is dropped.
SplitDropsRest(t, re) ==
    LET from[p \in 1..(Len(t) + 1)] ==
            LET i == Found(t, p, re)
                e == MatchEnd(t, i, re)
            IN  IF i = 0 THEN Plain(t, p, Len(t))
                ELSE Plain(t, p, i - 1) \o Masked(t, i, e - 1)
                     \o (IF e = i THEN <<>> ELSE from[e])
    IN  from[1]

\* Mutant: only the first match of each segment is masked.
SplitOnce(t, re) ==
    LET i == Found(t, 1, re)
        e == MatchEnd(t, i, re)
    IN  IF i = 0 THEN Plain(t, 1, Len(t))
        ELSE Plain(t, 1, i - 1) \o Masked(t, i, e - 1) \o Plain(t, e, Len(t))

\* One segment in turn; a match of nothing ends the search in it.
Split(t, re) ==
    LET from[p \in 1..(Len(t) + 1)] ==
            LET i == Found(t, p, re)
                e == MatchEnd(t, i, re)
            IN  IF i = 0 THEN Plain(t, p, Len(t))
                ELSE Plain(t, p, i - 1) \o Masked(t, i, e - 1)
                     \o (IF e = i THEN Plain(t, e, Len(t)) ELSE from[e])
    IN  from[1]

\* One pattern in turn: it masks in the segments that no other has masked.
Turn(segs, p) ==
    FlattenSeq([k \in DOMAIN segs |->
        IF segs[k].masked THEN <<segs[k]>> ELSE Split(segs[k].text, p.pattern.tokens)])

previewMasked(log, active) ==
    LET after[n \in 0..Len(active)] ==
            IF n = 0 THEN Plain(log, 1, Len(log)) ELSE Turn(after[n - 1], active[n])
    IN  after[Len(active)]

ns == IF namespace = "" THEN "<namespace>" ELSE namespace

\* The text is what one finds in the file: a regular expression stands in
\* double quotes, in which only double quotes are escaped.  A policy lists all
\* patterns in order; annotations list the built-in ones, then the others.
yamlOutput ==
    LET entry(p) == [name |-> p.name, builtin |-> p.builtin,
                     quoted |-> IF p.builtin THEN NoRegex ELSE p.pattern]
        entries  == [i \in DOMAIN activePatterns |-> entry(activePatterns[i])]
    IN  [kind |-> target, namespace |-> ns, entries |-> entries]

labelCmd == [namespace |-> ns]

-----------------------------------------------------------------------------
(* The log line in the cluster.                                            *)

\* Every regular expression that can come up.
Expression ==
    {b.pattern : b \in ToSet(BUILTINS)} \cup {Library[b.name] : b \in ToSet(BUILTINS)}
        \cup Typed \cup {suggestRegex(s) : s \in Sample \cup {<<>>}}

Sidecar == INSTANCE Masking WITH
    Line <- {}, PolicyRules <- {}, AddedRules <- {},
    Word <- [r \in Expression |-> r.tokens],
    line <- <<>>, policy <- <<>>, added <- <<>>, state <- "", result <- <<>>

LogLine == [object |-> FALSE, spaced |-> FALSE, members |-> <<[path |-> <<>>, value |-> sampleLog]>>]

segments == previewMasked(Sidecar!Original(LogLine), activePatterns)

\* The cells one can read in the preview: for the others it has [REDACTED].
Shown(segs) ==
    UNION {{segs[k].text[i].id : i \in DOMAIN segs[k].text} :
              k \in {n \in DOMAIN segs : ~segs[n].masked}}

\* The export has a built-in pattern by its name, and the sidecar's library
\* says what that is.
Exported(p) == IF p.builtin THEN Library[p.name] ELSE p.pattern

\* The rules of a policy that was exported, or of annotations: the sidecar
\* gets these after the built-in ones, in any order.
RuleOrders ==
    LET rule(p)  == [name |-> p.name, pattern |-> Exported(p), field |-> "", replace |-> "[REDACTED]"]
        active   == activePatterns
        rules    == [i \in DOMAIN active |-> rule(active[i])]
        builtins == Kept(active, {p \in ToSet(active) : p.builtin})
    IN  IF target = "policy" THEN {rules}
        ELSE {SubSeq(rules, 1, Len(builtins)) \o order :
                 order \in SetToSeqs({rules[i] : i \in (Len(builtins) + 1)..Len(rules)})}

-----------------------------------------------------------------------------
FormOK ==
    /\ builtinChecked \subseteq {b.name : b \in ToSet(BUILTINS)}
    /\ Len(customs) <= MaxCustoms
    /\ \A i \in DOMAIN customs :
          /\ customs[i].tab \in {"write", "suggest"}
          /\ customs[i].name \in Name
          /\ customs[i].regex \in Expression
          /\ customs[i].sample \in Sample \cup {<<>>}
    /\ nextId \in 1..(MaxId + 1)
    /\ target \in {"policy", "annotation"}

(* However rows are added and removed, no two have the same number, so that *)
(* an edit changes, and the cross removes, no row but its own               *)
(* (updateCustom, setNextId).                                               *)
RowsDistinct ==
    /\ \A i, j \in DOMAIN customs : customs[i].id = customs[j].id => i = j
    /\ \A i \in DOMAIN customs : customs[i].id < nextId

(* The preview neither loses, repeats nor moves any of the log line,        *)
(* whatever is masked and also when an expression matches an empty text     *)
(* (previewMasked).                                                         *)
PreviewKeepsText ==
    LET segs == segments
    IN  FlattenSeq([k \in DOMAIN segs |-> segs[k].text]) = Sidecar!Original(LogLine)

\* What makes a rule differ from what the form has: its name is taken, RE2
\* refuses it, it matches an empty text, or the library's pattern of that name
\* is another one than the tool's, as for phone-us.
TakenAsIs(ps) ==
    /\ \A i, j \in DOMAIN ps : ps[i].name = ps[j].name => i = j
    /\ \A i \in DOMAIN ps : /\ ps[i].pattern.fault = "none" /\ ~MatchesEmpty(ps[i].pattern.tokens)
                           /\ Exported(ps[i]) = ps[i].pattern

(* The preview shows of a log line what the sidecar would print of it under *)
(* the exported rules: previewMasked, with the browser's expressions and in *)
(* segments, agrees with MaskLine, for one order of annotations, where the  *)
(* rules are what the form has.                                             *)
PreviewAgreesWithSidecar ==
    TakenAsIs(activePatterns) =>
        LET shown == Shown(segments) IN
            \E rules \in RuleOrders :
                shown = Sidecar!Raw(Sidecar!MaskLine(LogLine, rules).text)

(* What is suggested for a sample passes the check and matches all of the   *)
(* sample, apart from the blanks around it (suggestRegex).                  *)
SuggestionFits ==
    \A i \in DOMAIN customs :
        LET s     == trim(customs[i].sample)
            cells == [p \in DOMAIN s |-> [sym |-> s[p]]]
            r     == suggestRegex(customs[i].sample)
        IN  s # <<>> => re2check(r) = "ok" /\ MatchEnd(cells, 1, r.tokens) = Len(s) + 1

(* pages/tool/index.astro: "copy ready-to-use YAML"; GUIDE.md: "Get         *)
(* copy-ready MaskingPolicy YAML", with ORD-\d+ suggested for ORD-20260423. *)
(* A backslash in double quotes begins an escape of YAML's, and YAML knows  *)
(* none of those that stand before a hyphen, a dot or a d.                  *)
YamlReadyToUse ==
    \A i \in DOMAIN yamlOutput.entries :
        \A t \in ToSet(yamlOutput.entries[i].quoted.tokens) : ~t.esc
=============================================================================
