------------------------------ MODULE Masking ------------------------------
(***************************************************************************)
(* Masking of one log line by the sidecar: MaskLine (pkg/masker/masker.go) *)
(* and maskJSONFields (pkg/masker/json.go), with the rules in the order in *)
(* which Merge puts them, those of policies before those of annotations.   *)
(*                                                                         *)
(* A line is a sequence of members. The member of a JSON object has the    *)
(* path that leads to it, of keys and, for an element of an array, of its  *)
(* place, a step which no field rule names; no object has a key twice. A   *)
(* line that is no object is one member without a path. A cell of text is  *)
(* a symbol with an identity, <<m, p>> for symbol p of the value of member *)
(* m, and Added for everything that is not part of a value.                *)
(***************************************************************************)
EXTENDS Naturals, Sequences, SequencesExt, FiniteSets, Filter, RegexTokens

CONSTANTS
    Line,        \* lines: [object, spaced, members], a member: [path, value]
    PolicyRules, \* sequences of rules [name, pattern, field, replace], as Merge
    AddedRules,  \*   makes them from policies, and from annotations after them
    Word         \* Word[p]: the tokens of the regular expression p

Added == <<0, 0>>
Cell(s) == [sym |-> s, id |-> Added]

ASSUME LineAssumption ==
    Line \subseteq [object : BOOLEAN, spaced : BOOLEAN,
                    members : Seq([path : Seq(STRING), value : Seq(STRING)])]

ASSUME RuleAssumption ==
    \A rs \in PolicyRules \cup AddedRules :
        /\ rs \in Seq([name : STRING, pattern : STRING, field : STRING, replace : STRING])
        /\ \A i \in DOMAIN rs :
              rs[i].field = "" => Word[rs[i].pattern] \in Seq(Token)

VARIABLES
    line,    \* the line as the container wrote it
    policy,  \* the rules that stem from policies
    added,   \* the rules that stem from annotations
    state,   \* "scanned" or "masked"
    result   \* of MaskLine: [text, matched]

vars == <<line, policy, added, state, result>>

-----------------------------------------------------------------------------
(* Lines and their text.                                                   *)

Members(l) ==
    [m \in DOMAIN l.members |->
        [path  |-> l.members[m].path,
         value |-> [p \in DOMAIN l.members[m].value |->
                       [sym |-> l.members[m].value[p], id |-> <<m, p>>]]]]

\* An object's members are separated by commas, its keys followed by a blank
\* when the container formats its logs so.
Text(ms, spaced) ==
    FlattenSeq([m \in DOMAIN ms |->
        [d \in DOMAIN ms[m].path |-> Cell(ms[m].path[d])]
        \o (IF spaced THEN <<Cell(" ")>> ELSE <<>>)
        \o ms[m].value
        \o (IF ms[m].path = <<>> THEN <<>> ELSE <<Cell(",")>>)])

Original(l) == Text(Members(l), l.spaced)

\* json.Marshal: no blanks, and & is escaped.  It sorts the keys, and so are the
\* members of a line of the model.
Marshal(ms) ==
    LET escaped(v) == [p \in DOMAIN v |->
                          IF v[p].sym = "&" THEN [v[p] EXCEPT !.sym = "u0026"] ELSE v[p]]
    IN  Text([m \in DOMAIN ms |-> [ms[m] EXCEPT !.value = escaped(ms[m].value)]], FALSE)

-----------------------------------------------------------------------------
(* maskJSONFields.                                                         *)

IsField(r) == r.field # ""

\* Mutant: only the keys of the outermost object are looked up.
NamedTopLevel(path, frs) ==
    IF path # <<>> /\ \E i \in DOMAIN frs : frs[i].field = path[1] THEN 1 ELSE 0

\* The outermost key of the path that a field rule names, 0 when there is none.
Named(path, frs) == SelectInSeq(path, LAMBDA k : \E i \in DOMAIN frs : frs[i].field = k)

\* Of the rules for one field the last counts.
RuleFor(key, frs) == frs[SelectLastInSeq(frs, LAMBDA r : r.field = key)]

\* The value of a named key, whatever it is, becomes one string.
MaskMember(m, frs) ==
    LET d == Named(m.path, frs)
    IN  IF d = 0 THEN m
        ELSE [path  |-> SubSeq(m.path, 1, d),
              value |-> <<Cell(RuleFor(m.path[d], frs).replace)>>]

\* Members inside a masked value are one member afterwards.
MaskMembers(ms, frs) ==
    LET masked == [m \in DOMAIN ms |-> MaskMember(ms[m], frs)]
        firsts == {m \in DOMAIN ms :
                      Named(ms[m].path, frs) # 0 =>
                          \A n \in 1..(m - 1) : masked[n].path # masked[m].path}
        kept   == Kept([m \in DOMAIN ms |-> m], firsts)
    IN  [i \in DOMAIN kept |-> masked[kept[i]]]

FieldMatches(ms, frs) ==
    {RuleFor(ms[m].path[Named(ms[m].path, frs)], frs).name :
        m \in {n \in DOMAIN ms : Named(ms[n].path, frs) # 0}}

\* Mutant: the line is formatted anew even when no field was masked.
MaskFieldsAlways(l, frs) ==
    LET ms == Members(l)
    IN  IF frs # <<>> /\ l.object
        THEN [text |-> Marshal(MaskMembers(ms, frs)), matched |-> FieldMatches(ms, frs)]
        ELSE [text |-> Original(l), matched |-> {}]

MaskFields(l, frs) ==
    LET ms == Members(l)
    IN  IF l.object /\ FieldMatches(ms, frs) # {}
        THEN [text |-> Marshal(MaskMembers(ms, frs)), matched |-> FieldMatches(ms, frs)]
        ELSE [text |-> Original(l), matched |-> {}]

-----------------------------------------------------------------------------
(* Regular expression rules and MaskLine.                                  *)

\* Mutant: only the first match is replaced.
ReplaceFirstMatch(t, w, s) ==
    LET at == {i \in DOMAIN t : MatchesAt(t, i, w)}
        i  == CHOOSE j \in at : \A k \in at : j <= k
    IN  IF at = {} THEN t
        ELSE SubSeq(t, 1, i - 1) \o <<Cell(s)>> \o SubSeq(t, MatchEnd(t, i, w), Len(t))

\* ReplaceAllLiteralString: leftmost matches first, none overlapping another.  An
\* empty match counts unless it follows another match at once.
ReplaceMatches(t, w, s) ==
    LET empty(i) == IF MatchEnd(t, i, w) = i THEN <<Cell(s)>> ELSE <<>>
        from[i \in 1..(Len(t) + 1)] ==
            IF i > Len(t) THEN <<>>
            ELSE IF Consumes(t, i, w) THEN <<Cell(s)>> \o from[MatchEnd(t, i, w)]
            ELSE <<t[i]>> \o empty(i + 1) \o from[i + 1]
    IN  empty(1) \o from[1]

Apply(acc, r) ==
    LET t == ReplaceMatches(acc.text, Word[r.pattern], r.replace)
    IN  [text |-> t, matched |-> IF t = acc.text THEN acc.matched ELSE acc.matched \cup {r.name}]

FieldRules(rs) == Kept(rs, {r \in ToSet(rs) : IsField(r)})
RegexRules(rs) == Kept(rs, {r \in ToSet(rs) : ~IsField(r)})

\* The field rules frs first, then the regular expressions res one by one.
RunRules(l, frs, res) ==
    LET run[n \in 0..Len(res)] ==
            IF n = 0 THEN MaskFields(l, frs) ELSE Apply(run[n - 1], res[n])
    IN  run[Len(res)]

\* Mutant: the regular expression rules run last to first.
MaskLineBackwards(l, rs) == RunRules(l, FieldRules(rs), Reverse(RegexRules(rs)))

MaskLine(l, rs) == RunRules(l, FieldRules(rs), RegexRules(rs))

-----------------------------------------------------------------------------
Init ==
    /\ line \in Line
    /\ policy \in PolicyRules
    /\ added \in AddedRules
    \* Merge leaves one rule for each name.
    /\ \A i \in DOMAIN policy, j \in DOMAIN added : policy[i].name # added[j].name
    /\ state = "scanned"
    /\ result = [text |-> Original(line), matched |-> {}]

Mask ==
    /\ state = "scanned"
    /\ state' = "masked"
    /\ result' = MaskLine(line, policy \o added)
    /\ UNCHANGED <<line, policy, added>>

Next == Mask

Spec == Init /\ [][Next]_vars

-----------------------------------------------------------------------------
Rules == policy \o added
Masked == state = "masked"

\* The cells of values that a text still shows.
Raw(t) == {t[i].id : i \in DOMAIN t} \ {Added}

\* Where a match of w ends or begins, v has the word boundaries that it asks for.
Delimits(w, v) ==
    \A k \in DOMAIN v :
        v[k].rep = "bound" => w # <<>> /\ w[1] = v[k] /\ w[Len(w)] = v[k]

(* After all rules have run, a rule finds nothing any more that it would    *)
(* hide (MaskLine): neither its own replacements nor those of the rules     *)
(* behind it bring back what it removed.  It takes that v, its expression,  *)
(* has no token for the replacements, and that each of these rules that     *)
(* does not look for word boundaries meets none in v: behind otp-6digit,    *)
(* email turns foo@bar.com123456 into a text that otp-6digit matches.       *)
NoMatchSurvives ==
    LET res == RegexRules(Rules) IN
    Masked =>
        \A k \in DOMAIN res :
            LET v == Word[res[k].pattern] IN
            (\A n \in k..Len(res) :
                /\ Foreign(res[n].replace, v)
                /\ Delimits(Word[res[n].pattern], v))
            => \A i \in DOMAIN result.text : ~Consumes(result.text, i, v)

(* No part of the value of a named key is left, at any depth of an object   *)
(* and whatever the value is: "Field masking recurses into nested objects   *)
(* and arrays" (documentation.md), and regular expressions that run on the  *)
(* result bring nothing back.                                               *)
NamedFieldsGone ==
    Masked /\ line.object =>
        \A k \in DOMAIN Rules, m \in DOMAIN line.members :
            IsField(Rules[k]) /\ Rules[k].field \in ToSet(line.members[m].path)
                => \A c \in Raw(result.text) : c[1] # m

\* A field rule of these names a key of the line, so that it is formatted anew.
Reformats(rs) ==
    /\ line.object
    /\ \E k \in DOMAIN rs, m \in DOMAIN line.members :
          IsField(rs[k]) /\ rs[k].field \in ToSet(line.members[m].path)

(* Rules of annotations never show more of a line than the policies alone   *)
(* do ("annotation rules extend but cannot remove them", Merge), unless     *)
(* they are field rules that change what the policies' regular expressions  *)
(* run on: the format of the line, or the value of another member.          *)
AnnotationsOnlyHide ==
    Masked /\ (Reformats(added) => Reformats(policy) /\ RegexRules(policy) = <<>>) =>
        Raw(result.text) \subseteq Raw(MaskLine(line, policy).text)

(* A line of which no rule is reported to match is printed as it came       *)
(* (maskJSONFields returns the line itself when no field was masked).       *)
UnmatchedUntouched ==
    Masked /\ result.matched = {} => result.text = Original(line)

(* documentation.md: annotation rules "cannot remove CRD-level rules", and  *)
(* field masking "runs before regex rules, so both can be active            *)
(* simultaneously": what the policies alone would mask stays masked.        *)
AnnotationsCannotUnmask ==
    Masked => Raw(result.text) \subseteq Raw(MaskLine(line, policy).text)
=============================================================================
