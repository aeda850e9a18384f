------------------------------- MODULE Audit -------------------------------
(***************************************************************************)
(* The coverage check of a MaskingPolicy by `logcloak audit` (runAudit,    *)
(* cmd/cli/audit.go): every line goes through the rules of the policy and, *)
(* apart from that, through all built-in patterns, and a pattern that      *)
(* matches without being listed in the policy is reported as missing.      *)
(***************************************************************************)
EXTENDS Masking

CONSTANTS
    Library,     \* names of the built-in patterns, in DOMAIN Word
    AuditPolicy  \* spec.patterns of policies: sequences of [name, builtin, regex]

\* Merge of one policy: of the entries of one name the first counts.
PolicyMasker(ps) ==
    LET firsts  == {i \in DOMAIN ps : \A j \in 1..(i - 1) : ps[j].name # ps[i].name}
        kept    == Kept([i \in DOMAIN ps |-> i], firsts)
        rule(p) == [name |-> p.name, field |-> "", replace |-> "[REDACTED]",
                    pattern |-> IF p.builtin # "" THEN p.builtin ELSE p.regex]
    IN  [k \in DOMAIN kept |-> rule(ps[kept[k]])]

\* Mutant: the entry's own name is taken for the built-in pattern's.
CoveredByName(ps) == {ps[i].name : i \in DOMAIN ps}

Covered(ps) == {ps[i].builtin : i \in DOMAIN ps} \ {""}

\* The library is a Go map: its patterns are tried in any order.
GroundTruthMasker(order) ==
    [i \in DOMAIN order |->
        [name |-> order[i], pattern |-> order[i], field |-> "",
         replace |-> "[REDACTED:" \o order[i] \o "]"]]

GroundTruth(l, order) == MaskLine(l, GroundTruthMasker(order)).matched

Gaps(ps, l, order) == GroundTruth(l, order) \ Covered(ps)

\* Rules of regular expressions, as RuleAssumption has them: they are compiled
\* before the first line is read.
Compiled(rs) ==
    /\ rs \in Seq([name : STRING, pattern : STRING, field : STRING, replace : STRING])
    /\ \A i \in DOMAIN rs : Word[rs[i].pattern] \in Seq(Token)

\* None of the built-in patterns matches the empty text (patterns.Library).
ASSUME AuditAssumption ==
    /\ IsFiniteSet(Library) /\ \A n \in Library : ~MatchesEmpty(Word[n])
    /\ AuditPolicy \subseteq Seq([name : STRING, builtin : STRING, regex : STRING])
    /\ \A ps \in AuditPolicy : Compiled(PolicyMasker(ps))
    /\ \A order \in SetToSeqs(Library) : Compiled(GroundTruthMasker(order))

-----------------------------------------------------------------------------
\* Where the tokens of re, one after the other, may end from position i of t on.
Ways(t, i, re) ==
    LET at[k \in 0..Len(re)] ==
            IF k = 0 THEN {i} ELSE UNION {Ends(t, p, re[k]) : p \in at[k - 1]}
    IN  at[Len(re)]

\* The expression without its word boundaries.
Loose(re) ==
    [k \in DOMAIN re |-> IF re[k].rep = "bound" THEN Class({}, "star") ELSE re[k]]

\* The positions of t that a built-in pattern could take up, whatever stands around.
Extent(t, n) ==
    UNION {UNION {i..(q - 1) : q \in Ways(t, i, Loose(Word[n]))} : i \in DOMAIN t}

Exposed(t) == {n \in Library : \E i \in DOMAIN t : Consumes(t, i, Word[n])}

Disjoint(t) == \A m, n \in Library : m # n => Extent(t, m) \cap Extent(t, n) = {}

DistinctNames(ps) == \A i, j \in DOMAIN ps : ps[i].name = ps[j].name => i = j

(* No gap reported means that what the policy prints has no match of a      *)
(* built-in pattern left that looks for no word boundary, whatever the      *)
(* order of the library (runAudit): "what kubectl logs would still expose". *)
(* It takes that the policy gives no name twice, since audit counts what    *)
(* Merge drops, and that no two built-in patterns could take up one symbol  *)
(* of the line.  For those with word boundaries it does not hold: audit     *)
(* looks for them in the line as it came, and a replacement of the policy   *)
(* can make a boundary.                                                     *)
AuditFindsExposure ==
    Masked /\ Disjoint(Original(line)) =>
        \A ps \in AuditPolicy :
            /\ DistinctNames(ps)
            /\ \E order \in SetToSeqs(Library) : Gaps(ps, line, order) = {}
            => \A n \in Exposed(MaskLine(line, PolicyMasker(ps)).text) : HasBoundary(Word[n])
=============================================================================
