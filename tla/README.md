# Verification of logcloak

logcloak masks sensitive data in the logs of Kubernetes pods. An admission
webhook rewrites each pod: its containers write to a FIFO instead of stdout, and
an added sidecar reads the FIFO, masks each line and prints it. This directory
holds TLA+ models of the parts of logcloak that keep state or run concurrently,
and of the website's pattern tool and guide, their TLC configurations, and proofs
checked by TLAPS.

    tlc -config TLS_safety.cfg MCTLSRotation.tla
    tlapm TLSRotation_proofs.tla

`PROJECT.json` lists the runs, the properties, the source lines behind every
definition, the hazards and the findings.

## Inventory

| Component | Source | State | Operations | Hard behaviour | What makes it correct |
|---|---|---|---|---|---|
| TLS manager | `pkg/webhook/tls.go` | in memory: certificate, CA; in the cluster: Secret `logcloak-tls`, `caBundle` | boot (`NewTLSManager`), tick and `rotate`, `PatchWebhookCABundle` | replicas race; three copies of a bundle change one at a time; requests fail, answers are lost, processes die in between | replicas agree after boot; an expiring certificate gets replaced; the API server can reach a replica; failures heal |
| Webhook process | `cmd/webhook/main.go` | none of its own | start, announce the CA, serve, stop | a failed patch at boot is never retried | it serves what it announced |
| Admission handler | `pkg/webhook/handler.go`, `patch.go` | none between requests | `mutate`, `resolveRules` | policies change between requests; one bad policy affects every pod of the namespace | a pod that is admitted has every rule of every matching policy |
| Injection | `pkg/webhook/inject.go` | none; in the cluster: the pod, its init containers, the FIFO | `BuildPatch`, `isExcluded`, `wrapEntrypoint`, `shellQuote` | runs on pods that were rewritten already; a shell reads the command line it writes; sandboxes are lost and init containers run again | every container that is not excluded writes to the FIFO and runs the words it was given; the pod starts |
| Rule merging | `pkg/rules` | none between calls | `Merge`, `ParseAnnotations`, `Serialize`, `Deserialize` | first occurrence of a name wins; map order of annotations | policy rules cannot be displaced by annotations; the sidecar decodes what the webhook encoded |
| Masker | `pkg/masker` | its rules | `MaskLine`, `maskJSONFields` | rules are applied one after the other to each other's output | no value that a rule names survives |
| Sidecar | `cmd/sidecar/main.go` | scanner buffer; the FIFO | open, scan, mask, print, drop-all mode | restarts, end of file and reopening, oversized lines, several writers | order, secrecy, delivery, no container blocked forever |
| Command line tools | `cmd/cli` | none | `validate`, `preview`, `scan`, `audit` | sequential | `audit` reports what the policy would miss |
| Policy controller | `cmd/controller/main.go` | none | `Reconcile` (reads and logs) | none | - |
| Regex validation, pattern library | `pkg/regex`, `pkg/patterns` | none | `Validate`, `Get` | none | - |
| Metrics, sentinel lines | `pkg/metrics`, `pkg/sentinel` | counters | increment, format | none | - |
| Pattern tool | `website`, `PatternTool.tsx` | ticked patterns, rows of custom patterns, sample log line, export target | add, remove and edit rows, suggest an expression, preview, export | rows come and go and are found by number; empty matches; the preview computes what the sidecar computes in another way | the preview is what the sidecar prints; edits hit their own row; suggestions fit; the export is usable |
| Guide page | `website`, `code-tabs.tsx`, `tabs.tsx`, `highlight.tsx`, `copy.tsx`, `accordion.tsx` | loader, panels, selected code, heights, frames asked for; check mark and timers; open question in three copies | load, select, measure, draw, resize; copy, expire; toggle | promises fail half way; effects, observers and frames run late; timers overlap | each code has a panel, the bar and the height fit the panel shown, the check goes away, the answer fits the question |
| Chart and CRD | `charts/logcloak` | declarations | - | - | - |

How they interact: the API server calls the webhook for each created pod, over
TLS and only if the certificate chains to the `caBundle`. The handler lists the
namespace's policies, merges their rules with the pod's annotations and encodes
the result in the environment of the sidecar. The kubelet runs the pod: the init
container makes the FIFO, the wrapped containers and the sidecar open it. The
replicas of the webhook interact only through the Secret and the `caBundle`. The
website talks to nothing: what its pattern tool exports is pasted into a
`MaskingPolicy` or a pod by a person.

## Modules

| Module | Models | State | Actions |
|---|---|---|---|
| `CertDistribution` | what certificate handling promises, without a protocol | bundles made durable, trust anchor, served bundle per replica | publish, vouch, serve, switch, stop |
| `TLSRotation` | `tls.go` and the boot of `cmd/webhook/main.go` | the Secret, the `caBundle`, and per replica the next request and the bundles in memory | one per API request, and one for each way it can go wrong |
| `Admission` | `handler.go`, `patch.go`, `pkg/rules` | policies of the namespace; the request that is served; its outcome | one per step of `mutate`, `resolveRules` and the loop of `Merge`; edits of policies |
| `Masking` | `pkg/masker` | one line, the rules, the result | `Mask`, over `MaskLine` as operators |
| `Audit` | `runAudit` of `cmd/cli/audit.go`, on `Masking` | none of its own | operators over a policy and a line |
| `RegexTokens` | what a regular expression matches (external) | - | operators |
| `Filter` | the loops that take over some elements of a list | - | `Kept`, used by `Masking`, `Admission` and `PatternTool`, and `AtPlaces`, used by `LogPipe` and `MaskedLog` |
| `Injection` | `inject.go`; the API server's validation, the kubelet and the shell as far as they read its patch | manifest, pod, phase, init containers done, FIFO, what each container runs | submit, copy a live pod, review, validate, run an init container, start, lose the sandbox, delete |
| `PatternTool` | `PatternTool.tsx` | its six `useState`s | one per input and button |
| `CodeTabs` | `code-tabs.tsx`, `tabs.tsx`, `highlight.tsx` | loader, panels, selected code and its copy in the Highlight, heights, frames | the loader's awaits and failures, select, effects, frame, layout |
| `CopyButton` | `copy.tsx`, `use-controlled-state.tsx` | check mark, writes under way, timers, clipboard | click, written, denied, expire |
| `Accordion` | both `accordion.tsx`, `RbacFaq.tsx` | the open item, twice, and `isOpen` of each item | toggle, effects |
| `Site` | the pages that compose these four | the union, and the page | those of the component whose page is visited |
| `MaskedLog` | what an injected pod promises about its log, without a FIFO and buffers | the lines still due, the torn one, the log, who reads | listen, emit, lose, kill |
| `LogPipe` | `cmd/sidecar/main.go` and the redirection of `inject.go` | FIFO, scanner buffer, output, containers, sidecar | opens, writes and exits of the containers; the scanner's loop; crash and restart |

Each `MC` module gives the constants of one of them values for TLC; each
`_proofs` module extends one of them with theorems. `InductionLemmas` (sequences,
folds, filters, recursive functions) and `RegexLemmas` (matches) hold what these
proofs share. Operators marked *Mutant*
in a comment are wrong versions of the definition below them: they are not part
of any specification, and each shows a property failing when the code has that
bug.

### TLSRotation

A bundle is a number, the order of its generation; key material is left out,
because the code only compares whole bundles. `pc[r]` is the request to the API
server that replica r makes next; what it computes between two requests belongs
to the step before. `get`, `create`, `reread` and `announce` are the four
requests of the boot (`NewTLSManager`, `storeTLSSecret`, then
`PatchWebhookCABundle` in `main`), `update`, `patch` and `swap` the steps of
`rotate`. A request is carried out, *refused* (no effect, the caller sees an
error), or *lost* (carried out, the caller sees an error), and a process can be
killed between any two. `Age` lets the oldest bundle come within 30 days of its
expiry, the only thing about time that `WatchAndRotate` looks at. `announced`,
`stored` and `vouched` are history, read by properties only.

`rotate` updates the Secret without a resource version, so `UpdateSecret` replaces
whatever another replica stored and never meets a conflict; `Create` in
`storeTLSSecret` is the only request whose outcome depends on the others.

### Admission

A request is `Submit`, then the handler: the skip annotation, the parsing of the
annotations, the `List` of the policies (`ListPolicies`, the one moment at which
they are read), one step per turn of `Merge`'s loop (`SkipDuplicate`, `Add`,
`RejectRule`), and the answer with the encoded rules (`Inject`). At any point
the API server may stop waiting (`NoAnswer`); then `failurePolicy` of the
registration decides. `Edit` changes, creates or deletes a policy between any
two steps. Handlers share no state, so one request at a time shows everything
that two could do. `moments` is history: the policy sets a request lived through.

`ParseAnnotations` ranges over a Go map, hence `ListPolicies` picks any order of
the regex annotations. A pattern is nil, a built-in or a valid expression, kept
as a set of at most one member; `Serialize` and `Deserialize` are the encoding
the sidecar reads.

### Masking

A line is a sequence of members; a member of a JSON object has the path of keys
that leads to it, with a step of its own for each element of an array, and
everything else is one member without a path. No object has a key twice, and the
members are in the order of their keys, as `json.Marshal` has them. Each symbol
of a value carries an identity, so that properties can ask which symbols of the
*original* are still printed, not what the output looks like. `Marshal` does what
`json.Marshal` does to the patterns: blanks go and `&` is escaped. A pattern is a
sequence of character classes, each with a repetition or without, and of word
boundaries, `\b` (`RegexTokens`); `ReplaceMatches` takes the leftmost matches that
do not overlap, empty ones included: `Validate` refuses a few constructs and what
does not compile, but an expression such as `a*` passes, and then has its
replacement put wherever it matches nothing.

A replacement, and an escaped `&`, is one cell although it is several characters.
For a class of characters that makes no difference as long as no expression
contains a part of it, and for word boundaries it takes the first and the last
character to be of one sort, as they are in `[REDACTED]`; `u0026`, which begins
with a backslash and ends with a digit, is no word symbol here.

`Audit` adds what `logcloak audit` computes of a line: the gaps, over every order
of the library, which is a Go map. Its property relates that report to what the
policy's own rules leave in the line.

### LogPipe

A byte is a cell: container, line, position. `OpenWrite` and `OpenRead` are the
blocking opens of a FIFO, `Write` is one `write(2)` (atomic up to `PipeBuf`, so a
long line goes out in parts and those of two containers interleave), and
`BrokenPipe` is `SIGPIPE`. `Read`, `EmitLine`, `TooLong`, `EndOfFile` and `Return`
are the loop of `bufio.Scanner` in `processPipe` and `dropPipe` and the end of
`main`. `Crash` is a kill of the sidecar at any point, `End` a container that ends
by itself, with status 0 or not, also in the middle of a line; `Restart` and `End`
have the kubelet start again what ended, as `restartPolicy` says, and a container
that is started again opens the FIFO again, whatever the sidecar is doing then. A
container that ended goes on behind the line it was writing (`Script` is what it
logs in all its lives). Masking is reduced to the case that matters here: a sensitive
part is recognised only when the scanner's token holds all of it.

`MaskedLog` is the same log with whole lines for cells. `due` are the lines that
may still come out, and `Emit` prints the first one of a container, with its
sensitive part masked if it is all there. Lines are lost (`Lose`) when nobody
reads, and by a `Kill`; a kill may leave one line `torn`, without its beginning,
and that one comes out before any other. `LogPipe` implements it (`LogSpec`)
with these readings: due is what is not written, in the FIFO or in the scanner's
buffer; torn is the first of it if it does not start with its first cell. It does
so only in pods whose lines are `Atomic`, and `LogSpec` asks it of those only: a
line that is longer than the buffer or than a write comes out in pieces, see
`pipe_oversize`.

### Injection

A pod is its containers, volumes and init containers, and the names its user
excluded. `Review` is `mutate` with `BuildPatch`; the rules it carries are
`Admission`'s. A container that was wrapped keeps, next to its command `sh -c`,
the pieces of its script, each quoted or not, because the properties are about
what a shell makes of them. `shellQuote` quotes a word with a blank, a quote, `$`, a
backquote or the like and leaves all others bare; `Kind` says what a shell takes such
a word for. It ends the line at a comment and the command at a separator, both
before the redirection to the FIFO; it reads other words in place of a pattern of
file names or a redirection (`Reads`); and it runs nothing at all where a
parenthesis stands. `Validate` is the API server's check for
names given twice, `RunInit` and `Start` are the kubelet, and `LoseSandbox` makes
it start over, with the memory-backed volume kept or (after a reboot) not.
`Resubmit` is a user who creates a pod from the manifest of a running one.

### Site

`Site` composes the four components of the two pages that run code. They share no
state: a visit is one page, and a link loads the other anew. `ClickCopy` is the
one interaction, of the copy button with the selected code.

`PatternTool`: the form's handlers are the actions; what it shows
(`activePatterns`, `previewMasked`, `yamlOutput`) are operators. Its preview is
compared with `MaskLine`: `PatternTool` instantiates `Masking` with the exported
rules in every order `ParseAnnotations` may give them. A built-in pattern is
exported by its name, and the sidecar takes the pattern its own `Library` has under
that name (`Exported`).

`CodeTabs`: React commits a render at once and runs the effects of the commit some
time later (`Effects`), a ResizeObserver is called in a frame and asks for the
next one (`Frame`), and the loader's awaits succeed one after the other or fail at
any of them. `CopyButton` and `Accordion` are as small as their sources.

## Runs

| Run | Expect | Properties | Bounds |
|---|---|---|---|
| `tls_safety` | pass | `TypeOK`, `BootAgreement`, `SomeReplicaReachable`, `BootEndsOnlyByFault`, `DistributionSpec` | 2 replicas, 5 bundles, 2 aged, one fault of each kind; 211,861 states |
| `tls_live` | pass | `RotationCompletes`, `LoneReplicaHeals` | 1 replica, 9 bundles, 2 aged, 2 refused, 1 lost, 2 crashes; 16,448 states |
| `tls_shared` | violation | `ReplicasShareTrustedCert` | 2 replicas, 1 aged, no fault |
| `admission` | pass | `TypeOK`, `RulesOfOneMoment`, `AnnotationsExtend`, `NoneUnmaskedByError`, `SidecarCanMask` | 2 policies of 5 kinds or absent, 6 pods, 2 policy sets per request; 239,948 states |
| `injection` | pass | `TypeOK`, `OutputToSidecar`, `RunsAsWritten`, `InitsFirst`, `PodStarts` | pods of two containers, 25 command lines, sandbox lost twice; 9,025 states |
| `injection_entrypoint` | violation | `EntrypointRuns` | as above |
| `masking` | pass | `NoMatchSurvives`, `NamedFieldsGone`, `AnnotationsOnlyHide`, `UnmatchedUntouched`, `AuditFindsExposure` | lines, rules and results, see below; 25,912 states |
| `masking_unmask` | violation | `AnnotationsCannotUnmask` | as above |
| `pipe_live` | pass | `TypeOK`, `InOrder`, `NoRawSecret`, `LoneWriterDelivers`, `AppsFinish`, `LogSpec` | 3 kinds of container, at most 2 in a pod, lines of 3, 4 or 6, 1 crash, 1 end before the log is written; 156,257 states |
| `pipe_oversize` | violation | `OversizedLineDropped` | 1 container, no crash |
| `site` | pass | `TypeOK`, `RowsDistinct`, `PreviewKeepsText`, `PreviewAgreesWithSidecar`, `SuggestionFits`, `EveryCodeHasPanel`, `BarFollowsPanel`, `HeightFits`, `CheckHasTimer`, `AnswerMatchesTrigger`, `GuideSettles` | 2 built-in patterns, one of them another in the library; 2 rows, 3 rows ever, 1 at a time with a sample; 2 codes, 2 heights, 2 copies under way; 206,800 states |
| `site_yaml` | violation | `YamlReadyToUse` | as above |

Why the bounds are enough:

- *TLS.* Two replicas are what the boot race and overlapping rotations need: the
  only thing a replica sees of the others is the Secret. `MaxAged` 2 lets a
  replacement age too. Five bundles leave some over after both boot and both
  rotate. The proofs remove the bounds for every safety property. In `tls_live`
  the nine bundles are more than the faults can use up; if they ran out, `Tick`
  would be disabled and the liveness properties would fail.
- *Admission.* Two policies can repeat a name with the same or another pattern,
  and one can match while the other does not. The pods repeat names of
  policies, contradict them, use a blank, a field twice, an expression that does
  not compile, and skip. Two policy sets are the fewest with which a request
  could mix two moments.
- *Injection.* An excluded container before and after a wrapped one, excluded by
  the list of proxies and by the annotation; commands with and without arguments,
  words of every kind, images with a shell and without; init containers and
  volumes of the pod's own or none. `MaxRestarts` 2 has a sandbox lost again
  after it was lost with its FIFO.
- *Masking.* All plain lines of up to four symbols, which holds two overlapping
  matches of a word of two and a repetition next to them, and objects with two
  and three members, flat and nested. The rules overlap each other, themselves, a
  key with its blank, an escaped symbol, and the value of one member with the key
  of the next; field rules of annotations name keys that are there, once and at
  two depths and in two elements of an array, and keys that are not. Two patterns
  begin and end at word boundaries, with lines in which such a boundary is there and
  in which a replacement makes it, and one matches the empty text. The expressions
  match no text of a replacement: a
  `redactWith` that itself matches a pattern is the user's own doing and left out.
  The audited policies name a built-in pattern by its own name, by another's, and
  give one name twice.
- *LogPipe.* A line of 3 fits the buffer of 4 and one atomic write, one of 4 the
  buffer only, and one of 6 neither. A buffer of 4 holds a line and the beginning
  of the next, which is what read-ahead needs, and a FIFO of 6 two lines. Two
  containers suffice to interleave; that lines of several containers stay whole
  when each is one write is left to the proofs. One crash tears a line, one end
  (`MaxEnd`) has a container write again to a FIFO it left; those at the end of a
  log do not count, so that containers come back as often as the policy says. The
  proofs remove the bounds for the safety properties.
- *Site.* Two rows and three numbers (`MaxCustoms`, `MaxId`) have a row removed
  and another added; the expressions overlap a built-in one, look for a word
  boundary, match an empty text or are refused, and both rows can be used at once;
  `MaxSuggesting` keeps one row at a time on samples, for the rows do not see each
  other's. The namespace keeps one value, for no property reads it. Two codes are
  a tab and another one, two heights a panel that changes its size; `MaxPending` 2
  has two copies overlap. The proofs remove the bounds on the guide's side.

The TLS and pipe configurations say `CHECK_DEADLOCK FALSE` because those systems
really stop: when the bounds on bundles and faults are used up, and when every
container has written its log or waits for a sidecar that is not started again.
`Masking` ends after its line. The others are checked for deadlock.

### Fairness

`TLSRotation`: a process makes its next request, the kubelet starts one that
ended, and the 6-hour ticker fires again (`WatchAndRotate`'s loop). Nothing
forces time to pass or a fault to occur. `LogPipe`: containers and sidecar run,
and the kubelet restarts as the policy says; no fairness on `Crash`, nor on `End`,
since a container need not end. One weak
fairness per process is enough because each process is sequential and is
disabled only while it waits. `Injection`: the API server answers and the kubelet
goes on with a pod; users do nothing they need not do. `Site`: promises settle,
frames are drawn, effects run and timeouts fire while the page is there; users
need not click. `Admission` and `Masking` have no liveness property: a request
ends by the API server's timeout whatever the handler does.

### Conditions in the properties

Some properties hold only under a condition, which says what the code does not do:

- `BootAgreement` is about the time before the first rotation (`aged = 0`), and
  `SomeReplicaReachable` promises one replica, not all: see `tls_shared`.
- `BootEndsOnlyByFault` excepts a Secret that exists without a certificate
  (`EmptySecret`): `tls.go:58` treats it as missing, Create answers AlreadyExists,
  and the empty bundle that is then read back cannot be loaded, at every restart.
- `LoneReplicaHeals` excepts a replica whose last boot failed to patch the
  `caBundle`: `main` logs that and never tries again.
- `RulesOfOneMoment` takes of the entries of one name the first, as Merge does:
  a second policy's, or an annotation's, different pattern of that name is dropped
  without an error, while `documentation.md:70` says they "stack together".
- `OutputToSidecar` excepts command lines with a word that has `;`, `&` or `|`, or
  begins with `#` (`inject.go:150` leaves these bare): of `a;b` the redirection
  belongs to the last command, and `#fff` makes a comment of everything behind it,
  `>/masker-pipe/app.pipe` included. The container then logs to its own stdout,
  unmasked, and nothing reports it.
- `RunsAsWritten` excepts these, empty words, which vanish, and words with `*`, `?`,
  `[`, `<`, `>`, `(` or `)` or a `~` in front, which stay bare as well: the shell puts
  file names in their place, takes them for a redirection, or refuses the line.
  A first word that is an assignment (`a=b`) or a word of the shell's own grammar
  (`if`) is not taken as it stands either; it is no plain word in the sense of
  `Kind`.
- `PodStarts` is about pods that were not copied from a running one: such a copy
  gets a second volume and sidecar of the same names, and the API server rejects
  it. It excepts a pod that lost its sandbox and kept its FIFO, where `mkfifo`
  fails for good.
- `NoRawSecret` holds in masking mode without crashes, with lines that fit the
  scanner's buffer and one atomic write; in drop-all mode always. A killed sidecar
  takes what it had read ahead with it, and its successor, which sees the rest of
  the line only, does not recognise a value cut in two, while `documentation.md:331`
  says that on a sidecar error "logcloak never passes the raw line through".
- `LoneWriterDelivers` excepts a container that ends before its log is written and is
  started again (`Always`, or its own failure under `OnFailure`). It may open the
  FIFO when the sidecar has seen the end of file (`main.go:62`) but has not closed its
  end: what it writes until then is never read, and the next write is `SIGPIPE`.
- `AppsFinish` holds under `Always`, and under `OnFailure` for a single masked
  container that does not end by itself. Otherwise a sidecar that ended is not
  restarted, and the containers that still write die of `SIGPIPE` or block in `open`.
  Under `OnFailure` one container is enough for that: it fails, the sidecar reads the
  end of file and returns 0, and the container that is started in its place waits in
  the `open` of `inject.go:131` for a reader that does not come. TLC gives such a
  behaviour when the exception is taken out.
- `NoMatchSurvives` asks of a rule that its expression has no token for its own
  replacement and those of the rules behind it, and that none of these meets a word
  boundary of it. Without the latter it is false of built-in patterns:
  `otp-6digit` finds nothing in `foo@bar.com123456`, `email` then makes it
  `[REDACTED]123456`, and there it would match.
- `AnnotationsOnlyHide` excepts annotations whose field rules change what the
  policies' regular expressions run on. That is the format of the line, see
  `masking_unmask`, and also the value of another member: an expression that
  reaches from one member into the next finds no match once an annotation has
  masked the second, and the first stays. The condition once named the format
  only; the attempt to prove it failed there and TLC then gave the line.
- `AuditFindsExposure` is about policies that give no name twice (audit counts a
  built-in pattern as covered even when Merge drops its entry), lines in which
  no two built-in patterns could take up one symbol, and what is left of the
  built-in patterns without word boundaries. For the five with `\b` it is false: of
  `foo@bar.com123456` and a policy with `email` only, audit reports no gap for
  `otp-6digit`, which the printed `[REDACTED]123456` matches.
- `PreviewAgreesWithSidecar` is about patterns that reach the sidecar as they are
  (`TakenAsIs`): distinct names, accepted by RE2 and not only by the browser,
  matching no empty text, and the same in the tool and in the library, and about one
  of the orders annotations may come in. `phone-us` is not the same: of
  `call +12025550104` the preview shows the number as redacted (its pattern,
  `PatternTool.tsx:13`, has no `\b`), and the sidecar prints it (`patterns.go:13`).

## Findings

- `tls_shared` (`tls.go:170`): replicas that rotate generate a bundle each. The
  last one to patch wins, and the others serve a certificate nobody trusts until
  their own nears expiry, although "all replicas share one cert".
- `masking_unmask` (`json.go:32`): an annotation's field rule has the line
  formatted anew, and a policy's expression that relied on the format stops
  matching.
- `pipe_oversize` (`cmd/sidecar/main.go:85`): a line over the limit ends the
  sidecar and the rest of it is printed by the next one; the documentation says
  it is dropped.
- `injection_entrypoint` (`inject.go:139`): a container without command and args
  executes `sh` in place of its image's program.
- `site_yaml` (`PatternTool.tsx:137`): expressions with a backslash are exported in
  double quotes, where YAML takes the backslash for an escape.

## Proofs

`tlapm X_proofs.tla` checks everything in a proof module; nothing is left without
a proof.

**TLSRotation**, for every set of replicas and every bound, from
`ReplicaAssumption` (there is a replica) and `BoundAssumption` (the bounds are
numbers):

- `TypeCorrect`: `Spec => []TypeOK`.
- `BootAgreementHolds`, `SomeReplicaReachableHolds`, `BootEndsOnlyByFaultHolds`.
- `ImplementsDistribution`: `Spec => DistributionSpec`, step by step.

None of the properties is inductive alone. The invariant is the conjunction of
`TypeOK`; `Holding`, what a process has in memory at each point of its code (a
pending bundle is younger than the served one, a process that has not booted has
announced nothing); `Durable`, that whatever is trusted or served was in the
Secret first; `BeforeRotation`, that nobody rotates while nothing is near expiry,
so the Secret is written once; and `Anchored`, that some replica accounts for
the `caBundle`. `Anchored` is the argument for `SomeReplicaReachable`: each patch
of the `caBundle` makes its author the one who accounts for it, and only a lost
answer makes an author forget. `BootEndsOnlyByFault` needs `LostToSomebody`: who
rereads the Secret lost a race for it, so it exists.

**Admission**, for every set of policies, pods, built-in names and expressions,
from `AdmissionAssumption` and `ListAssumption` (what the fields of policies and
annotations are): `RulesOfOneMomentHolds`, `AnnotationsExtendHolds`,
`NoneUnmaskedByErrorHolds`, `SidecarCanMaskHolds`, `OneRulePerNameHolds` (the
encoded rules never repeat a name, so the sidecar's reports are unambiguous) and
`TypeCorrect`. The invariant is `RulesUsable` (each rule so far has a pattern that
compiles or a field), `EnvReadable` (the same of what was encoded),
`OneRulePerName` and `OutcomeExplained`. The argument for the first two theorems is
`MergeInv`: while `Merge` runs there is a number n such that the rules so far are,
in order, the compiled first occurrences of a name among the first n entries, and
what is left to merge are the others. What was encoded is the case of n as the
number of all entries, and decoding gives it back. `AnnotationsExtend` is
then a fact about first occurrences: those of a prefix, the policies' entries, are
a prefix.

**Injection**, for every set of manifests, images and kinds of words, any list of
proxies and any number of lost sandboxes, from `ManifestAssumption` (what the
fields of a manifest are, and that no user takes the webhook's names):
`OutputToSidecarHolds`, `RunsAsWrittenHolds`, `InitsFirstHolds` and `TypeCorrect`.
The invariant says that a pod is shaped like a manifest or a patched one
(`Shaped`), that an accepted pod is the patch of its manifest (`RightPod`: a pod
patched twice has a name twice, so `Valid` refuses it), that only a pod of a
running one is submitted again (`Untouched`), and that the init containers have
run in the pod's order, the FIFO being there once `logcloak-init` has
(`RightOrder`). For `RunsAsWritten`, `WrappedArgv` shows that the shell reads from
the script of `wrapEntrypoint` the words that went in, one by one.

**Masking** and **Audit**, for every line and all rules, from `LineAssumption`,
`RuleAssumption` (what the fields of lines and rules are; expressions may match the
empty text) and `AuditAssumption` (the same of the rules that `audit` makes; the
library is finite, and none of its patterns matches the empty text):

- `UnmatchedUntouchedHolds`, `NamedFieldsGoneHolds`, `AnnotationsOnlyHideHolds`.
- `NoMatchSurvivesHolds`. That no class of the rule's expression contains a
  replacement is a condition of the property itself: `redactWith` may be any text.
- `AuditFindsExposureHolds`, from the further hypothesis `LibraryForeign`: no class of
  a built-in pattern contains `[REDACTED]` or a replacement of `audit`.

Texts are typed by the cells they may show, `Texts(I)`: what `MaskLine` leaves of a
line is then a matter of types, one rule after the other (`ReplaceTyped`,
`MaskMembersTyped`, `MaskLineTyped`), and `NamedFieldsGone` is the type of what the
field rules leave. `NoMatchSurvives` rests on `Survive`: two cells of the line that
are neighbours after a rule ran, neither of them its replacement, were neighbours
before, so a match in what is left is a match in what was there (`MatchOld`), and
`RunQuiets` takes that through all rules. `AnnotationsOnlyHide` has three cases:
more field rules leave less of an object and no expression of the policies runs
(`MoreRulesLeaveLess`), or the annotations' field rules name no key and change
nothing (`IdleFieldRules`), and then their expressions run behind the policies' on
the same text (`RunOn`).

`AuditFindsExposure` has two halves. What a policy leaves of a built-in pattern
without word boundaries was in the line before, and the pattern is not one of the
policy's (`StaysExposed`). And the scan with all patterns reports each pattern that
the line contains (`GroundTruthFinds`), although others have been replaced before
its turn: `Traced` keeps track of where in the line each cell of the text comes
from. A match that comes up in between, also one whose word boundaries a replacement
has made, lies in what the same pattern could take up in the line if it looked for
no boundaries (`InMatchTraced`, `Spans`). So it has no cell in common with a match
of another pattern that is still to come, and that one is still there in one piece
(`TracedStep`, `TracedMatch`). This is where the condition that two patterns take up
no symbol in common (`Disjoint`) is used.

**LogPipe**, for every set of containers, any scripts, sizes of the scanner's
buffer, of atomic writes and of the FIFO, and any number of crashes, from
`SizeAssumption` and `ScriptAssumption` (a line has a newline, and nothing sensitive
is behind its last symbol):
`TypeCorrect`, `InOrderHolds`, `NoRawSecretHolds` and `ImplementsLog`: `Spec =>
LogSpec`, step by step. `InOrder` follows from
`OrderInv`: output, buffer and FIFO, one behind the other, have each container's
cells in the order of its log (`Ordered`), and no cell is anywhere that its
container has not written yet (`AllLogged`); each write adds cells that are beyond
those, and a read moves the border between buffer and FIFO. `NoRawSecret` follows
from `SecretInv`: in drop-all mode nothing but sentinels has been printed; in
masking mode, as long as nobody killed the sidecar and every line fits, no
container is in the middle of a line and buffer and FIFO together are whole lines
(`Whole`), so that a token ends where its line ends and the value in it is
recognised (`MaskedToken`). A process that ends early takes all it had with it,
which keeps what is left whole (`SteadyLoss`).

Kills tear lines, so `ImplementsLog` has an invariant that survives them:
`LinesInv`, for a pod whose lines are `Atomic`, says that buffer and FIFO together are `Chained`, each cell but a newline
followed by the next cell of its line and each newline by the first of a line.
Whatever is cut off in front, the rest is chained (`ChainedRest`), and a write adds a
whole line (`ChainedJoined`). So the scanner finds the newline of whatever it has
begun to read before its buffer is full and before the file ends
(`NewlineInSight`): `TooLong` cannot happen, and `EndOfFile` prints nothing. A token
is one line from some cell on (`EmittedToken`), its masked form the entry of the log
(`EntryPrinted`), and with `OrderInv` it is the first that its container has due
(`EmitTakesLine`). Each action is then an action of the log or a stutter
(`LogStep`).

**Site**, for any number of codes and questions, any heights, any number of
copies that overlap and of rows, from `GuideAssumption` and `ToolAssumption`:
`EveryCodeHasPanelHolds`, `BarFollowsPanelHolds`, `HeightFitsHolds`,
`CheckHasTimerHolds`, `AnswerMatchesTriggerHolds`, `RowsDistinctHolds`,
`SuggestionFitsHolds`, `PreviewKeepsTextHolds`, `TypeCorrect` and, from the further
hypothesis `RedactedStrange`, `PreviewAgreesWithSidecarHolds`. `ToolAssumption`
says what the lists of the tool contain, and that the symbols `suggestRegex` escapes
are neither letters nor digits. The heart is `HeightInv`: unless the observer is due to be called,
the last height that is set, or that the next frame will set, is that of the panel
it observes, and `EffectsInv`: unless effects are due, that is the panel shown.
`RowsDistinct` follows from `RowsInv`: rows stand in the order of their numbers, all
of them below the next one. `SuggestionFits` rests on `TightMatch`: where each token
takes all it can and what is left still fits, that is the match. In a generalised
sample the tokens begin where the runs of letters and digits do, and at each other
symbol (`FlattenPicked`, `GeneralisedFits`), and none reaches beyond the next
because what is escaped is in no run. For `PreviewKeepsText`, the text of segments
put together is their texts put together (`TextOfParts`), so it is enough that one
search splits its segment and nothing else (`SplitKeeps`): each round takes over
what is before a match and the match, and goes on behind it, or takes the rest.

`PreviewAgreesWithSidecar` relates two programs that cut a text differently: the
browser masks inside the segments that no pattern has masked, with its leftmost
search from the end of the last match (`Split`), the sidecar replaces in the whole
line, cell by cell (`ReplaceMatches`), and the next rule runs on what comes out.
The invariant that links them is about `Render`, the text of the segments with the
replacement in place of each masked one:

- `SplitRender`: of a text of its own both make the same. The two tables of rests
  agree from the end on, since what the browser skips before a match the sidecar
  copies (`FoundFirst`, `RestOf`, `SplitEntry`).
- `ReplacedApart`, `ReplacedBehindMark`: in front of a replacement, and behind it, the
  sidecar masks a text as if it stood alone, because a match neither contains the
  replacement nor depends on what is beyond it (`MatchBefore`, `MatchBehind`); for a
  word boundary the replacement is like the end of the text, as it begins and ends
  with a bracket (`SameEdges`).
- `Sep`: two segments that are not masked never stand next to each other, or the
  sidecar could match across their border where the browser cannot. A pattern's turn
  keeps that (`TurnRender`), and so `Render` of the segments is the sidecar's text
  after every rule (`PreviewRender`), and both show the same of the line
  (`ShownIsRaw`).
- `InPatternOrder`: the order of the patterns is one that annotations may come in.

Without `RedactedStrange` (no class of an expression contains the replacement, and it
is no word symbol) the property is not to be had: a rule of the sidecar may then match an earlier rule's
replacement together with the text around it, which the preview never does. TLC
checks of `site`'s expressions that none does (`RedactedUnmatched`).

**How inductions are done.** The provers cannot instantiate an induction principle
that takes an operator, so `InductionLemmas` states induction for a *set* of
numbers (`Climb`, `FromTheEnd`, by the least number outside the
set), and recursion for a *function* as its body (`Recursion`): a body that uses a
function only below the rank of its argument has a solution, and one only. The
folds behind `Kept`, `FlattenSeq` and `SelectInSeq`, the tables of `MatchEnd` and
`ReplaceMatches`, and the runs of `MaskLine` are instances. The provers do not
know either that a quoted word is a string; where a symbol is written out in a
definition, its set is `Symbols`.

Model-checked only is all liveness (`RotationCompletes`, `LoneReplicaHeals`,
`LoneWriterDelivers`, `AppsFinish`, `PodStarts`, `GuideSettles`): the prover does not
reason under fairness. Every safety invariant and action property that a passing run
checks is a theorem.

## Not modelled

- Deletion of the Secret by a user, expiry itself (only "near expiry"), and the
  contents of certificates.
- JSON patch details. The patch for the `caBundle`, and those for `command`, `args`
  and `volumeMounts`, are a `replace` of a field that may be missing; the models
  take it that the API server accepts it. Ephemeral containers, resources and
  security contexts.
- Containers that ignore `SIGPIPE`, or that write their own files.
- Regular expressions beyond sequences of classes with repetitions and word
  boundaries: alternatives, groups, anchors, and expressions that match a part of the
  text of an earlier replacement. Replacements are taken to begin and end with
  symbols of one sort (see Masking).
- JSON key order, repeated keys and the conversion of large numbers; the layout of
  nested objects.
- Malformed admission requests, which the API server does not send.
- Metrics, the policy controller, the pattern library and the chart: they keep no
  state that anything in the program reads back. `scan`, `validate` and `preview`
  of the command line, single calls for each line of a file.
- Of the website: `use-auto-height`, `auto-height` and `slot`, which no page uses;
  uncontrolled `Tabs`, the Highlight's parent mode, hover and click; exit
  animations (`AnimatePresence`), and styles. The accordion's content is handed to
  Radix in a `render` property, and the models take it that Radix renders it. When
  the highlighter fails, a code is put on the page as HTML although it is plain
  text (`code-tabs.tsx:73,140`), so `<your-regex>` is not legible. The copy buttons
  on the tool page are the same component as on the guide and do not touch the form.
- Two things the documentation mentions and the code does not have: a time limit
  per line, and a cache of rules (`ruleCacheTTL`).

## Plan

In order of importance; each step adds to what is there.

1. The composition of `Injection` with `Admission`, whose `Inject` then yields a pod.
2. The names a masked line reports, and which of two rules for one field counts.
3. The abstract counterpart of `Admission`: a pod is denied, skipped or given the
   rules of one moment.
