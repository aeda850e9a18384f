--------------------------- MODULE Injection_proofs ---------------------------
(***************************************************************************)
(* Proofs about Injection: a container that is not excluded never writes   *)
(* anywhere but to the FIFO, and never before the pod's own init           *)
(* containers and mkfifo have run.                                         *)
(***************************************************************************)
EXTENDS Injection, InductionLemmas

Text == STRING

Manifests == [skip : BOOLEAN, exclude : SUBSET Text, containers : Seq(OwnContainer),
              volumes : Seq(Text), inits : Seq(Text), defaultContainer : Text]

LEMMA InitNameText == initName \in Text
  BY ManifestAssumption DEF Text

\* The pod the API server has, in each phase: it was patched once where it was
\* accepted, since a pod that is patched twice has two sidecars.
RightPod ==
    /\ phase = "request" => pod \in {manifest, BuildPatch(manifest)}
    /\ phase = "patched" => pod \in {BuildPatch(manifest), BuildPatch(BuildPatch(manifest))}
    /\ phase = "accepted" => pod = BuildPatch(manifest)

\* The kubelet runs the init containers in their order and mkfifo is one of them,
\* and starts a container only behind the last of them.
RightOrder ==
    phase = "accepted" =>
        /\ Len(done) <= Len(pod.inits)
        /\ \A k \in 1..Len(done) : done[k] = pod.inits[k]
        /\ \A k \in 1..Len(done) : done[k] = initName => fifo
        /\ \A i \in DOMAIN run : run[i] # Waiting =>
              InitsDone /\ run[i] = Process(pod.containers[i], fifo)

\* The kubelet does nothing before the API server has accepted the pod.
Untouched ==
    phase \in {"request", "patched"} =>
        done = <<>> /\ \A i \in DOMAIN run : run[i] = Waiting

Shaped ==
    /\ manifest \in Manifest
    /\ DOMAIN run = DOMAIN pod.containers
    /\ done \in Seq(Text)
    /\ fifo \in BOOLEAN

IInv == Shaped /\ RightPod /\ Untouched /\ RightOrder

LEMMA FreshTyped == Fresh => done' \in Seq(Text) /\ fifo' \in BOOLEAN
<1>1. Fresh => done' \in Seq(Text)
  BY DEF Fresh
<1>2. Fresh => fifo' \in BOOLEAN
  BY DEF Fresh
<1>3. QED
  BY <1>1, <1>2

-----------------------------------------------------------------------------
(* BuildPatch.                                                             *)

LEMMA ManifestTyped == ASSUME NEW m \in Manifest PROVE m \in Manifests
  BY ManifestAssumption DEF Manifests, Text

\* A pod that is skipped stays as it is.
LEMMA SkippedStays == ASSUME NEW p, p.skip PROVE BuildPatch(p) = p
  BY DEF BuildPatch, Patched

\* What a patched pod holds: one container and one init container more.
LEMMA PatchedPod ==
  ASSUME NEW m \in Manifests, ~m.skip
  PROVE  LET p == BuildPatch(m)
             n == Len(m.containers)
         IN  /\ p.skip = m.skip /\ p.exclude = m.exclude
             /\ p.inits = Append(m.inits, initName)
             /\ Len(p.containers) = n + 1 /\ DOMAIN p.containers = 1..(n + 1)
             /\ p.containers[n + 1] = sidecarContainer
             /\ \A i \in 1..n :
                   p.containers[i] = IF i \in Unexcluded(m)
                                     THEN WithPipe(wrapEntrypoint(m.containers[i]))
                                     ELSE m.containers[i]
<1> DEFINE wrapped == [i \in DOMAIN m.containers |->
                          IF i \in Unexcluded(m) THEN WithPipe(wrapEntrypoint(m.containers[i]))
                                                 ELSE m.containers[i]]
           n       == Len(m.containers)
<1>1. n \in Nat /\ DOMAIN m.containers = 1..n
  BY DEF Manifests
<1>2. /\ DOMAIN wrapped = 1..n
      /\ wrapped \in Seq({wrapped[i] : i \in 1..n}) /\ Len(wrapped) = n
  BY <1>1
<1>3. BuildPatch(m).containers = Append(wrapped, sidecarContainer)
  BY DEF BuildPatch, Patched, Manifests
<1>4. /\ BuildPatch(m).inits = Append(m.inits, initName)
      /\ BuildPatch(m).skip = m.skip /\ BuildPatch(m).exclude = m.exclude
  BY DEF BuildPatch, Patched, Manifests
<1> HIDE DEF wrapped
<1>5. /\ Len(Append(wrapped, sidecarContainer)) = n + 1
      /\ DOMAIN Append(wrapped, sidecarContainer) = 1..(n + 1)
      /\ Append(wrapped, sidecarContainer)[n + 1] = sidecarContainer
      /\ \A i \in 1..n : Append(wrapped, sidecarContainer)[i] = wrapped[i]
  BY <1>1, <1>2
<1>6. QED
  BY <1>1, <1>3, <1>4, <1>5 DEF wrapped

\* A patched pod is typed like a manifest, except for its containers: it can be
\* patched again, but then it has two containers of one name.
LEMMA PatchedTwice ==
  ASSUME NEW m \in Manifests, ~m.skip
  PROVE  ~Valid(BuildPatch(BuildPatch(m)))
<1> DEFINE p == BuildPatch(m)
           q == BuildPatch(p)
           n == Len(m.containers)
           wrapped == [i \in DOMAIN p.containers |->
                          IF i \in Unexcluded(p) THEN WithPipe(wrapEntrypoint(p.containers[i]))
                                                 ELSE p.containers[i]]
<1>1. /\ n \in Nat /\ ~p.skip
      /\ DOMAIN p.containers = 1..(n + 1)
      /\ p.containers[n + 1] = sidecarContainer
  BY PatchedPod DEF Manifests
<1>2. q.containers = Append(wrapped, sidecarContainer)
  <2>1. p = [m EXCEPT !.defaultContainer = sidecarName,
                      !.volumes = Append(m.volumes, pipeVolume),
                      !.inits = Append(m.inits, initName),
                      !.containers = p.containers]
    BY DEF BuildPatch, Patched, Manifests
  <2>2. "containers" \in DOMAIN p
    BY <2>1 DEF Manifests
  <2> HIDE DEF p
  <2>3. QED
    BY <1>1, <2>2 DEF BuildPatch, Patched
<1>3. n + 1 \notin Unexcluded(p)
  BY <1>1 DEF Unexcluded, isExcluded, sidecarContainer
<1> HIDE DEF p, q
<1>4. /\ DOMAIN wrapped = 1..(n + 1) /\ Len(wrapped) = n + 1
      /\ wrapped \in Seq({wrapped[i] : i \in 1..(n + 1)})
      /\ wrapped[n + 1] = sidecarContainer
  BY <1>1, <1>3
<1> HIDE DEF wrapped
<1>5. /\ DOMAIN q.containers = 1..(n + 2)
      /\ q.containers[n + 1].name = q.containers[n + 2].name
  BY <1>1, <1>2, <1>4 DEF sidecarContainer
<1>6. QED
  BY <1>1, <1>5 DEF Valid, q, p

\* The redirection is at the end of the whole command line when none of its words
\* separates commands or begins a comment.
LEMMA WrappedProcess ==
  ASSUME NEW m \in Manifests, NEW i \in DOMAIN m.containers, NEW piped \in BOOLEAN,
         ~HasWord(m.containers[i], {"separator", "comment"})
  PROVE  Process(WithPipe(wrapEntrypoint(m.containers[i])), piped).to
            \in {"failed", IF piped THEN "fifo" ELSE "file"}
<1> DEFINE c == m.containers[i]
           w == WithPipe(wrapEntrypoint(c))
<1>1. c \in OwnContainer
  BY DEF Manifests
<1> HIDE DEF c
<1>2. w.script = buildOriginalCmd(c) /\ w.image = c.image
  BY <1>1 DEF WithPipe, wrapEntrypoint, OwnContainer
<1>3. /\ buildOriginalCmd(c) # <<>>
      /\ \A k \in DOMAIN buildOriginalCmd(c) :
            ~(/\ ~buildOriginalCmd(c)[k].quoted
              /\ Kind[buildOriginalCmd(c)[k].word] \in {"separator", "comment"})
  <2>1. CASE c.command = <<>> /\ c.args = <<>>
    BY <2>1 DEF buildOriginalCmd, Fallback
  <2>2. CASE ~(c.command = <<>> /\ c.args = <<>>)
    <3> DEFINE ws == c.command \o c.args
    <3>1. /\ ws \in Seq(STRING) /\ DOMAIN ws = 1..(Len(c.command) + Len(c.args))
          /\ 1 \in 1..(Len(c.command) + Len(c.args))
      BY <1>1, <2>2 DEF OwnContainer
    <3>2. ASSUME NEW k \in DOMAIN ws
          PROVE  ws[k] \in ToSet(c.command) \cup ToSet(c.args)
      BY <1>1, <3>1 DEF OwnContainer, ToSet
    <3>3. \A k \in DOMAIN ws : Kind[ws[k]] \notin {"separator", "comment"}
      BY <3>2 DEF HasWord, c
    <3>4. buildOriginalCmd(c) = [k \in DOMAIN ws |-> shellQuote(ws[k])]
      BY <2>2 DEF buildOriginalCmd
    <3> HIDE DEF ws
    <3> DEFINE b == [k \in DOMAIN ws |-> shellQuote(ws[k])]
    <3>5. DOMAIN b = DOMAIN ws /\ \A k \in DOMAIN ws : b[k].word = ws[k]
      BY DEF shellQuote
    <3> HIDE DEF b
    <3>6. 1 \in DOMAIN b
      BY <3>1, <3>5, Zenon
    <3>7. \A k \in DOMAIN b : Kind[b[k].word] \notin {"separator", "comment"}
      BY <3>3, <3>5
    <3>8. b # <<>> /\ \A k \in DOMAIN b : ~(~b[k].quoted /\ Kind[b[k].word] \in {"separator", "comment"})
      BY <3>6, <3>7
    <3>9. buildOriginalCmd(c) = b
      BY <3>4 DEF b
    <3>10. QED
      BY <3>8, <3>9
  <2>3. QED
    BY <2>1, <2>2
<1> HIDE DEF w
<1>4. Bare(w.script, "separator") = {} /\ Bare(w.script, "comment") = {}
  BY <1>2, <1>3 DEF Bare
<1>5. Process(w, piped).to \in {"failed", IF piped THEN "fifo" ELSE "file"}
  BY <1>2, <1>3, <1>4 DEF Process, Shell, Failed
<1>6. QED
  BY <1>5 DEF w, c

\* What buildOriginalCmd writes, the shell reads word by word as it was: a word
\* with a blank is quoted, and none that vanishes or ends the command is there.
LEMMA WrappedArgv ==
  ASSUME NEW m \in Manifests, NEW i \in DOMAIN m.containers, NEW piped \in BOOLEAN,
         m.containers[i].command # <<>>, Image[m.containers[i].image].shell,
         ~HasWord(m.containers[i], Misread)
  PROVE  Process(WithPipe(wrapEntrypoint(m.containers[i])), piped).argv = Argv(m.containers[i])
<1> DEFINE c  == m.containers[i]
           w  == WithPipe(wrapEntrypoint(c))
           ws == c.command \o c.args
           b  == [k \in DOMAIN ws |-> shellQuote(ws[k])]
<1>1. c \in OwnContainer
  BY DEF Manifests
<1>2. c.command # <<>> /\ Image[c.image].shell
  OBVIOUS
<1>3. \A v \in ToSet(c.command) \cup ToSet(c.args) : Kind[v] \notin Misread
  BY DEF HasWord
<1> HIDE DEF c
<1>4. w.script = buildOriginalCmd(c) /\ w.image = c.image
  BY <1>1 DEF WithPipe, wrapEntrypoint, OwnContainer
<1> HIDE DEF w
<1>5. buildOriginalCmd(c) = b
  BY <1>2 DEF buildOriginalCmd
<1>6. /\ ws \in Seq(STRING) /\ DOMAIN ws = 1..Len(ws) /\ 1 \in 1..Len(ws)
      /\ \A k \in DOMAIN ws : ws[k] \in ToSet(c.command) \cup ToSet(c.args)
  BY <1>1, <1>2 DEF OwnContainer, ToSet
<1>7. \A k \in DOMAIN ws : Kind[ws[k]] \notin Misread
  BY <1>3, <1>6
<1>8. Argv(c) = ws
  BY <1>2 DEF Argv
<1> HIDE DEF ws
<1>9. /\ DOMAIN b = 1..Len(ws)
      /\ \A k \in 1..Len(ws) : b[k] = [word |-> ws[k], quoted |-> Kind[ws[k]] = "blank"]
  BY <1>6 DEF shellQuote
<1>10. b \in Seq({b[k] : k \in 1..Len(ws)}) /\ Len(b) = Len(ws) /\ b # <<>>
  <2>1. Len(ws) \in Nat
    BY <1>6
  <2>2. b \in [1..Len(ws) -> {b[k] : k \in 1..Len(ws)}]
    BY <1>6
  <2> HIDE DEF b
  <2>3. b \in Seq({b[k] : k \in 1..Len(ws)}) /\ Len(b) = Len(ws)
    BY <2>1, <2>2
  <2>4. QED
    BY <1>6, <2>1, <2>3
<1> HIDE DEF b
<1>11. Bare(b, "separator") = {} /\ Bare(b, "comment") = {} /\ Bare(b, "broken") = {}
  <2>1. \A k \in DOMAIN b : Kind[b[k].word] \notin Misread
    BY <1>6, <1>7, <1>9
  <2>2. QED
    BY <2>1 DEF Bare, Misread
<1>12. \A k \in 1..Len(b) : Words(b[k]) = <<ws[k]>>
  <2> SUFFICES ASSUME NEW k \in 1..Len(b) PROVE Words(b[k]) = <<ws[k]>>
    OBVIOUS
  <2>1. /\ b[k].word = ws[k] /\ b[k].quoted = (Kind[ws[k]] = "blank")
        /\ Kind[ws[k]] \notin Misread
    BY <1>6, <1>7, <1>9, <1>10
  <2>2. QED
    BY <2>1 DEF Words, Misread
<1>13. Shell(b, piped).argv = FlattenSeq([k \in 1..Len(b) |-> Words(b[k])])
  BY <1>11 DEF Shell
<1>14. [k \in 1..Len(b) |-> Words(b[k])] = [k \in 1..Len(ws) |-> <<ws[k]>>]
  BY <1>10, <1>12
<1>15. FlattenSeq([k \in 1..Len(ws) |-> <<ws[k]>>]) = ws
  BY <1>6, FlattenSingles
<1>16. Shell(b, piped).argv = ws
  BY <1>13, <1>14, <1>15
<1>17. Process(w, piped) = Shell(b, piped)
  BY <1>2, <1>4, <1>5, <1>10 DEF Process
<1>18. QED
  BY <1>8, <1>16, <1>17 DEF w, c

\* A container that the user wrote is not wrapped.
LEMMA OwnArgv ==
  ASSUME NEW c \in OwnContainer, NEW piped
  PROVE  Process(c, piped).argv = Argv(c)
  BY DEF Process, OwnContainer

LEMMA PatchedInits ==
  ASSUME NEW m \in Manifests
  PROVE  BuildPatch(m).inits \in Seq(Text)
<1>1. CASE m.skip
  BY <1>1, SkippedStays DEF Manifests
<1>2. CASE ~m.skip
  <2>1. BuildPatch(m).inits = Append(m.inits, initName)
    BY <1>2, PatchedPod
  <2>2. m.inits \in Seq(Text)
    BY DEF Manifests
  <2>3. QED
    BY <2>1, <2>2, InitNameText
<1>3. QED
  BY <1>1, <1>2

-----------------------------------------------------------------------------
LEMMA InitInv == Init => IInv
<1>1. SUFFICES ASSUME Init
               PROVE  IInv
  OBVIOUS
<1>2. Shaped
  <2>1. DOMAIN run = DOMAIN pod.containers
    BY <1>1 DEF Init, NotStarted
  <2>2. done \in Seq(Text)
    BY <1>1 DEF Init
  <2>3. QED
    BY <1>1, <2>1, <2>2 DEF Init, Shaped
<1>3. RightPod /\ Untouched /\ RightOrder
  BY <1>1 DEF Init, NotStarted, RightPod, Untouched, RightOrder
<1>4. QED
  BY <1>2, <1>3 DEF IInv

LEMMA StepInv == IInv /\ [Next]_vars => IInv'
<1>1. SUFFICES ASSUME IInv, [Next]_vars
               PROVE  IInv'
  OBVIOUS
<1> USE <1>1 DEF IInv
<1>2. CASE Submit
  <2>1. Shaped'
    <3>1. manifest' \in Manifest /\ DOMAIN run' = DOMAIN pod'.containers
      BY <1>2 DEF Submit
    <3>2. done' \in Seq(Text) /\ fifo' \in BOOLEAN
      BY <1>2, FreshTyped DEF Submit
    <3>3. QED
      BY <3>1, <3>2 DEF Shaped
  <2>2. RightPod' /\ Untouched' /\ RightOrder'
    BY <1>2 DEF Submit, Fresh, RightPod, Untouched, RightOrder
  <2>3. QED
    BY <2>1, <2>2
<1>3. CASE Resubmit
  <2>1. Shaped'
    <3>1. manifest' \in Manifest /\ DOMAIN run' = DOMAIN pod'.containers
      BY <1>3 DEF Resubmit, NotStarted, Shaped
    <3>2. done' \in Seq(Text) /\ fifo' \in BOOLEAN
      BY <1>3, FreshTyped DEF Resubmit
    <3>3. QED
      BY <3>1, <3>2 DEF Shaped
  <2>2. RightPod' /\ Untouched' /\ RightOrder'
    BY <1>3 DEF Resubmit, Running, Fresh, NotStarted, RightPod, Untouched, RightOrder
  <2>3. QED
    BY <2>1, <2>2
<1>4. CASE Review
  BY <1>4 DEF Review, Shaped, RightPod, Untouched, RightOrder
<1>5. CASE Validate
  <2>1. manifest \in Manifests
    BY ManifestTyped DEF Shaped
  <2>2. phase' = "accepted" => pod = BuildPatch(manifest)
    <3>1. CASE manifest.skip
      BY <1>5, <3>1, SkippedStays DEF Validate, RightPod
    <3>2. CASE ~manifest.skip
      BY <1>5, <2>1, <3>2, PatchedTwice DEF Validate, RightPod
    <3>3. QED
      BY <3>1, <3>2
  <2>3. Shaped' /\ Untouched'
    BY <1>5 DEF Validate, Shaped, Untouched
  <2>4. RightPod'
    BY <1>5, <2>2 DEF Validate, RightPod
  <2>5. RightOrder'
    BY <1>5, <2>1, <2>2, PatchedInits DEF Validate, Untouched, RightOrder
  <2>6. QED
    BY <2>3, <2>4, <2>5
<1>6. CASE Delete
  BY <1>6 DEF Delete, Shaped, RightPod, Untouched, RightOrder
<1>7. CASE RunInit
  <2>1. pod.inits \in Seq(Text)
    BY <1>7, ManifestTyped, PatchedInits DEF RunInit, Shaped, RightPod
  <2> DEFINE init == pod.inits[Len(done) + 1]
  <2>2. /\ Len(done) \in Nat /\ Len(done) + 1 <= Len(pod.inits)
        /\ init \in Text
    BY <1>7, <2>1 DEF RunInit, InitsDone, Shaped, RightOrder
  <2>3. /\ done' = Append(done, init) /\ fifo' = (fifo \/ init = initName)
        /\ UNCHANGED <<manifest, pod, phase, run, restarts>>
    BY <1>7 DEF RunInit
  <2> HIDE DEF init
  <2>4. Shaped' /\ RightPod' /\ Untouched'
    BY <1>7, <2>2, <2>3 DEF RunInit, Shaped, RightPod, Untouched
  <2>5. /\ Len(done') = Len(done) + 1
        /\ \A k \in 1..Len(done) : done'[k] = done[k]
        /\ done'[Len(done) + 1] = init
    BY <2>2, <2>3 DEF Shaped
  <2>6. \A k \in 1..Len(done') : done'[k] = pod.inits[k]
    BY <1>7, <2>2, <2>5 DEF RunInit, RightOrder, init
  <2>7. \A k \in 1..Len(done') : done'[k] = initName => fifo'
    <3>1. /\ fifo => fifo'
          /\ init = initName => fifo'
      BY <2>3
    <3>2. \A k \in 1..Len(done) : done[k] = initName => fifo
      BY <1>7 DEF RunInit, RightOrder
    <3>3. ASSUME NEW k \in 1..Len(done'), done'[k] = initName
          PROVE  fifo'
      <4>1. CASE k = Len(done) + 1
        BY <2>5, <3>1, <3>3, <4>1
      <4>2. CASE k \in 1..Len(done)
        BY <2>5, <3>1, <3>2, <3>3, <4>2
      <4>3. QED
        BY <2>2, <2>5, <4>1, <4>2
    <3>4. QED
      BY <3>3
  <2>8. \A i \in DOMAIN run : run[i] = Waiting
    BY <1>7 DEF RunInit, RightOrder
  <2>9. RightOrder'
    BY <2>2, <2>3, <2>5, <2>6, <2>7, <2>8 DEF RightOrder
  <2>10. QED
    BY <2>4, <2>9
<1>8. ASSUME NEW i \in DOMAIN run, Start(i)
      PROVE  IInv'
  <2>1. /\ run' = [run EXCEPT ![i] = Process(pod.containers[i], fifo)]
        /\ UNCHANGED <<manifest, pod, phase, done, fifo>>
        /\ phase = "accepted" /\ InitsDone
    BY <1>8 DEF Start
  <2>2. Shaped' /\ RightPod' /\ Untouched'
    BY <2>1 DEF Shaped, RightPod, Untouched
  <2>3. RightOrder'
    BY <2>1 DEF RightOrder, InitsDone
  <2>4. QED
    BY <2>2, <2>3
<1>9. ASSUME NEW kept \in BOOLEAN, LoseSandbox(kept)
      PROVE  IInv'
  <2>1. pod.inits \in Seq(Text)
    BY <1>9, ManifestTyped, PatchedInits DEF LoseSandbox, Shaped, RightPod
  <2>2. QED
    BY <1>9, <2>1 DEF LoseSandbox, NotStarted, Shaped, RightPod, Untouched, RightOrder
<1>10. CASE UNCHANGED vars
  BY <1>10 DEF vars, Shaped, RightPod, Untouched, RightOrder, InitsDone
<1>11. QED
  BY <1>2, <1>3, <1>4, <1>5, <1>6, <1>7, <1>8, <1>9, <1>10 DEF Next, StartSome

LEMMA Inductive == Spec => []IInv
  BY InitInv, StepInv, PTL DEF Spec

-----------------------------------------------------------------------------
\* In a pod that runs, the own init containers come first and mkfifo last.
LEMMA RunningPod ==
  ASSUME IInv, NEW i \in Started
  PROVE  /\ manifest \in Manifests /\ pod = BuildPatch(manifest)
         /\ run[i] = Process(pod.containers[i], fifo)
         /\ IsPrefix(manifest.inits, done)
         /\ ~manifest.skip => fifo
<1>1. /\ manifest \in Manifests /\ pod = BuildPatch(manifest)
      /\ phase = "accepted" /\ i \in DOMAIN manifest.containers /\ run[i] # Waiting
  BY ManifestTyped DEF IInv, Shaped, RightPod, Started
<1>2. i \in DOMAIN run
  <2>1. CASE manifest.skip
    BY <1>1, <2>1, SkippedStays DEF IInv, Shaped
  <2>2. CASE ~manifest.skip
    <3>1. DOMAIN run = DOMAIN pod.containers
      BY DEF IInv, Shaped
    <3>2. DOMAIN pod.containers = 1..(Len(manifest.containers) + 1)
      BY <1>1, <2>2, PatchedPod
    <3>3. Len(manifest.containers) \in Nat /\ i \in 1..Len(manifest.containers)
      BY <1>1 DEF Manifests
    <3>4. QED
      BY <3>1, <3>2, <3>3
  <2>3. QED
    BY <2>1, <2>2
<1>3. /\ run[i] = Process(pod.containers[i], fifo)
      /\ Len(done) = Len(pod.inits)
      /\ \A k \in 1..Len(done) : done[k] = pod.inits[k]
      /\ \A k \in 1..Len(done) : done[k] = initName => fifo
  BY <1>1, <1>2 DEF IInv, RightOrder, InitsDone
<1>4. CASE manifest.skip
  <2>1. pod.inits = manifest.inits
    BY <1>1, <1>4, SkippedStays
  <2>2. QED
    BY <1>1, <1>3, <1>4, <2>1 DEF Manifests, IsPrefix
<1>5. CASE ~manifest.skip
  <2>1. pod.inits = Append(manifest.inits, initName)
    BY <1>1, <1>5, PatchedPod
  <2>2. /\ Len(pod.inits) = Len(manifest.inits) + 1 /\ Len(manifest.inits) \in Nat
        /\ pod.inits[Len(manifest.inits) + 1] = initName
        /\ \A k \in 1..Len(manifest.inits) : pod.inits[k] = manifest.inits[k]
        /\ DOMAIN manifest.inits = 1..Len(manifest.inits)
    BY <1>1, <2>1, InitNameText DEF Manifests
  <2>3. fifo /\ Len(manifest.inits) <= Len(done)
    BY <1>3, <2>2
  <2>4. QED
    BY <1>1, <1>3, <2>2, <2>3 DEF IsPrefix
<1>6. QED
  BY <1>4, <1>5

(* Whatever the pod looks like and however often it is copied or loses its  *)
(* sandbox, a wrapped container writes to the FIFO of a pod with a sidecar  *)
(* (BuildPatch, wrapEntrypoint).  A container is excepted that has a word   *)
(* in which shellQuote leaves a separator bare, or one that begins with #.  *)
THEOREM OutputToSidecarHolds == Spec => []OutputToSidecar
<1>1. ASSUME IInv, NEW i \in Started \cap Wrappable,
             ~HasWord(manifest.containers[i], {"separator", "comment"})
      PROVE  /\ run[i].to \in {"fifo", "failed"}
             /\ \E k \in DOMAIN pod.containers :
                   pod.containers[k].name = sidecarName /\ pipeVolume \in pod.containers[k].mounts
  <2>1. ~manifest.skip /\ i \in Unexcluded(manifest)
    BY <1>1 DEF Wrappable
  <2>2. /\ manifest \in Manifests /\ pod = BuildPatch(manifest)
        /\ run[i] = Process(pod.containers[i], fifo) /\ fifo = TRUE
    BY <1>1, <2>1, RunningPod DEF IInv, Shaped
  <2>3. i \in DOMAIN manifest.containers /\ i \in 1..Len(manifest.containers)
    BY <2>1, <2>2 DEF Unexcluded, Manifests
  <2>4. pod.containers[i] = WithPipe(wrapEntrypoint(manifest.containers[i]))
    BY <2>1, <2>2, <2>3, PatchedPod
  <2>5. Process(WithPipe(wrapEntrypoint(manifest.containers[i])), TRUE).to
           \in {"failed", IF TRUE THEN "fifo" ELSE "file"}
    BY <1>1, <2>2, <2>3, WrappedProcess
  <2>6. /\ Len(manifest.containers) + 1 \in DOMAIN pod.containers
        /\ pod.containers[Len(manifest.containers) + 1] = sidecarContainer
    BY <2>1, <2>2, PatchedPod DEF Manifests
  <2>7. run[i].to \in {"fifo", "failed"}
    BY <2>2, <2>4, <2>5
  <2>8. sidecarContainer.name = sidecarName /\ pipeVolume \in sidecarContainer.mounts
    BY DEF sidecarContainer
  <2>9. QED
    BY <2>6, <2>7, <2>8
<1>2. IInv => OutputToSidecar
  BY <1>1 DEF OutputToSidecar
<1>3. QED
  BY <1>2, Inductive, PTL

(* No container runs before the pod's own init containers, in their order,  *)
(* and no wrapped one before there is a FIFO (BuildPatch).                  *)
THEOREM InitsFirstHolds == Spec => []InitsFirst
<1>1. IInv => InitsFirst
  BY RunningPod DEF InitsFirst, Wrappable
<1>2. QED
  BY <1>1, Inductive, PTL

(* Wrapped or not, a container runs the command line its user wrote, in the *)
(* words it was written in: what buildOriginalCmd and shellQuote make of it *)
(* is undone by the shell (wrapEntrypoint).  The theorem holds for every    *)
(* pod and number of restarts; a wrapped container is excepted when its     *)
(* image has no shell, when it has no command, and when it has a word that  *)
(* is empty or that shellQuote leaves bare although the shell reads it as   *)
(* something else (Misread): separators, comments, file name patterns,      *)
(* redirections, parentheses.                                               *)
THEOREM RunsAsWrittenHolds == Spec => []RunsAsWritten
<1>1. ASSUME IInv, NEW i \in Started,
             i \in Wrappable =>
                /\ manifest.containers[i].command # <<>>
                /\ Image[manifest.containers[i].image].shell
                /\ ~HasWord(manifest.containers[i], Misread)
      PROVE  run[i].argv = Argv(manifest.containers[i])
  <2>1. /\ manifest \in Manifests /\ pod = BuildPatch(manifest)
        /\ run[i] = Process(pod.containers[i], fifo) /\ fifo \in BOOLEAN
    BY <1>1, RunningPod DEF IInv, Shaped
  <2>2. /\ i \in DOMAIN manifest.containers /\ i \in 1..Len(manifest.containers)
        /\ manifest.containers[i] \in OwnContainer
    BY <1>1, <2>1 DEF Started, Manifests
  <2>3. CASE i \in Wrappable
    <3>1. ~manifest.skip /\ i \in Unexcluded(manifest)
      BY <2>3 DEF Wrappable
    <3>2. pod.containers[i] = WithPipe(wrapEntrypoint(manifest.containers[i]))
      BY <2>1, <2>2, <3>1, PatchedPod
    <3>3. QED
      BY <1>1, <2>1, <2>2, <2>3, <3>2, WrappedArgv
  <2>4. CASE i \notin Wrappable
    <3>1. pod.containers[i] = manifest.containers[i]
      <4>1. CASE manifest.skip
        BY <2>1, <4>1, SkippedStays
      <4>2. CASE ~manifest.skip
        BY <2>1, <2>2, <2>4, <4>2, PatchedPod DEF Wrappable
      <4>3. QED
        BY <4>1, <4>2
    <3>2. QED
      BY <2>1, <2>2, <3>1, OwnArgv
  <2>5. QED
    BY <2>3, <2>4
<1>2. IInv => RunsAsWritten
  BY <1>1 DEF RunsAsWritten
<1>3. QED
  BY <1>2, Inductive, PTL

-----------------------------------------------------------------------------
(* The type invariant.                                                     *)

Ends == {"waiting", "failed", "stdout", "file", "fifo"}

\* A pod that is rejected had none of its init containers run, and one that is
\* deleted keeps what it was when it ran.
Ended ==
    /\ phase = "rejected" => done = <<>> /\ pod.inits \in Seq(Text)
    /\ phase = "deleted" =>
          /\ pod = BuildPatch(manifest)
          /\ Len(done) <= Len(pod.inits)
          /\ \A k \in 1..Len(done) : done[k] = pod.inits[k]

TypeInv ==
    /\ phase \in {"request", "patched", "accepted", "rejected", "deleted"}
    /\ restarts \in 0..MaxRestarts
    /\ \A i \in DOMAIN run : run[i].to \in Ends
    /\ Ended

LEMMA ProcessTo == ASSUME NEW c, NEW piped PROVE Process(c, piped).to \in Ends
  BY DEF Process, Shell, Failed, Ends

LEMMA PatchedTwiceInits ==
  ASSUME NEW m \in Manifests
  PROVE  BuildPatch(BuildPatch(m)).inits \in Seq(Text)
<1>1. CASE m.skip
  BY <1>1, SkippedStays, PatchedInits
<1>2. CASE ~m.skip
  <2> DEFINE p == BuildPatch(m)
  <2>1. p = [m EXCEPT !.defaultContainer = sidecarName,
                      !.volumes = Append(m.volumes, pipeVolume),
                      !.inits = Append(m.inits, initName),
                      !.containers = p.containers]
    BY <1>2 DEF BuildPatch, Patched, Manifests
  <2>2. "inits" \in DOMAIN p /\ p.skip = m.skip
    BY <2>1 DEF Manifests
  <2>3. p.inits \in Seq(Text)
    BY PatchedInits
  <2> HIDE DEF p
  <2>4. BuildPatch(p).inits = Append(p.inits, initName)
    BY <1>2, <2>2 DEF BuildPatch, Patched
  <2>5. BuildPatch(p).inits \in Seq(Text)
    BY <2>3, <2>4, InitNameText
  <2>6. QED
    BY <2>5 DEF p
<1>3. QED
  BY <1>1, <1>2

LEMMA TypeInit == Init => TypeInv
<1> SUFFICES ASSUME Init PROVE TypeInv
  OBVIOUS
<1>1. MaxRestarts \in Nat
  BY ManifestAssumption
<1>2. restarts \in 0..MaxRestarts
  BY <1>1 DEF Init
<1>3. \A i \in DOMAIN run : run[i].to \in Ends
  BY DEF Init, NotStarted, Waiting, Ends
<1>4. QED
  BY <1>2, <1>3 DEF Init, TypeInv, Ended

LEMMA TypeStep == IInv /\ TypeInv /\ [Next]_vars => TypeInv'
<1> SUFFICES ASSUME IInv, TypeInv, [Next]_vars PROVE TypeInv'
  OBVIOUS
<1>1. MaxRestarts \in Nat /\ Waiting.to \in Ends
  <2>1. MaxRestarts \in Nat
    BY ManifestAssumption
  <2>2. QED
    BY <2>1 DEF Waiting, Ends
<1>2. CASE Submit \/ Resubmit
  <2>1. restarts' = 0 /\ phase' = "request"
    BY <1>2 DEF Submit, Resubmit, Fresh
  <2>2. \A i \in DOMAIN run' : run'[i].to \in Ends
    BY <1>1, <1>2 DEF Submit, Resubmit, NotStarted
  <2>3. QED
    BY <1>1, <2>1, <2>2 DEF TypeInv, Ended
<1>3. CASE Review
  <2>1. \A i \in DOMAIN run' : run'[i].to \in Ends
    BY <1>1, <1>3 DEF Review
  <2>2. QED
    BY <1>3, <2>1 DEF Review, TypeInv, Ended
<1>4. CASE Validate
  <2>1. phase = "patched" /\ phase' \in {"accepted", "rejected"}
        /\ UNCHANGED <<manifest, pod, done, fifo, run, restarts>>
    BY <1>4 DEF Validate
  <2>2. done = <<>>
    BY <2>1 DEF IInv, Untouched
  <2>3. pod.inits \in Seq(Text)
    BY <2>1, ManifestTyped, PatchedInits, PatchedTwiceInits DEF IInv, Shaped, RightPod
  <2>4. QED
    BY <2>1, <2>2, <2>3 DEF TypeInv, Ended
<1>5. CASE Delete
  BY <1>5 DEF Delete, TypeInv, Ended, IInv, RightPod, RightOrder
<1>6. CASE RunInit
  BY <1>6 DEF RunInit, TypeInv, Ended
<1>7. ASSUME NEW i \in DOMAIN run, Start(i)
      PROVE  TypeInv'
  <2>1. \A k \in DOMAIN run' : run'[k].to \in Ends
    BY <1>7, ProcessTo DEF Start, TypeInv
  <2>2. QED
    BY <1>7, <2>1 DEF Start, TypeInv, Ended
<1>8. ASSUME NEW kept \in BOOLEAN, LoseSandbox(kept)
      PROVE  TypeInv'
  <2>1. \A i \in DOMAIN run' : run'[i].to \in Ends
    BY <1>1, <1>8 DEF LoseSandbox, NotStarted
  <2>2. restarts' \in 0..MaxRestarts
    BY <1>1, <1>8 DEF LoseSandbox, TypeInv
  <2>3. phase' = "accepted"
    BY <1>8 DEF LoseSandbox
  <2>4. QED
    BY <2>1, <2>2, <2>3 DEF TypeInv, Ended
<1>9. CASE UNCHANGED vars
  BY <1>9 DEF vars, TypeInv, Ended
<1>10. QED
  BY <1>2, <1>3, <1>4, <1>5, <1>6, <1>7, <1>8, <1>9 DEF Next, StartSome

(* In every phase the init containers that have run are the first of the    *)
(* pod's, as the API server has it, in their order (BuildPatch appends its  *)
(* own to the list and changes no other).                                   *)
THEOREM TypeCorrect == Spec => []TypeOK
<1>1. ASSUME IInv, TypeInv
      PROVE  IsPrefix(done, pod.inits)
  <2>1. pod.inits \in Seq(Text)
    BY <1>1, ManifestTyped, PatchedInits, PatchedTwiceInits
       DEF IInv, Shaped, RightPod, TypeInv, Ended, Manifests
  <2>2. /\ done \in Seq(Text) /\ Len(done) <= Len(pod.inits)
        /\ \A k \in 1..Len(done) : done[k] = pod.inits[k]
    <3>1. CASE done = <<>>
      BY <2>1, <3>1
    <3>2. CASE done # <<>>
      BY <1>1, <3>2 DEF IInv, Shaped, Untouched, RightOrder, TypeInv, Ended
    <3>3. QED
      BY <3>1, <3>2
  <2>3. QED
    BY <2>1, <2>2 DEF IsPrefix
<1>2. IInv /\ TypeInv => TypeOK
  BY <1>1 DEF IInv, Shaped, TypeInv, Ends, TypeOK
<1>3. Spec => []TypeInv
  BY Inductive, TypeInit, TypeStep, PTL DEF Spec
<1>4. QED
  BY <1>2, <1>3, Inductive, PTL
=============================================================================
