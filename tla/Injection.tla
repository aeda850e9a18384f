------------------------------ MODULE Injection ------------------------------
(***************************************************************************)
(* The patch of a pod (pkg/webhook/inject.go) and what becomes of it: the  *)
(* API server validates the patched pod, the kubelet runs its init         *)
(* containers in order and then starts its containers, and the shell that  *)
(* a container was wrapped in reads the command line BuildPatch wrote.     *)
(* Rules are left out (see Admission), and so is what is written to the    *)
(* FIFO (see LogPipe).                                                     *)
(*                                                                         *)
(* A container is [name, image, command, args, script, mounts]: script is  *)
(* the text behind `sh -c` up to the redirection, in pieces, and empty in  *)
(* a container that is not wrapped.  Its first argument is then ScriptText.*)
(***************************************************************************)
EXTENDS Naturals, Sequences, SequencesExt, FiniteSets

CONSTANTS
    Manifest,    \* what users submit: [skip, exclude, containers, volumes, inits,
                 \*                     defaultContainer]
    Image,       \* Image[i]: [shell, entrypoint, cmd]
    Kind,        \* of a word: "blank" (it has something that shellQuote quotes), "empty", or,
                 \*   of those left bare, "plain" (the shell reads it as it is), "separator"
                 \*   (of commands: a;b), "comment" (#fff), "other" (*.log, >x: the shell
                 \*   reads other words or none) or "broken" (no command has it: a parenthesis)
    Reads,       \* Reads[w]: the words that the shell reads for w of kind "other"
    knownProxies,
    MaxRestarts  \* bound: how often a pod loses its sandbox

sidecarName == "logcloak"
initName    == "logcloak-init"
pipeVolume  == "masker-pipe"
ScriptText  == "script"

OwnNames(p) == {p.containers[i].name : i \in DOMAIN p.containers} \cup ToSet(p.inits)

OwnContainer == [name : STRING, image : STRING, command : Seq(STRING), args : Seq(STRING),
                 script : {<<>>}, mounts : SUBSET STRING]

ASSUME ManifestAssumption ==
    /\ MaxRestarts \in Nat
    /\ initName \in STRING
    /\ \A p \in Manifest :
          /\ p \in [skip : BOOLEAN, exclude : SUBSET STRING, containers : Seq(OwnContainer),
                   volumes : Seq(STRING), inits : Seq(STRING), defaultContainer : STRING]
          /\ OwnNames(p) \cap {sidecarName, initName} = {}
          /\ pipeVolume \notin ToSet(p.volumes)

VARIABLES
    manifest, \* the pod as its user wrote it
    pod,      \* the pod as the API server has it
    phase,    \* "request", "patched", "accepted", "rejected" or "deleted"
    done,     \* the init containers that have run in the sandbox
    fifo,     \* /masker-pipe/app.pipe is a FIFO
    run,      \* run[i]: what container i has been started as
    restarts

vars == <<manifest, pod, phase, done, fifo, run, restarts>>

Waiting    == [argv |-> <<>>, to |-> "waiting"]
Failed     == [argv |-> <<>>, to |-> "failed"]
NotStarted == [i \in DOMAIN pod.containers |-> Waiting]

Init ==
    /\ manifest \in Manifest
    /\ pod = manifest
    /\ phase = "request"
    /\ done = <<>>
    /\ fifo = FALSE
    /\ run = NotStarted
    /\ restarts = 0

-----------------------------------------------------------------------------
(* BuildPatch.                                                             *)

\* exclude is the annotation's list of names, without blanks around them.
isExcluded(name, exclude) ==
    name = sidecarName \/ name \in knownProxies \/ name \in exclude

\* Mutant: nothing is quoted.
BareQuote(w) == [word |-> w, quoted |-> FALSE]

shellQuote(w) == [word |-> w, quoted |-> Kind[w] = "blank"]

\* Of `exec "$0" "$@"` the shell makes the name it was started with itself.
Fallback == <<[word |-> "sh", quoted |-> TRUE]>>

buildOriginalCmd(c) ==
    IF c.command = <<>> /\ c.args = <<>> THEN Fallback
    ELSE [i \in DOMAIN (c.command \o c.args) |-> shellQuote((c.command \o c.args)[i])]

wrapEntrypoint(c) ==
    [c EXCEPT !.command = <<"sh", "-c">>,
              !.args = <<ScriptText>>,
              !.script = buildOriginalCmd(c)]

sidecarContainer ==
    [name |-> sidecarName, image |-> sidecarName, command |-> <<>>, args |-> <<>>,
     script |-> <<>>, mounts |-> {pipeVolume}]

Unexcluded(p) ==
    {i \in DOMAIN p.containers : ~isExcluded(p.containers[i].name, p.exclude)}

WithPipe(c) == [c EXCEPT !.mounts = c.mounts \cup {pipeVolume}]

Patched(p, wrapped, inits) ==
    IF p.skip THEN p
    ELSE [p EXCEPT
            !.defaultContainer = sidecarName,
            !.volumes = Append(p.volumes, pipeVolume),
            !.inits = inits,
            !.containers =
                Append([i \in DOMAIN p.containers |->
                           IF i \in wrapped THEN WithPipe(wrapEntrypoint(p.containers[i]))
                                            ELSE p.containers[i]],
                       sidecarContainer)]

\* Mutant: the loop ends at the first container that is excluded.
BuildPatchBreak(p) ==
    Patched(p, {i \in DOMAIN p.containers : 1..i \subseteq Unexcluded(p)},
            Append(p.inits, initName))

\* Mutant: the list of init containers is set, never extended.
BuildPatchReplacesInits(p) == Patched(p, Unexcluded(p), <<initName>>)

\* Mutant: the list is set and then extended.
BuildPatchInitTwice(p) ==
    Patched(p, Unexcluded(p),
            IF p.inits = <<>> THEN <<initName, initName>> ELSE Append(p.inits, initName))

BuildPatch(p) == Patched(p, Unexcluded(p), Append(p.inits, initName))

-----------------------------------------------------------------------------
(* The shell, the API server and the kubelet.                              *)

Bare(script, kind) == {k \in DOMAIN script : ~script[k].quoted /\ Kind[script[k].word] = kind}

\* Words of a piece: an empty one vanishes, and what is not quoted comes apart
\* at its blanks, or is taken for file names or a redirection.
Words(piece) ==
    IF piece.quoted THEN <<piece.word>>
    ELSE CASE Kind[piece.word] = "empty" -> <<>>
           [] Kind[piece.word] = "blank" -> <<piece.word, piece.word>>
           [] Kind[piece.word] = "other" -> Reads[piece.word]
           [] OTHER                      -> <<piece.word>>

\* The line ends at a comment, its first command at a separator.  The redirection
\* to the pipe is the last thing on the line, so that it counts before all others;
\* what it opens is a file of its own where there is no FIFO.
Shell(script, piped) ==
    LET comments == Bare(script, "comment")
        last     == IF comments = {} THEN Len(script) ELSE Min(comments) - 1
        cuts     == Bare(script, "separator") \cap 1..last
        upto     == IF cuts = {} THEN last ELSE Min(cuts)
        cutOff   == comments # {} \/ cuts # {}
    IN  IF Bare(script, "broken") \cap 1..last # {} THEN Failed
        ELSE [argv |-> FlattenSeq([k \in 1..upto |-> Words(script[k])]),
              to   |-> IF cutOff THEN "stdout" ELSE IF piped THEN "fifo" ELSE "file"]

\* command replaces the image's ENTRYPOINT and CMD, args its CMD.
Argv(c) ==
    IF c.command # <<>> THEN c.command \o c.args
    ELSE Image[c.image].entrypoint \o (IF c.args # <<>> THEN c.args ELSE Image[c.image].cmd)

Process(c, piped) ==
    IF c.script = <<>> THEN [argv |-> Argv(c), to |-> "stdout"]
    ELSE IF Image[c.image].shell THEN Shell(c.script, piped)
    ELSE Failed

Valid(p) ==
    /\ \A i, j \in DOMAIN p.containers : p.containers[i].name = p.containers[j].name => i = j
    /\ IsInjective(p.inits)
    /\ ToSet(p.inits) \cap {p.containers[i].name : i \in DOMAIN p.containers} = {}
    /\ IsInjective(p.volumes)

-----------------------------------------------------------------------------
(* Steps.                                                                  *)

Fresh == /\ done' = <<>>
         /\ fifo' = FALSE
         /\ restarts' = 0

Submit ==
    /\ phase \in {"rejected", "deleted"}
    /\ manifest' \in Manifest
    /\ pod' = manifest'
    /\ phase' = "request"
    /\ Fresh
    /\ run' = [i \in DOMAIN manifest'.containers |-> Waiting]

Running == phase = "accepted" /\ \A i \in DOMAIN run : run[i] # Waiting

\* Mutant: the copy is the manifest, and is taken for the pod with the sidecar.
ResubmitManifest ==
    /\ Running
    /\ phase' = "request"
    /\ pod' = manifest
    /\ Fresh
    /\ run' = NotStarted
    /\ UNCHANGED manifest

\* The running pod is replaced by a copy of it, as the API server shows it.
Resubmit ==
    /\ Running
    /\ phase' = "request"
    /\ Fresh
    /\ run' = NotStarted
    /\ UNCHANGED <<manifest, pod>>

Review ==
    /\ phase = "request"
    /\ pod' = BuildPatch(pod)
    /\ run' = [i \in DOMAIN pod'.containers |-> Waiting]
    /\ phase' = "patched"
    /\ UNCHANGED <<manifest, done, fifo, restarts>>

Validate ==
    /\ phase = "patched"
    /\ phase' = IF Valid(pod) THEN "accepted" ELSE "rejected"
    /\ UNCHANGED <<manifest, pod, done, fifo, run, restarts>>

Delete ==
    /\ phase = "accepted"
    /\ phase' = "deleted"
    /\ UNCHANGED <<manifest, pod, done, fifo, run, restarts>>

InitsDone == Len(done) = Len(pod.inits)

\* mkfifo fails when there is a FIFO already, and is tried again and again.
RunInit ==
    /\ phase = "accepted" /\ ~InitsDone
    /\ LET init == pod.inits[Len(done) + 1] IN
          /\ init = initName => ~fifo
          /\ fifo' = (fifo \/ init = initName)
          /\ done' = Append(done, init)
    /\ UNCHANGED <<manifest, pod, phase, run, restarts>>

Start(i) ==
    /\ phase = "accepted" /\ InitsDone
    /\ run[i] = Waiting
    /\ run' = [run EXCEPT ![i] = Process(pod.containers[i], fifo)]
    /\ UNCHANGED <<manifest, pod, phase, done, fifo, restarts>>

StartSome == \E i \in DOMAIN run : Start(i)

\* The sandbox is made anew, all init containers run again.  The volume is kept,
\* unless the node went down: it is in memory.
LoseSandbox(kept) ==
    /\ phase = "accepted" /\ restarts < MaxRestarts
    /\ restarts' = restarts + 1
    /\ done' = <<>>
    /\ fifo' = (fifo /\ kept)
    /\ run' = NotStarted
    /\ UNCHANGED <<manifest, pod, phase>>

Next ==
    \/ Submit
    \/ Resubmit
    \/ Review
    \/ Validate
    \/ Delete
    \/ RunInit
    \/ StartSome
    \/ \E kept \in BOOLEAN : LoseSandbox(kept)

\* The API server answers, and the kubelet goes on with a pod.
Fairness ==
    /\ WF_vars(Review)
    /\ WF_vars(Validate)
    /\ WF_vars(RunInit)
    /\ WF_vars(StartSome)

Spec == Init /\ [][Next]_vars /\ Fairness

-----------------------------------------------------------------------------
\* Containers of the manifest that have been started, and that are to be wrapped.
Started   == {i \in DOMAIN manifest.containers : phase = "accepted" /\ run[i] # Waiting}
Wrappable == IF manifest.skip THEN {} ELSE Unexcluded(manifest)

\* The kinds of words that the shell does not read as they are.
Misread == {"empty", "separator", "comment", "other", "broken"}

HasWord(c, kinds) == \E w \in ToSet(c.command) \cup ToSet(c.args) : Kind[w] \in kinds

TypeOK ==
    /\ manifest \in Manifest
    /\ phase \in {"request", "patched", "accepted", "rejected", "deleted"}
    /\ DOMAIN run = DOMAIN pod.containers
    /\ \A i \in DOMAIN run : run[i].to \in {"waiting", "failed", "stdout", "file", "fifo"}
    /\ IsPrefix(done, pod.inits)
    /\ fifo \in BOOLEAN
    /\ restarts \in 0..MaxRestarts

(* Whatever comes before it in the pod, and whether the pod was written or  *)
(* copied from a running one, a container that is not excluded writes to    *)
(* the FIFO, and a sidecar that has it mounted is in the pod (BuildPatch).  *)
(* It does not hold when a word of its command line separates commands or   *)
(* begins a comment: shellQuote leaves ; & | and # bare, and the shell then *)
(* does not apply the redirection to the container's command.               *)
OutputToSidecar ==
    \A i \in Started \cap Wrappable :
        ~HasWord(manifest.containers[i], {"separator", "comment"}) =>
            /\ run[i].to \in {"fifo", "failed"}
            /\ \E k \in DOMAIN pod.containers :
                  pod.containers[k].name = sidecarName /\ pipeVolume \in pod.containers[k].mounts

(* A container that is excluded, or in a pod that is skipped, runs what it  *)
(* would without logcloak; a wrapped one that has a command and whose image *)
(* has a shell does, too, if each of its words is plain or quoted: what     *)
(* buildOriginalCmd and shellQuote write, the shell reads as the words it   *)
(* was made of.  An empty word gets lost, and of the words that shellQuote  *)
(* leaves bare the shell reads those with ; & | # * ? [ ~ < > ( or ) as     *)
(* something else.                                                          *)
RunsAsWritten ==
    \A i \in Started :
        LET c == manifest.containers[i] IN
        (i \in Wrappable =>
            /\ c.command # <<>> /\ Image[c.image].shell
            /\ ~HasWord(c, Misread))
        => run[i].argv = Argv(c)

(* The pod's own init containers still run, in their order, before any of   *)
(* its containers, and a container is not started on a path where there is  *)
(* no FIFO yet (BuildPatch), also not after its sandbox was lost.           *)
InitsFirst ==
    \A i \in Started :
        /\ IsPrefix(manifest.inits, done)
        /\ i \in Wrappable => fifo

(* A pod that was not copied from a running one is accepted, and all of its *)
(* containers are started, unless it lost its sandbox but not its FIFO,     *)
(* where mkfifo fails for good (BuildPatch), or was deleted.                *)
StuckOnFifo == fifo /\ ~InitsDone
PodStarts ==
    phase = "request" /\ pod = manifest
        ~> Running \/ StuckOnFifo \/ phase = "deleted"

(* docs/failure-modes.md: "For images with no `command` in the pod spec,    *)
(* the webhook falls back to `exec "$0" "$@"`, which relies on the image's  *)
(* `ENTRYPOINT`.  This works correctly for distroless images".  But $0 is   *)
(* sh, for the pod's command replaces the ENTRYPOINT (buildOriginalCmd).    *)
EntrypointRuns ==
    \A i \in Started \cap Wrappable :
        LET c == manifest.containers[i] IN
        c.command = <<>> /\ c.args = <<>> /\ Image[c.image].entrypoint # <<>>
        => run[i].argv = Argv(c)
=============================================================================
