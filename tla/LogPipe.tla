------------------------------ MODULE LogPipe ------------------------------
(***************************************************************************)
(* The log path of an injected pod (cmd/sidecar/main.go and the entrypoint *)
(* wrapping of pkg/webhook/inject.go): the wrapped containers write to one *)
(* FIFO, and the logcloak sidecar scans it into lines, masks them and      *)
(* writes them to its stdout.  The FIFO and the restarts of containers are *)
(* the kernel's and the kubelet's.                                         *)
(*                                                                         *)
(* A byte is a cell <<a, l, p>>: position p of line l of container a, the  *)
(* last position being the newline.  One contiguous part of a line may be  *)
(* sensitive, and a pattern recognises it only when it is whole.           *)
(***************************************************************************)
EXTENDS Integers, Sequences, FiniteSets, SequencesExt, Filter

CONSTANTS
    App,        \* the wrapped containers of the pod
    Script,     \* Script[a]: the lines a logs in all its lives, records [size, secret]
    MaxLine,    \* maxLineBytes, the size of the scanner's buffer
    PipeBuf,    \* writes of at most PipeBuf cells are atomic
    PipeCap,    \* capacity of the FIFO
    MaxActive,  \* bound: how many containers of one pod are wrapped
    MaxCrash,   \* bound: how often the sidecar is killed
    MaxEnd      \* bound: how often a container ends with lines left to log

ASSUME SizeAssumption ==
    /\ MaxLine \in Nat \ {0} /\ PipeBuf \in Nat \ {0} /\ MaxCrash \in Nat
    /\ MaxActive \in Nat /\ MaxEnd \in Nat
    /\ PipeCap \in Nat /\ PipeCap >= PipeBuf
ASSUME ScriptAssumption ==
    \A a \in App :
        /\ Script[a] \in Seq([size : Nat \ {0}, secret : SUBSET Nat])
        /\ \A l \in DOMAIN Script[a] : Script[a][l].secret \subseteq 1..(Script[a][l].size - 1)

VARIABLES
    mode,       \* "mask", or "drop" when LOGCLOAK_RULES does not parse
    policy,     \* restartPolicy of the pod
    active,     \* the containers that are wrapped in this pod
    app,        \* app[a]: "start", "waiting", "open", "done" or "failed"
    line,       \* line[a]: the line a writes next
    sent,       \* sent[a]: how many cells of it are written
    pipe,       \* cells in the FIFO
    sidecar,    \* "start", "waiting", "scan", "ending", "succeeded", "failed"
    buf,        \* the scanner's unconsumed input
    out,        \* what the sidecar has written to stdout, line by line
    crashes,    \* how often the sidecar has been killed
    ends        \* how often a container has ended with lines left to log

vars == <<mode, policy, active, app, line, sent, pipe, sidecar, buf, out, crashes, ends>>
config == <<mode, policy, active>>

Lines(a)   == DOMAIN Script[a]
Size(a, l) == Script[a][l].size
IsNewline(c) == c[3] = Size(c[1], c[2])
IsSecret(c)  == c[3] \in Script[c[1]][c[2]].secret

Init ==
    /\ mode \in {"mask", "drop"}
    /\ policy \in {"Always", "OnFailure", "Never"}
    /\ active \in {S \in SUBSET App : Cardinality(S) \in 1..MaxActive}
    /\ app = [a \in App |-> IF a \in active THEN "start" ELSE "done"]
    /\ line = [a \in App |-> 1]
    /\ sent = [a \in App |-> 0]
    /\ pipe = <<>>
    /\ sidecar = "start"
    /\ buf = <<>>
    /\ out = <<>>
    /\ crashes = 0
    /\ ends = 0

-----------------------------------------------------------------------------
(* Masking of one token of the scanner.                                    *)

\* t[i] belongs to a sensitive part that is whole and uninterrupted in t.
InMatch(t, i) ==
    LET c == t[i] IN
    /\ IsSecret(c)
    /\ \A p \in Script[c[1]][c[2]].secret :
          LET j == i + p - c[3] IN
          j \in DOMAIN t /\ t[j] = <<c[1], c[2], p>>

\* What is left of a token when every match is replaced.
MaskLine(t) == AtPlaces(t, {i \in DOMAIN t : ~InMatch(t, i)})

\* Mutant: drop-all mode lets the masked line through.
WrittenRaw(t) == [drop |-> FALSE, cells |-> t]

\* fmt.Fprintln of the masked line, or of the sentinel in drop-all mode.
Written(t) ==
    IF mode = "drop" THEN [drop |-> TRUE, cells |-> <<>>]
                     ELSE [drop |-> FALSE, cells |-> MaskLine(t)]

-----------------------------------------------------------------------------
(* The FIFO: opening either end waits for the other; data is gone when     *)
(* nobody has it open.                                                     *)

HasReader == sidecar \in {"scan", "ending"}
Writers   == {a \in App : app[a] = "open"}

\* The shell's redirection opens the FIFO for writing.
OpenWrite(a) ==
    /\ app[a] = "start"
    /\ IF sidecar \in {"waiting", "scan", "ending"}
       THEN /\ app' = [app EXCEPT ![a] = "open"]
            /\ sidecar' = IF sidecar = "waiting" THEN "scan" ELSE sidecar
       ELSE /\ app' = [app EXCEPT ![a] = "waiting"]
            /\ UNCHANGED sidecar
    /\ UNCHANGED <<config, line, sent, pipe, buf, out, crashes, ends>>

\* os.Open of the FIFO: every container that waits is released.
OpenRead ==
    /\ sidecar = "start"
    /\ IF \E a \in App : app[a] \in {"waiting", "open"}
       THEN /\ sidecar' = "scan"
            /\ app' = [a \in App |-> IF app[a] = "waiting" THEN "open" ELSE app[a]]
       ELSE sidecar' = "waiting" /\ UNCHANGED app
    /\ UNCHANGED <<config, line, sent, pipe, buf, out, crashes, ends>>

NextLine(a) ==
    /\ line' = [line EXCEPT ![a] = @ + 1]
    /\ sent' = [sent EXCEPT ![a] = 0]

\* One write(2) of a container that logs line by line: a line longer than
\* PipeBuf goes out in several writes, and each waits for room.
Write(a) ==
    /\ app[a] = "open" /\ HasReader
    /\ line[a] \in Lines(a)
    /\ LET left  == Size(a, line[a]) - sent[a]
           k     == IF left < PipeBuf THEN left ELSE PipeBuf
           chunk == [i \in 1..k |-> <<a, line[a], sent[a] + i>>]
       IN  /\ Len(pipe) + k <= PipeCap
           /\ pipe' = pipe \o chunk
           /\ IF k = left THEN NextLine(a)
              ELSE sent' = [sent EXCEPT ![a] = @ + k] /\ UNCHANGED line
    /\ UNCHANGED <<config, app, sidecar, buf, out, crashes, ends>>

\* Writing with no reader kills the container with SIGPIPE; what it was
\* writing is lost, and the kubelet restarts it unless the policy is Never.
BrokenPipe(a) ==
    /\ app[a] = "open" /\ ~HasReader
    /\ line[a] \in Lines(a)
    /\ NextLine(a)
    /\ app' = [app EXCEPT ![a] = IF policy = "Never" THEN "failed" ELSE "start"]
    /\ pipe' = IF Writers = {a} THEN <<>> ELSE pipe
    /\ UNCHANGED <<config, sidecar, buf, out, crashes, ends>>

\* A container that ends by itself, with status 0 or not, is started again as
\* the restartPolicy says; the line in the middle of which it ended stays torn.
End(a) ==
    /\ app[a] = "open"
    /\ line[a] \in Lines(a) => ends < MaxEnd
    /\ ends' = IF line[a] \in Lines(a) THEN ends + 1 ELSE ends
    /\ \E ok \in BOOLEAN :
          LET restarted == policy = "Always" \/ (policy = "OnFailure" /\ ~ok) IN
          /\ app' = [app EXCEPT ![a] =
                IF restarted THEN "start" ELSE IF ok THEN "done" ELSE "failed"]
          /\ IF restarted /\ sent[a] > 0 THEN NextLine(a) ELSE UNCHANGED <<line, sent>>
    /\ pipe' = IF Writers = {a} /\ ~HasReader THEN <<>> ELSE pipe
    /\ UNCHANGED <<config, sidecar, buf, out, crashes>>

-----------------------------------------------------------------------------
(* The sidecar: the loop of processPipe and dropPipe.                      *)

LineEnd == {i \in DOMAIN buf : IsNewline(buf[i])}

\* Mutant: the scanner's buffer grows without a limit.
ReadUnbounded ==
    /\ sidecar = "scan" /\ LineEnd = {} /\ pipe # <<>>
    /\ buf' = buf \o pipe
    /\ pipe' = <<>>
    /\ UNCHANGED <<config, app, line, sent, sidecar, out, crashes, ends>>

\* The scanner has no whole line and reads what the FIFO holds.
Read ==
    /\ sidecar = "scan" /\ LineEnd = {}
    /\ pipe # <<>> /\ Len(buf) < MaxLine
    /\ LET room == MaxLine - Len(buf)
           k    == IF Len(pipe) < room THEN Len(pipe) ELSE room
       IN  /\ buf' = buf \o SubSeq(pipe, 1, k)
           /\ pipe' = SubSeq(pipe, k + 1, Len(pipe))
    /\ UNCHANGED <<config, app, line, sent, sidecar, out, crashes, ends>>

\* Mutant: the line that is printed stays in the buffer.
EmitLineAgain ==
    /\ sidecar = "scan" /\ LineEnd # {}
    /\ LET e == CHOOSE i \in LineEnd : \A j \in LineEnd : i <= j
       IN  out' = Append(out, Written(SubSeq(buf, 1, e - 1)))
    /\ UNCHANGED <<config, app, line, sent, pipe, sidecar, buf, crashes, ends>>

\* Mutant: what was read ahead is dropped with the line that is printed.
EmitLineLosesRest ==
    /\ sidecar = "scan" /\ LineEnd # {}
    /\ LET e == CHOOSE i \in LineEnd : \A j \in LineEnd : i <= j
       IN  out' = Append(out, Written(SubSeq(buf, 1, e - 1)))
    /\ buf' = <<>>
    /\ UNCHANGED <<config, app, line, sent, pipe, sidecar, crashes, ends>>

EmitLine ==
    /\ sidecar = "scan" /\ LineEnd # {}
    /\ LET e == CHOOSE i \in LineEnd : \A j \in LineEnd : i <= j
       IN  /\ out' = Append(out, Written(SubSeq(buf, 1, e - 1)))
           /\ buf' = SubSeq(buf, e + 1, Len(buf))
    /\ UNCHANGED <<config, app, line, sent, pipe, sidecar, crashes, ends>>

\* The process ends: its memory is gone, and the data nobody has open.
Exit(status) ==
    /\ sidecar' = status
    /\ buf' = <<>>
    /\ pipe' = IF Writers = {} THEN <<>> ELSE pipe

\* Mutant: the scanner waits for a newline that no longer fits its buffer.
TooLongWaits == FALSE

\* bufio.ErrTooLong: processPipe returns it and main exits with 1; dropPipe
\* ignores it and main returns.
TooLong ==
    /\ sidecar = "scan" /\ LineEnd = {} /\ Len(buf) = MaxLine
    /\ Exit(IF mode = "drop" THEN "succeeded" ELSE "failed")
    /\ UNCHANGED <<config, app, line, sent, out, crashes, ends>>

\* read(2) returns 0: the rest of the input is the last line, and the loop ends.
EndOfFile ==
    /\ sidecar = "scan" /\ LineEnd = {} /\ Len(buf) < MaxLine
    /\ pipe = <<>> /\ Writers = {}
    /\ out' = IF buf = <<>> THEN out ELSE Append(out, Written(buf))
    /\ buf' = <<>>
    /\ sidecar' = "ending"
    /\ UNCHANGED <<config, app, line, sent, pipe, crashes, ends>>

\* main returns; a container may have opened the FIFO since the end of file.
Return ==
    /\ sidecar = "ending"
    /\ Exit("succeeded")
    /\ UNCHANGED <<config, app, line, sent, out, crashes, ends>>

\* OOMKill, eviction of the process, or a failed write to stdout.
Crash ==
    /\ sidecar \in {"start", "waiting", "scan", "ending"}
    /\ crashes < MaxCrash
    /\ crashes' = crashes + 1
    /\ Exit("failed")
    /\ UNCHANGED <<config, app, line, sent, out, ends>>

\* The kubelet restarts the sidecar as the restartPolicy says.
Restart ==
    /\ \/ sidecar = "failed" /\ policy # "Never"
       \/ sidecar = "succeeded" /\ policy = "Always"
    /\ sidecar' = "start"
    /\ UNCHANGED <<config, app, line, sent, pipe, buf, out, crashes, ends>>

AppStep(a)  == OpenWrite(a) \/ Write(a) \/ BrokenPipe(a)
SidecarStep == OpenRead \/ Read \/ EmitLine \/ TooLong \/ EndOfFile \/ Return

Next == (\E a \in App : AppStep(a) \/ End(a)) \/ SidecarStep \/ Restart \/ Crash

Spec == Init /\ [][Next]_vars

\* Containers that can run do run, and the kubelet does restart the sidecar.  No
\* container need ever end.
Fairness ==
    /\ \A a \in App : WF_vars(AppStep(a))
    /\ WF_vars(SidecarStep)
    /\ WF_vars(Restart)

LiveSpec == Spec /\ Fairness

-----------------------------------------------------------------------------
TypeOK ==
    LET IsCell(c) == c[1] \in active /\ c[2] \in Lines(c[1]) /\ c[3] \in 1..Size(c[1], c[2])
    IN  /\ app \in [App -> {"start", "waiting", "open", "done", "failed"}]
        /\ \A a \in App : line[a] \in 1..(Len(Script[a]) + 1)
        /\ \A a \in App : line[a] \in Lines(a) => sent[a] < Size(a, line[a])
        /\ sidecar \in {"start", "waiting", "scan", "ending", "succeeded", "failed"}
        /\ Len(pipe) <= PipeCap /\ Len(buf) <= MaxLine
        /\ \A c \in ToSet(pipe) \cup ToSet(buf) : IsCell(c)
        /\ \A i \in DOMAIN out : \A c \in ToSet(out[i].cells) : IsCell(c)
        /\ crashes \in 0..MaxCrash /\ ends \in 0..MaxEnd

Lone == Cardinality(active) = 1
Fits == \A a \in active : \A l \in Lines(a) : Size(a, l) <= MaxLine

(* What the sidecar prints, holds and has yet to read stays in the order in *)
(* which each container wrote it, and nothing is there twice: a restart     *)
(* never replays what the dead process had read ahead (bufio.Scanner over   *)
(* the FIFO).                                                               *)
Before(c, d) ==
    c[1] = d[1] => c[2] < d[2] \/ (c[2] = d[2] /\ c[3] < d[3])

InOrder ==
    LET parts == [i \in DOMAIN out |-> out[i].cells] \o <<buf, pipe>>
    IN  /\ \A n \in DOMAIN parts : \A i, j \in DOMAIN parts[n] :
              i < j => Before(parts[n][i], parts[n][j])
        /\ \A m, n \in DOMAIN parts :
              m < n => \A c \in ToSet(parts[m]), d \in ToSet(parts[n]) : Before(c, d)

(* No part of a sensitive value reaches stdout: in drop-all mode never      *)
(* ("so raw PII never reaches stdout"), and in masking mode as long as the  *)
(* sidecar is not killed, every line fits the scanner's buffer and every    *)
(* line is written atomically, whatever containers share the FIFO, come and *)
(* go, and are killed by SIGPIPE.                                           *)
NoRawSecret ==
    \/ mode = "drop"
    \/ crashes = 0 /\ Fits /\ \A a \in active : \A l \in Lines(a) : Size(a, l) <= PipeBuf
    => \A i \in DOMAIN out : \A k \in DOMAIN out[i].cells : ~IsSecret(out[i].cells[k])

(* A single container whose lines fit has each of them printed once, in     *)
(* order, masked (or replaced by a sentinel), unless the sidecar is killed  *)
(* or the container ends on the way and is started again: it may then write *)
(* to a FIFO that the sidecar has read to its end and has not closed yet.   *)
(* One that is not started again (Never) has all printed that it wrote, the *)
(* beginning of its last line included.                                     *)
Text(a, l, size) == Written([p \in 1..size |-> <<a, l, p>>])

Delivered(a) ==
    LET whole == [l \in 1..(line[a] - 1) |-> Text(a, l, Size(a, l) - 1)]
        rest  == IF sent[a] > 0 THEN <<Text(a, line[a], sent[a])>> ELSE <<>>
    IN  /\ line[a] \notin Lines(a) \/ app[a] \in {"done", "failed"}
        /\ out = whole \o rest

LoneWriterDelivers ==
    Lone /\ Fits
        => <>(\/ crashes > 0
              \/ ends > 0 /\ policy # "Never"
              \/ \A a \in active : Delivered(a))

(* The abstract log: what is in flight, and the lines that are or have yet  *)
(* to be written.                                                           *)
\* What the scanner has read and has still to read.
Flow == buf \o pipe

Due ==
    (UNION {{a} \X {l \in Lines(a) : l >= line[a]} : a \in active})
        \cup {<<c[1], c[2]>> : c \in ToSet(Flow)}

Torn == IF Flow # <<>> /\ Flow[1][3] # 1 THEN {<<Flow[1][1], Flow[1][2]>>} ELSE {}

Log ==
    INSTANCE MaskedLog WITH
        due <- Due, torn <- Torn, reading <- HasReader, kills <- crashes, log <- out

Atomic == \A a \in active : \A l \in Lines(a) : Size(a, l) <= MaxLine /\ Size(a, l) <= PipeBuf

(* In a pod whose every line is Atomic (it fits the scanner's buffer and    *)
(* goes out in one write), what the sidecar prints is a log of whole,       *)
(* masked lines: each at most once and in order, lost only while or when    *)
(* the sidecar does not read, and with each kill at most one line torn.     *)
LogSpec == (Atomic => Log!Init) /\ [][Atomic => Log!Next]_(Log!lvars)

(* Nobody waits on the FIFO forever: containers get through their logs in   *)
(* spite of sidecar crashes, oversized lines, broken pipes and their own    *)
(* ends when the kubelet always restarts everyone, and with OnFailure when  *)
(* the container is alone, its lines are masked and it does not end by      *)
(* itself (the sidecar, which returns at the end of file, is then not       *)
(* started again, and a container that is waits for it in open).            *)
AppsFinish ==
    LET Logged == \A a \in active : line[a] \notin Lines(a) IN
    /\ policy = "Always" => <>Logged
    /\ policy = "OnFailure" /\ Lone /\ mode = "mask" => <>(ends > 0 \/ Logged)

(* documentation.md, sidecar.maxLineSizeBytes: "Lines larger than this are  *)
(* dropped with reason=line_too_long".                                      *)
OversizedLineDropped ==
    \A i \in DOMAIN out : \A k \in DOMAIN out[i].cells :
        LET c == out[i].cells[k] IN Size(c[1], c[2]) <= MaxLine
=============================================================================
