----------------------------- MODULE CopyButton -----------------------------
(***************************************************************************)
(* The copy button of the website (components/buttons/copy.tsx), with the  *)
(* state it keeps in useControlledState.  The site's pages pass neither    *)
(* copied nor onCopiedChange, so that state is the button's own.  A        *)
(* component without a Next of its own: Site composes it.                  *)
(***************************************************************************)
EXTENDS Naturals, Sequences, SequencesExt

CONSTANTS
    Nothing,   \* what the clipboard holds before the first copy
    MaxPending \* bound: writes under way and timers that run, together

CopyAssumption == MaxPending \in Nat

VARIABLES
    isCopied,  \* the button shows a check
    writing,   \* the texts of the writeText calls under way
    timers,    \* how many timeouts run
    clipboard

copy == <<isCopied, writing, timers, clipboard>>

Init ==
    /\ isCopied = FALSE
    /\ writing = <<>>
    /\ timers = 0
    /\ clipboard = Nothing

\* The guard `if (copied) return` reads the prop, which is undefined: a second
\* click starts a second copy while the check is shown.
handleCopy(content) ==
    /\ Len(writing) + timers < MaxPending
    /\ writing' = Append(writing, content)
    /\ UNCHANGED <<isCopied, timers, clipboard>>

\* Mutant: the check goes by itself, no timeout is set.
WrittenWithoutTimer(i) ==
    /\ clipboard' = writing[i]
    /\ writing' = RemoveAt(writing, i)
    /\ isCopied' = TRUE
    /\ UNCHANGED timers

\* Writes end in any order.
Written(i) ==
    /\ clipboard' = writing[i]
    /\ writing' = RemoveAt(writing, i)
    /\ isCopied' = TRUE
    /\ timers' = timers + 1

\* The browser denies the page the clipboard.
Denied(i) ==
    /\ writing' = RemoveAt(writing, i)
    /\ UNCHANGED <<isCopied, timers, clipboard>>

\* The timeout of any earlier copy removes the check.
Expire ==
    /\ timers > 0
    /\ timers' = timers - 1
    /\ isCopied' = FALSE
    /\ UNCHANGED <<writing, clipboard>>

Finish == \E i \in DOMAIN writing : Written(i) \/ Denied(i)

-----------------------------------------------------------------------------
CopyOK ==
    /\ isCopied \in BOOLEAN
    /\ timers \in Nat
    /\ Len(writing) + timers <= MaxPending

(* The check is shown only while a timeout runs that will remove it, and    *)
(* something was copied (handleCopy).                                       *)
CheckHasTimer == isCopied => timers > 0 /\ clipboard # Nothing
=============================================================================
