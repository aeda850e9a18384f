------------------------------ MODULE CodeTabs ------------------------------
(***************************************************************************)
(* The tabs of code on the guide page (components/animate/code-tabs.tsx):  *)
(* an effect loads the highlighter and sets the panels, Tabs and           *)
(* TabsContents (primitives/animate/tabs.tsx) follow the selected code,    *)
(* and the Highlight under the active trigger (primitives/effects/         *)
(* highlight.tsx) mirrors it.  A component without a Next of its own.      *)
(*                                                                         *)
(* React commits a render at once; the effects of the commit (Effects) run *)
(* some time later, and what is drawn comes frame by frame (Frame).        *)
(***************************************************************************)
EXTENDS Naturals, Sequences, SequencesExt, FiniteSets

CONSTANTS
    codes,   \* the names of the codes, in order
    Height   \* heights that a panel may have

TabsAssumption ==
    /\ codes \in Seq(STRING) /\ codes # <<>>
    /\ \A i, j \in DOMAIN codes : codes[i] = codes[j] => i = j
    /\ Height \subseteq Nat \ {0} /\ Height # {}

Code == ToSet(codes)

VARIABLES
    loader,           \* of loadHighlightedCode: "import", "highlight" or "done"
    newHighlighted,   \* the codes it has highlighted so far, in order
    highlightedCodes, \* the panels, code -> "html" or "raw"; none to begin with
    selectedCode,
    activeValue,      \* the Highlight's copy of it
    committed,        \* effects are due for the last commit
    paneHeight,       \* as laid out, for each code
    height,           \* of the area of the panels; 0 before the first measure
    observed,         \* index of the panel the ResizeObserver is set on, or 0
    resized,          \* the observer is due to be called
    frames            \* heights that requestAnimationFrame will set

tabs == <<loader, newHighlighted, highlightedCodes, selectedCode, activeValue, committed,
          paneHeight, height, observed, resized, frames>>

NoPanels == <<>>
Loaded   == highlightedCodes # NoPanels

Init ==
    /\ loader = "import"
    /\ newHighlighted = <<>>
    /\ highlightedCodes = NoPanels
    /\ selectedCode = codes[1]
    /\ activeValue = codes[1]
    /\ committed = FALSE
    /\ paneHeight = [c \in Code |-> CHOOSE h \in Height : TRUE] \* no panel is there yet
    /\ height = 0
    /\ observed = 0
    /\ resized = FALSE
    /\ frames = <<>>

-----------------------------------------------------------------------------
(* Loading.                                                                *)

ImportShiki ==
    /\ loader = "import"
    /\ loader' = "highlight"
    /\ UNCHANGED <<newHighlighted, highlightedCodes, selectedCode, activeValue, committed,
                   paneHeight, height, observed, resized, frames>>

HighlightNext ==
    /\ loader = "highlight"
    /\ Len(newHighlighted) < Len(codes)
    /\ newHighlighted' = Append(newHighlighted, codes[Len(newHighlighted) + 1])
    /\ UNCHANGED <<loader, highlightedCodes, selectedCode, activeValue, committed,
                   paneHeight, height, observed, resized, frames>>

\* The index of the panel of a code.
activeIndex(c) == CHOOSE i \in DOMAIN codes : codes[i] = c

measure(i) == paneHeight[codes[i]]

\* A layout effect measures at once while the height is 0.
MeasuredFirst(panels) ==
    IF height = 0 /\ selectedCode \in DOMAIN panels
    THEN measure(activeIndex(selectedCode)) ELSE height

\* The panels appear.
SetPanels(panels) ==
    /\ loader' = "done"
    /\ highlightedCodes' = panels
    /\ committed' = TRUE
    /\ height' = MeasuredFirst(panels)
    /\ UNCHANGED <<newHighlighted, selectedCode, activeValue, paneHeight, observed, resized, frames>>

SetHighlighted ==
    /\ loader = "highlight"
    /\ Len(newHighlighted) = Len(codes)
    /\ SetPanels([c \in ToSet(newHighlighted) |-> "html"])

\* Mutant: what has been highlighted until then is kept.
LoadFailsPartly ==
    /\ loader # "done"
    /\ newHighlighted # <<>>
    /\ SetPanels([c \in ToSet(newHighlighted) |-> "html"])

\* Mutant: the failure is only reported.
LoadFailsUnanswered ==
    /\ loader # "done"
    /\ loader = "highlight" => Len(newHighlighted) < Len(codes)
    /\ loader' = "done"
    /\ UNCHANGED <<newHighlighted, highlightedCodes, selectedCode, activeValue, committed,
                   paneHeight, height, observed, resized, frames>>

\* The import or one of the calls fails: the codes are shown as they are.
LoadFails ==
    /\ loader # "done"
    /\ loader = "highlight" => Len(newHighlighted) < Len(codes)
    /\ SetPanels([c \in Code |-> "raw"])

-----------------------------------------------------------------------------
(* The tabs.                                                               *)

\* A trigger is clicked: Tabs is controlled and hands the value to CodeTabs.
Select(c) ==
    /\ c \in DOMAIN highlightedCodes
    /\ selectedCode' = c
    /\ committed' = (committed \/ c # selectedCode)
    /\ UNCHANGED <<loader, newHighlighted, highlightedCodes, activeValue, paneHeight, height,
                   observed, resized, frames>>

\* Mutant: the effects depend on nothing and run for the first commit only.
EffectsOnce ==
    /\ committed
    /\ committed' = FALSE
    /\ IF observed = 0
       THEN /\ activeValue' = selectedCode
            /\ observed' = activeIndex(selectedCode)
            /\ resized' = TRUE
            /\ height' = measure(activeIndex(selectedCode))
       ELSE UNCHANGED <<activeValue, observed, resized, height>>
    /\ UNCHANGED <<loader, newHighlighted, highlightedCodes, selectedCode, paneHeight, frames>>

\* Highlight takes over the value of Tabs.
Mirror == activeValue' = selectedCode

\* TabsContents measures and observes the new panel; an observer that has just
\* been set is called once for what it sees.
Effects ==
    /\ committed
    /\ committed' = FALSE
    /\ Mirror
    /\ observed' = activeIndex(selectedCode)
    /\ resized' = TRUE
    /\ height' = measure(activeIndex(selectedCode))
    /\ UNCHANGED <<loader, newHighlighted, highlightedCodes, selectedCode, paneHeight, frames>>

\* What the browser does for one frame: the callbacks asked for before it, then
\* the observer, whose callback asks for the next one.  An observer that was
\* disconnected is not called, what it asked for is not cancelled.
Frame ==
    /\ frames # <<>> \/ resized
    /\ height' = IF frames = <<>> THEN height ELSE Last(frames)
    /\ frames' = IF resized THEN <<measure(observed)>> ELSE <<>>
    /\ resized' = FALSE
    /\ UNCHANGED <<loader, newHighlighted, highlightedCodes, selectedCode, activeValue, committed,
                   paneHeight, observed>>

\* The window, or a font that has been loaded, changes the layout.
Layout(heights) ==
    /\ paneHeight' = heights
    /\ resized' = \/ resized
                  \/ observed # 0 /\ heights[codes[observed]] # measure(observed)
    /\ UNCHANGED <<loader, newHighlighted, highlightedCodes, selectedCode, activeValue, committed,
                   height, observed, frames>>

Loading  == ImportShiki \/ HighlightNext \/ SetHighlighted \/ LoadFails
Drawing  == Effects \/ Frame
SelectSome == \E c \in Code : Select(c)
LayoutChanges == \E heights \in [Code -> Height] : heights # paneHeight /\ Layout(heights)

-----------------------------------------------------------------------------
(* What is shown.                                                          *)

\* The bar of the Highlight lies under this trigger.
isActive(c) == activeValue = c
BarUnder(c) == Loaded /\ isActive(c)

\* The row of panels is moved to the active one, and the others are inert.
InView(c)     == codes[activeIndex(selectedCode)] = c
inert(c)      == selectedCode # c
PanelShown(c) == Loaded /\ InView(c) /\ ~inert(c)

\* The copy button gets the code, not what is displayed of it.
CopyContent == selectedCode

-----------------------------------------------------------------------------
TabsOK ==
    /\ loader \in {"import", "highlight", "done"}
    /\ IsPrefix(newHighlighted, codes)
    /\ DOMAIN highlightedCodes \in {{}, Code}
    /\ selectedCode \in Code /\ activeValue \in Code
    /\ height \in Height \cup {0}
    /\ observed \in 0..Len(codes)
    /\ Len(frames) <= 1

(* However the highlighter fails, and after how many codes, each code gets  *)
(* a panel and a tab, and all of them are highlighted or none               *)
(* (loadHighlightedCode).                                                   *)
EveryCodeHasPanel ==
    Loaded =>
        /\ DOMAIN highlightedCodes = Code
        /\ \A c, d \in Code : highlightedCodes[c] = highlightedCodes[d]

(* Once the effects of a commit have run, the bar lies under the trigger of *)
(* the panel that is shown (Tabs, TabsHighlight, Highlight).                *)
BarFollowsPanel ==
    ~committed => \A c \in Code : BarUnder(c) <=> PanelShown(c)

(* When nothing is left to draw, the area is as high as the panel it shows: *)
(* a height that was measured for another tab, or before the layout         *)
(* changed, and is set late, does not stay (TabsContents).                  *)
HeightFits ==
    Loaded /\ ~committed /\ ~resized /\ frames = <<>> => height = paneHeight[selectedCode]
=============================================================================
