-------------------------------- MODULE Site --------------------------------
(***************************************************************************)
(* The two pages of the website that run code: /tool with the PatternTool  *)
(* (pages/tool/index.astro) and /guide with CodeTabs, its copy button and  *)
(* the RbacFaq accordion (pages/guide.astro).  A behaviour is one visit of *)
(* one page: a link loads the other page anew and leaves nothing of this.  *)
(***************************************************************************)
EXTENDS Naturals, Sequences

CONSTANTS
    BUILTINS, Library, Name, Typed, Sample, Log, NamespaceInput,
    Letter, Digit, Separator, Special,
    MaxCustoms, MaxId, MaxSuggesting, \* see PatternTool
    Nothing, MaxPending, \* see CopyButton
    codes, Height, \* see CodeTabs
    Item, Closed \* see Accordion

VARIABLES
    page, \* that is visited
    builtinChecked, customs, nextId, target, namespace, sampleLog,
    isCopied, writing, timers, clipboard,
    loader, newHighlighted, highlightedCodes, selectedCode, activeValue, committed,
    paneHeight, height, observed, resized, frames,
    open, value, isOpen, due

tool      == <<builtinChecked, customs, nextId, target, namespace, sampleLog>>
copy      == <<isCopied, writing, timers, clipboard>>
tabs      == <<loader, newHighlighted, highlightedCodes, selectedCode, activeValue, committed,
               paneHeight, height, observed, resized, frames>>
accordion == <<open, value, isOpen, due>>
vars      == <<page, tool, copy, tabs, accordion>>

Tool == INSTANCE PatternTool
Copy == INSTANCE CopyButton
Tabs == INSTANCE CodeTabs
Faq  == INSTANCE Accordion

ASSUME ToolAssumption == Tool!ToolAssumption
ASSUME GuideAssumption ==
    /\ Copy!CopyAssumption /\ Tabs!TabsAssumption /\ Faq!AccordionAssumption
    /\ Nothing \notin Tabs!Code

Init ==
    /\ page \in {"tool", "guide"}
    /\ Tool!Init
    /\ Copy!Init
    /\ Tabs!Init
    /\ Faq!Init

OnTool(action) ==
    /\ page = "tool"
    /\ action
    /\ UNCHANGED <<page, copy, tabs, accordion>>

ToolStep ==
    \/ OnTool(Tool!ToggleSome)
    \/ OnTool(Tool!AddRow)
    \/ OnTool(Tool!RemoveSome)
    \/ OnTool(Tool!SetSomeTab)
    \/ OnTool(Tool!SetSomeName)
    \/ OnTool(Tool!SetSomeRegex)
    \/ OnTool(Tool!SetSomeSample)
    \/ OnTool(Tool!SuggestSome)
    \/ OnTool(Tool!ExportAs)
    \/ OnTool(Tool!NameNamespace)
    \/ OnTool(Tool!PasteLog)

InTabs(action) ==
    /\ page = "guide"
    /\ action
    /\ UNCHANGED <<page, tool, copy, accordion>>

InCopy(action) ==
    /\ page = "guide"
    /\ action
    /\ UNCHANGED <<page, tool, tabs, accordion>>

InFaq(action) ==
    /\ page = "guide"
    /\ action
    /\ UNCHANGED <<page, tool, copy, tabs>>

\* The copy button appears with the panels and gets the selected code.
ClickCopy == Tabs!Loaded /\ Copy!handleCopy(Tabs!CopyContent)

GuideStep ==
    \/ InTabs(Tabs!Loading)
    \/ InTabs(Tabs!SelectSome)
    \/ InTabs(Tabs!Drawing)
    \/ InTabs(Tabs!LayoutChanges)
    \/ InCopy(ClickCopy)
    \/ InCopy(Copy!Finish)
    \/ InCopy(Copy!Expire)
    \/ InFaq(Faq!ToggleSome)
    \/ InFaq(Faq!ItemEffects)

Next == ToolStep \/ GuideStep

\* The browser settles promises, draws frames and fires timeouts as long as the
\* page is there.
Fairness ==
    /\ WF_vars(InTabs(Tabs!Loading))
    /\ WF_vars(InTabs(Tabs!Drawing))
    /\ WF_vars(InCopy(Copy!Finish))
    /\ WF_vars(InCopy(Copy!Expire))
    /\ WF_vars(InFaq(Faq!ItemEffects))

Spec == Init /\ [][Next]_vars /\ Fairness

-----------------------------------------------------------------------------
TypeOK ==
    /\ page \in {"tool", "guide"}
    /\ Tool!FormOK
    /\ Copy!CopyOK
    /\ Tabs!TabsOK
    /\ Faq!AccordionOK

RowsDistinct             == Tool!RowsDistinct
PreviewKeepsText         == Tool!PreviewKeepsText
PreviewAgreesWithSidecar == Tool!PreviewAgreesWithSidecar
SuggestionFits           == Tool!SuggestionFits
YamlReadyToUse           == Tool!YamlReadyToUse
EveryCodeHasPanel        == Tabs!EveryCodeHasPanel
BarFollowsPanel          == Tabs!BarFollowsPanel
HeightFits               == Tabs!HeightFits
CheckHasTimer            == Copy!CheckHasTimer
AnswerMatchesTrigger     == Faq!AnswerMatchesTrigger

(* The check of the copy button goes away by itself, and the codes of the   *)
(* guide appear whether or not the highlighter loads (handleCopy,           *)
(* loadHighlightedCode): no promise that fails leaves the page waiting.     *)
GuideSettles ==
    /\ isCopied ~> ~isCopied
    /\ (page = "guide") ~> Tabs!Loaded
=============================================================================
