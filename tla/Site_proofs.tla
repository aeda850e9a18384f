----------------------------- MODULE Site_proofs -----------------------------
(***************************************************************************)
(* Proofs about the two pages.  The guide: whatever is clicked, resized,   *)
(* loaded or refused, and in whatever order timers, frames and effects     *)
(* come, what is shown fits what was chosen, for any number of codes and   *)
(* questions.  The pattern tool: rows keep apart, suggestions fit their    *)
(* samples, and the preview keeps the text and shows of it what the        *)
(* sidecar would print, for texts of any length.                           *)
(***************************************************************************)
EXTENDS Site, RegexLemmas

-----------------------------------------------------------------------------
(* The copy button.                                                        *)

\* Nothing is written to the clipboard but codes of the guide.
CopyInv ==
    /\ timers \in Nat
    /\ writing \in Seq(Tabs!Code)
    /\ isCopied => timers > 0 /\ clipboard # Nothing

LEMMA RemovedOne ==
  ASSUME NEW S, NEW s \in Seq(S), NEW i \in DOMAIN s
  PROVE  Copy!RemoveAt(s, i) \in Seq(S)
  BY DEF Copy!RemoveAt

LEMMA RemovedLength ==
  ASSUME NEW S, NEW s \in Seq(S), NEW i \in DOMAIN s
  PROVE  Len(Copy!RemoveAt(s, i)) + 1 = Len(s)
<1> DEFINE n == Len(s)
<1>1. n \in Nat /\ i \in 1..n
  OBVIOUS
<1>2. /\ SubSeq(s, 1, i - 1) \in Seq(S) /\ Len(SubSeq(s, 1, i - 1)) = i - 1
      /\ SubSeq(s, i + 1, n) \in Seq(S) /\ Len(SubSeq(s, i + 1, n)) = n - i
  BY <1>1
<1>3. Len(Copy!RemoveAt(s, i)) = Len(SubSeq(s, 1, i - 1)) + Len(SubSeq(s, i + 1, n))
  BY <1>2 DEF Copy!RemoveAt
<1> DEFINE k == Len(Copy!RemoveAt(s, i))
<1>4. k = (i - 1) + (n - i)
  BY <1>2, <1>3
<1> HIDE DEF n, k
<1>5. k + 1 = n
  BY <1>1, <1>4
<1>6. QED
  BY <1>5 DEF n, k

LEMMA CopyInit == Init => CopyInv
  BY DEF Init, Copy!Init, CopyInv

LEMMA CopyStep ==
  CopyInv /\ selectedCode \in Tabs!Code /\ [Next]_vars => CopyInv'
<1>1. SUFFICES ASSUME CopyInv, selectedCode \in Tabs!Code, [Next]_vars
               PROVE  CopyInv'
  OBVIOUS
<1>2. CASE InCopy(ClickCopy)
  BY <1>1, <1>2 DEF InCopy, ClickCopy, Copy!handleCopy, Tabs!CopyContent, CopyInv
<1>3. CASE InCopy(Copy!Finish)
  <2>1. PICK i \in DOMAIN writing : Copy!Written(i) \/ Copy!Denied(i)
    BY <1>3 DEF InCopy, Copy!Finish
  <2>2. writing' \in Seq(Tabs!Code)
    BY <1>1, <2>1, RemovedOne DEF Copy!Written, Copy!Denied, CopyInv
  <2>3. writing[i] # Nothing
    BY <1>1, <2>1, GuideAssumption DEF CopyInv
  <2>4. QED
    BY <1>1, <2>1, <2>2, <2>3 DEF Copy!Written, Copy!Denied, CopyInv
<1>4. CASE InCopy(Copy!Expire)
  BY <1>1, <1>4 DEF InCopy, Copy!Expire, CopyInv
<1>5. CASE UNCHANGED copy
  BY <1>1, <1>5 DEF copy, CopyInv
<1>6. QED
  BY <1>1, <1>2, <1>3, <1>4, <1>5
     DEF Next, ToolStep, GuideStep, OnTool, InTabs, InFaq, vars

-----------------------------------------------------------------------------
(* The accordion.                                                          *)

AccordionInv ==
    /\ value = open /\ open \in Item \cup {Closed}
    /\ isOpen \in [Item -> BOOLEAN]
    /\ ~due => \A i \in Item : isOpen[i] <=> value = i

LEMMA AccordionInit == Init => AccordionInv
  BY GuideAssumption DEF Init, Faq!Init, AccordionInv, Faq!AccordionAssumption

LEMMA AccordionStep == AccordionInv /\ [Next]_vars => AccordionInv'
<1>1. SUFFICES ASSUME AccordionInv, [Next]_vars
               PROVE  AccordionInv'
  OBVIOUS
<1>2. CASE InFaq(Faq!ToggleSome)
  BY <1>1, <1>2 DEF InFaq, Faq!ToggleSome, Faq!Toggle, AccordionInv
<1>3. CASE InFaq(Faq!ItemEffects)
  BY <1>1, <1>3 DEF InFaq, Faq!ItemEffects, AccordionInv
<1>4. CASE UNCHANGED accordion
  BY <1>1, <1>4 DEF accordion, AccordionInv
<1>5. QED
  BY <1>1, <1>2, <1>3, <1>4
     DEF Next, ToolStep, GuideStep, OnTool, InTabs, InCopy, vars

(* The mounted answer is the one of the open question, for any number of    *)
(* questions (AccordionItem).                                               *)
THEOREM AnswerMatchesTriggerHolds == Spec => []AnswerMatchesTrigger
<1>1. AccordionInv => AnswerMatchesTrigger
  BY GuideAssumption
     DEF AccordionInv, AnswerMatchesTrigger, Faq!AnswerMatchesTrigger, Faq!Mounted,
         Faq!AccordionAssumption
<1>2. QED
  BY <1>1, AccordionInit, AccordionStep, PTL DEF Spec

-----------------------------------------------------------------------------
(* The tabs.                                                               *)

\* All codes have a panel of one kind, or none has.
PanelsInv == Tabs!Loaded => \E kind : highlightedCodes = [c \in Tabs!Code |-> kind]

\* What has been highlighted so far are the first codes, in order.
LoaderInv ==
    /\ newHighlighted \in Seq(Tabs!Code) /\ Len(newHighlighted) <= Len(codes)
    /\ \A i \in 1..Len(newHighlighted) : newHighlighted[i] = codes[i]

\* Unless effects are due, the bar and the observer are at the selected code.
EffectsInv ==
    /\ selectedCode \in Tabs!Code
    /\ observed \in 0..Len(codes)
    /\ Tabs!Loaded /\ ~committed =>
        activeValue = selectedCode /\ observed = Tabs!activeIndex(selectedCode)

\* Unless the observer is due to be called, the last height that will be set,
\* or is set, is that of the panel it observes.
HeightInv ==
    /\ paneHeight \in [Tabs!Code -> Height]
    /\ frames = <<>> \/ \E h : frames = <<h>>
    /\ observed # 0 /\ ~resized =>
        /\ frames = <<>> => height = Tabs!measure(observed)
        /\ frames # <<>> => frames[1] = Tabs!measure(observed)

TabsInv == PanelsInv /\ LoaderInv /\ EffectsInv /\ HeightInv

LEMMA Codes ==
    /\ codes # <<>> /\ Len(codes) \in Nat \ {0} /\ DOMAIN codes = 1..Len(codes)
    /\ Tabs!Code = {codes[i] : i \in 1..Len(codes)}
    /\ codes \in Seq(Tabs!Code)
    /\ Tabs!Code # {}
<1>1. PICK S : codes \in Seq(S) /\ codes # <<>>
  BY GuideAssumption DEF Tabs!TabsAssumption
<1>2. /\ Len(codes) \in Nat \ {0} /\ DOMAIN codes = 1..Len(codes)
      /\ Tabs!Code = {codes[i] : i \in 1..Len(codes)}
  BY <1>1 DEF Tabs!Code, Tabs!ToSet
<1>3. QED
  BY <1>1, <1>2

\* activeIndex finds each code.
LEMMA IndexOfCode ==
  ASSUME NEW c \in Tabs!Code
  PROVE  Tabs!activeIndex(c) \in 1..Len(codes) /\ codes[Tabs!activeIndex(c)] = c
  BY Codes DEF Tabs!activeIndex

LEMMA TabsInit == Init => TabsInv
<1>1. SUFFICES ASSUME Tabs!Init
               PROVE  TabsInv
  BY DEF Init
<1>2. ~Tabs!Loaded /\ PanelsInv
  BY <1>1 DEF Tabs!Init, PanelsInv, Tabs!Loaded
<1>3. LoaderInv
  BY <1>1, Codes DEF Tabs!Init, LoaderInv
<1>4. EffectsInv
  BY <1>1, <1>2, Codes DEF Tabs!Init, EffectsInv
<1>5. (CHOOSE h \in Height : TRUE) \in Height
  BY GuideAssumption DEF Tabs!TabsAssumption
<1>6. HeightInv
  BY <1>1, <1>5 DEF Tabs!Init, HeightInv
<1>7. QED
  BY <1>2, <1>3, <1>4, <1>6 DEF TabsInv

\* When the loader ends, whatever it has met, all codes have a panel.
LEMMA SomePanels ==
  ASSUME NEW kind, Tabs!SetPanels([c \in Tabs!Code |-> kind]), TabsInv
  PROVE  TabsInv'
<1>1. Tabs!Loaded'
  <2>1. DOMAIN highlightedCodes' # {}
    BY Codes DEF Tabs!SetPanels
  <2>2. DOMAIN Tabs!NoPanels = {}
    BY DEF Tabs!NoPanels
  <2>3. QED
    BY <2>1, <2>2 DEF Tabs!Loaded
<1>2. PanelsInv' /\ LoaderInv' /\ EffectsInv'
  BY <1>1 DEF Tabs!SetPanels, TabsInv, PanelsInv, LoaderInv, EffectsInv
<1>3. observed # 0 => Tabs!measure(observed) # 0
  BY Codes, GuideAssumption DEF TabsInv, EffectsInv, HeightInv, Tabs!measure, Tabs!TabsAssumption
<1>4. HeightInv'
  BY <1>3 DEF Tabs!SetPanels, Tabs!MeasuredFirst, TabsInv, HeightInv, Tabs!measure
<1>5. QED
  BY <1>2, <1>4 DEF TabsInv

LEMMA LoadingKeeps ==
  ASSUME TabsInv, Tabs!Loading
  PROVE  TabsInv'
<1>1. CASE Tabs!ImportShiki
  BY <1>1 DEF Tabs!ImportShiki, TabsInv, PanelsInv, LoaderInv, EffectsInv, HeightInv,
              Tabs!Loaded, Tabs!measure
<1>2. CASE Tabs!HighlightNext
  <2>1. LoaderInv'
    BY <1>2, Codes DEF Tabs!HighlightNext, TabsInv, LoaderInv
  <2>2. QED
    BY <1>2, <2>1 DEF Tabs!HighlightNext, TabsInv, PanelsInv, EffectsInv, HeightInv,
                      Tabs!Loaded, Tabs!measure
<1>3. CASE Tabs!SetHighlighted
  <2>1. Tabs!ToSet(newHighlighted) = Tabs!Code
    <3>1. /\ DOMAIN newHighlighted = 1..Len(codes)
          /\ \A i \in 1..Len(codes) : newHighlighted[i] = codes[i]
      BY <1>3, Codes DEF Tabs!SetHighlighted, TabsInv, LoaderInv
    <3>2. QED
      BY <3>1, Codes DEF Tabs!ToSet
  <2>2. QED
    BY <1>3, <2>1, SomePanels DEF Tabs!SetHighlighted
<1>4. CASE Tabs!LoadFails
  BY <1>4, SomePanels DEF Tabs!LoadFails
<1>5. QED
  BY <1>1, <1>2, <1>3, <1>4 DEF Tabs!Loading

\* A click makes effects due, unless the code was selected already.
LEMMA SelectKeeps ==
  ASSUME TabsInv, Tabs!SelectSome
  PROVE  TabsInv'
<1>1. PICK c \in Tabs!Code : Tabs!Select(c)
  BY DEF Tabs!SelectSome
<1>2. QED
  BY <1>1 DEF Tabs!Select, TabsInv, PanelsInv, LoaderInv, EffectsInv, HeightInv,
              Tabs!Loaded, Tabs!measure

\* Effects bring the bar and the observer to the selected code; a frame sets
\* what was asked for, and asks for the height of the panel observed now.
LEMMA DrawingKeeps ==
  ASSUME TabsInv, Tabs!Drawing
  PROVE  TabsInv'
<1>1. CASE Tabs!Effects
  <2>1. PanelsInv' /\ LoaderInv'
    BY <1>1 DEF Tabs!Effects, TabsInv, PanelsInv, LoaderInv, Tabs!Loaded
  <2>2. EffectsInv'
    BY <1>1, IndexOfCode, Codes DEF Tabs!Effects, Tabs!Mirror, TabsInv, EffectsInv, Tabs!Loaded
  <2>3. HeightInv'
    BY <1>1 DEF Tabs!Effects, TabsInv, HeightInv
  <2>4. QED
    BY <2>1, <2>2, <2>3 DEF TabsInv
<1>2. CASE Tabs!Frame
  <2>1. PanelsInv' /\ LoaderInv' /\ EffectsInv'
    BY <1>2 DEF Tabs!Frame, TabsInv, PanelsInv, LoaderInv, EffectsInv, Tabs!Loaded
  <2>2. frames # <<>> => Tabs!Last(frames) = frames[1]
    BY DEF TabsInv, HeightInv, Tabs!Last
  <2>3. HeightInv'
    <3>1. CASE resized
      BY <1>2, <3>1 DEF Tabs!Frame, TabsInv, HeightInv, Tabs!measure
    <3>2. CASE ~resized
      BY <1>2, <2>2, <3>2 DEF Tabs!Frame, TabsInv, HeightInv, Tabs!measure
    <3>3. QED
      BY <3>1, <3>2
  <2>4. QED
    BY <2>1, <2>3 DEF TabsInv
<1>3. QED
  BY <1>1, <1>2 DEF Tabs!Drawing

\* A panel that changes its height calls the observer, if it is the one observed.
LEMMA LayoutKeeps ==
  ASSUME TabsInv, Tabs!LayoutChanges
  PROVE  TabsInv'
<1>1. PICK heights \in [Tabs!Code -> Height] : Tabs!Layout(heights)
  BY DEF Tabs!LayoutChanges
<1>2. PanelsInv' /\ LoaderInv' /\ EffectsInv'
  BY <1>1 DEF Tabs!Layout, TabsInv, PanelsInv, LoaderInv, EffectsInv, Tabs!Loaded
<1>3. HeightInv'
  BY <1>1 DEF Tabs!Layout, TabsInv, HeightInv, Tabs!measure
<1>4. QED
  BY <1>2, <1>3 DEF TabsInv

LEMMA TabsStep == TabsInv /\ [Next]_vars => TabsInv'
<1>1. SUFFICES ASSUME TabsInv, [Next]_vars
               PROVE  TabsInv'
  OBVIOUS
<1>2. CASE UNCHANGED tabs
  BY <1>1, <1>2 DEF tabs, TabsInv, PanelsInv, LoaderInv, EffectsInv, HeightInv,
                    Tabs!Loaded, Tabs!measure
<1>3. CASE InTabs(Tabs!Loading) \/ InTabs(Tabs!Drawing)
  BY <1>1, <1>3, LoadingKeeps, DrawingKeeps DEF InTabs
<1>4. CASE InTabs(Tabs!SelectSome) \/ InTabs(Tabs!LayoutChanges)
  BY <1>1, <1>4, SelectKeeps, LayoutKeeps DEF InTabs
<1>5. QED
  BY <1>1, <1>2, <1>3, <1>4
     DEF Next, ToolStep, GuideStep, OnTool, InCopy, InFaq, vars

(* However and whenever the highlighter fails, each code gets a panel, and   *)
(* all are of one kind, for any number of codes (loadHighlightedCode).       *)
THEOREM EveryCodeHasPanelHolds == Spec => []EveryCodeHasPanel
<1>1. TabsInv => EveryCodeHasPanel
  BY DEF TabsInv, PanelsInv, EveryCodeHasPanel, Tabs!EveryCodeHasPanel
<1>2. QED
  BY <1>1, TabsInit, TabsStep, PTL DEF Spec

(* The bar lies under the trigger of the panel that is shown, unless effects *)
(* are due (Highlight).                                                      *)
THEOREM BarFollowsPanelHolds == Spec => []BarFollowsPanel
<1>1. TabsInv => BarFollowsPanel
  BY IndexOfCode
     DEF TabsInv, EffectsInv, BarFollowsPanel, Tabs!BarFollowsPanel, Tabs!BarUnder,
         Tabs!isActive, Tabs!PanelShown, Tabs!InView, Tabs!inert
<1>2. QED
  BY <1>1, TabsInit, TabsStep, PTL DEF Spec

(* Clicks, frames and changes of the layout in any order, once nothing is    *)
(* left to draw the area has the height of its panel (TabsContents).         *)
THEOREM HeightFitsHolds == Spec => []HeightFits
<1>1. TabsInv => HeightFits
  BY IndexOfCode, Codes
     DEF TabsInv, EffectsInv, HeightInv, HeightFits, Tabs!HeightFits, Tabs!measure
<1>2. QED
  BY <1>1, TabsInit, TabsStep, PTL DEF Spec

(* The check of the copy button stays only while a timeout runs that will    *)
(* remove it, however many copies overlap (handleCopy).                      *)
THEOREM CheckHasTimerHolds == Spec => []CheckHasTimer
<1>1. CopyInv => CheckHasTimer
  BY DEF CopyInv, CheckHasTimer, Copy!CheckHasTimer
<1>2. TabsInv => selectedCode \in Tabs!Code
  BY DEF TabsInv, EffectsInv
<1>3. QED
  BY <1>1, <1>2, CopyInit, CopyStep, TabsInit, TabsStep, PTL DEF Spec

-----------------------------------------------------------------------------
(* The form of the pattern tool.                                           *)

LEMMA ToolKept == \A s, S : Tool!Kept(s, S) = Kept(s, S)
  BY DEF Tool!Kept, Kept, Tool!FlattenSeq, FlattenSeq

Rows ==
    [id : Nat, tab : {"write", "suggest"}, name : Name, regex : Tool!Expression,
     sample : Sample \cup {<<>>}]

\* Rows are numbered in the order in which they were added.
RowsInv ==
    /\ customs \in Seq(Rows) /\ Len(customs) <= MaxCustoms
    /\ nextId \in 1..(MaxId + 1)
    /\ \A i \in 1..Len(customs) : customs[i].id < nextId
    /\ \A i, j \in 1..Len(customs) : i < j => customs[i].id # customs[j].id

LEMMA RowsInit == Init => RowsInv
<1> SUFFICES ASSUME Tool!Init PROVE RowsInv
  BY DEF Init
<1>1. MaxCustoms \in Nat /\ MaxId \in Nat
  BY ToolAssumption DEF Tool!ToolAssumption
<1>2. customs = <<>> /\ nextId = 1
  BY DEF Tool!Init
<1>3. QED
  BY <1>1, <1>2 DEF RowsInv

LEMMA AddRowKeeps == ASSUME RowsInv, Tool!AddRow PROVE RowsInv'
<1> DEFINE row == Tool!Row(nextId)
           n   == Len(customs)
<1>1. MaxCustoms \in Nat /\ MaxId \in Nat
  BY ToolAssumption DEF Tool!ToolAssumption
<1>2. /\ customs \in Seq(Rows) /\ n < MaxCustoms /\ nextId \in 1..(MaxId + 1) /\ nextId <= MaxId
      /\ customs' = Append(customs, row) /\ nextId' = nextId + 1
  BY DEF Tool!AddRow, RowsInv
<1>3. row \in Rows /\ row.id = nextId
  <2>1. "" \in Name /\ Tool!NoRegex \in Tool!Expression
    BY ToolAssumption DEF Tool!ToolAssumption, Tool!Expression
  <2>2. nextId \in Nat
    BY <1>1, <1>2
  <2>3. QED
    BY <2>1, <2>2 DEF Tool!Row, Rows
<1> HIDE DEF row
<1>4. /\ customs' \in Seq(Rows) /\ Len(customs') = n + 1 /\ customs'[n + 1] = row
      /\ \A i \in 1..n : customs'[i] = customs[i]
      /\ n \in Nat
  BY <1>2, <1>3
<1>5. /\ \A i \in 1..n : customs[i].id < nextId /\ customs[i].id \in Int
      /\ \A i, j \in 1..n : i < j => customs[i].id # customs[j].id
  <2>1. \A i \in 1..n : customs[i] \in Rows
    BY <1>2
  <2>2. \A i \in 1..n : customs[i].id \in Nat
    BY <2>1 DEF Rows
  <2>3. QED
    BY <2>2 DEF RowsInv
<1> HIDE DEF n
<1>6. \A i \in 1..(n + 1) : i \in 1..n \/ i = n + 1
  BY <1>4
<1>7. \A i \in 1..(n + 1) : customs'[i].id < nextId'
  BY <1>1, <1>2, <1>3, <1>4, <1>5, <1>6
<1>8. \A i, j \in 1..(n + 1) : i < j => customs'[i].id # customs'[j].id
  <2> SUFFICES ASSUME NEW i \in 1..(n + 1), NEW j \in 1..(n + 1), i < j
               PROVE  customs'[i].id # customs'[j].id
    OBVIOUS
  <2>1. i \in 1..n
    BY <1>4
  <2>2. CASE j \in 1..n
    BY <1>4, <1>5, <2>1, <2>2
  <2>3. CASE j = n + 1
    BY <1>1, <1>2, <1>3, <1>4, <1>5, <2>1, <2>3
  <2>4. QED
    BY <1>6, <2>2, <2>3
<1>9. nextId' \in 1..(MaxId + 1) /\ n + 1 <= MaxCustoms
  BY <1>1, <1>2, <1>4 DEF n
<1>10. QED
  BY <1>4, <1>7, <1>8, <1>9 DEF RowsInv

LEMMA RemoveRowKeeps == ASSUME RowsInv, NEW id, Tool!RemoveRow(id) PROVE RowsInv'
<1> DEFINE S == {c \in Tool!ToSet(customs) : c.id # id}
<1>1. customs \in Seq(Rows) /\ customs' = Kept(customs, S) /\ nextId' = nextId
  BY ToolKept DEF Tool!RemoveRow, RowsInv
<1> HIDE DEF S
<1>2. customs' \in Seq(Rows) /\ TakenFrom(customs', customs, Len(customs))
  <2>1. Kept(customs, S) \in Seq(Rows \cap S)
    BY <1>1, KeptIsSeq
  <2>2. Kept(customs, S) \in Seq(Rows)
    BY <2>1
  <2>3. TakenFrom(Kept(customs, S), customs, Len(customs))
    BY <1>1, KeptInOrder
  <2>4. QED
    BY <1>1, <2>2, <2>3
<1>3. Len(customs') <= Len(customs) /\ Len(customs) \in Nat /\ Len(customs') \in Nat
  BY <1>1, <1>2 DEF TakenFrom
<1>4. Len(customs') <= MaxCustoms
  <2>1. MaxCustoms \in Nat /\ Len(customs) <= MaxCustoms
    BY ToolAssumption DEF Tool!ToolAssumption, RowsInv
  <2>2. QED
    BY <1>3, <2>1
<1>5. \A i \in 1..Len(customs') : customs'[i].id < nextId'
  BY <1>1, <1>2 DEF TakenFrom, RowsInv
<1>6. ASSUME NEW i \in 1..Len(customs'), NEW j \in 1..Len(customs'), i < j
      PROVE  customs'[i].id # customs'[j].id
  <2>1. PICK p, q \in 1..Len(customs) :
           p < q /\ customs'[i] = customs[p] /\ customs'[j] = customs[q]
    BY <1>2, <1>6 DEF TakenFrom
  <2>2. QED
    BY <2>1 DEF RowsInv
<1>7. QED
  BY <1>1, <1>2, <1>4, <1>5, <1>6 DEF RowsInv

\* An edit leaves the numbers of the rows alone.
LEMMA UpdateKeeps ==
  ASSUME RowsInv, NEW id, NEW key, NEW x, Tool!updateCustom(id, key, x),
         \A r \in Rows : [r EXCEPT ![key] = x] \in Rows /\ [r EXCEPT ![key] = x].id = r.id
  PROVE  RowsInv'
<1> DEFINE n == Len(customs)
<1>1. customs \in Seq(Rows) /\ n \in Nat /\ DOMAIN customs = 1..n /\ \A i \in 1..n : customs[i] \in Rows
  BY DEF RowsInv
<1>2. /\ customs' = [i \in 1..n |-> IF customs[i].id = id THEN [customs[i] EXCEPT ![key] = x]
                                                          ELSE customs[i]]
      /\ nextId' = nextId
  BY <1>1 DEF Tool!updateCustom
<1> HIDE DEF n
<1>3. \A i \in 1..n : customs'[i] \in Rows /\ customs'[i].id = customs[i].id
  BY <1>1, <1>2
<1>4. customs' \in Seq(Rows) /\ Len(customs') = n
  <2>1. customs' = [i \in 1..n |-> customs'[i]]
    BY <1>2
  <2>2. customs' \in [1..n -> Rows]
    BY <1>3, <2>1
  <2>3. QED
    BY <1>1, <2>2
<1>5. QED
  BY <1>2, <1>3, <1>4 DEF RowsInv, n

\* What is suggested for a sample of the user's is an expression that can come up.
LEMMA SuggestedExpression ==
  \A s \in Sample \cup {<<>>} : Tool!suggestRegex(s) \in Tool!Expression
  BY DEF Tool!Expression

LEMMA RowsStep == RowsInv /\ [Next]_vars => RowsInv'
<1> SUFFICES ASSUME RowsInv, [Next]_vars PROVE RowsInv'
  OBVIOUS
<1>1. CASE UNCHANGED <<customs, nextId>>
  BY <1>1 DEF RowsInv
<1>2. CASE Tool!AddRow
  BY <1>2, AddRowKeeps
<1>3. CASE Tool!RemoveSome
  BY <1>3, RemoveRowKeeps DEF Tool!RemoveSome
<1>4. \A c \in Tool!ToSet(customs) : c \in Rows
  BY DEF RowsInv, Tool!ToSet
<1>5. CASE Tool!SetSomeTab
  <2>1. PICK c \in Tool!ToSet(customs), x \in {"write", "suggest"} :
           Tool!updateCustom(c.id, "tab", x)
    BY <1>5 DEF Tool!SetSomeTab, Tool!SetTab
  <2>2. \A r \in Rows : [r EXCEPT !["tab"] = x] \in Rows /\ [r EXCEPT !["tab"] = x].id = r.id
    BY DEF Rows
  <2>3. QED
    BY <2>1, <2>2, UpdateKeeps
<1>6. CASE Tool!SetSomeName
  <2>1. PICK c \in Tool!ToSet(customs), x \in Name : Tool!updateCustom(c.id, "name", x)
    BY <1>6 DEF Tool!SetSomeName, Tool!SetName
  <2>2. \A r \in Rows : [r EXCEPT !["name"] = x] \in Rows /\ [r EXCEPT !["name"] = x].id = r.id
    BY DEF Rows
  <2>3. QED
    BY <2>1, <2>2, UpdateKeeps
<1>7. CASE Tool!SetSomeRegex \/ Tool!SuggestSome
  <2>1. PICK c \in Tool!ToSet(customs), x \in Tool!Expression :
           Tool!updateCustom(c.id, "regex", x)
    <3>1. CASE Tool!SetSomeRegex
      BY <3>1 DEF Tool!SetSomeRegex, Tool!SetRegex, Tool!Expression
    <3>2. CASE Tool!SuggestSome
      <4>1. PICK c \in Tool!ToSet(customs) : Tool!Suggest(c)
        BY <3>2 DEF Tool!SuggestSome
      <4>2. c.sample \in Sample \cup {<<>>}
        BY <1>4, <4>1 DEF Rows
      <4>3. QED
        BY <4>1, <4>2, SuggestedExpression DEF Tool!Suggest
    <3>3. QED
      BY <1>7, <3>1, <3>2
  <2>2. \A r \in Rows : [r EXCEPT !["regex"] = x] \in Rows /\ [r EXCEPT !["regex"] = x].id = r.id
    BY DEF Rows
  <2>3. QED
    BY <2>1, <2>2, UpdateKeeps
<1>8. CASE Tool!SetSomeSample
  <2>1. PICK c \in Tool!ToSet(customs), x \in Sample : Tool!updateCustom(c.id, "sample", x)
    BY <1>8 DEF Tool!SetSomeSample, Tool!SetSample
  <2>2. \A r \in Rows : [r EXCEPT !["sample"] = x] \in Rows /\ [r EXCEPT !["sample"] = x].id = r.id
    BY DEF Rows
  <2>3. QED
    BY <2>1, <2>2, UpdateKeeps
<1>9. CASE Tool!ToggleSome \/ Tool!ExportAs \/ Tool!NameNamespace \/ Tool!PasteLog
  BY <1>1, <1>9
     DEF Tool!ToggleSome, Tool!ToggleBuiltin, Tool!ExportAs, Tool!SetTarget, Tool!NameNamespace,
         Tool!SetNamespace, Tool!PasteLog, Tool!SetSampleLog
<1>10. CASE UNCHANGED tool
  BY <1>1, <1>10 DEF tool
<1>11. QED
  BY <1>2, <1>3, <1>5, <1>6, <1>7, <1>8, <1>9, <1>10
     DEF Next, ToolStep, GuideStep, OnTool, InTabs, InCopy, InFaq, vars

(* However rows are added, edited and removed, no two have one number, and  *)
(* the next one is new: an edit and the cross reach no row but their own    *)
(* (updateCustom, setNextId).  For any number of rows.                      *)
THEOREM RowsDistinctHolds == Spec => []RowsDistinct
<1>1. RowsInv => RowsDistinct
  <2> SUFFICES ASSUME RowsInv PROVE RowsDistinct
    OBVIOUS
  <2>1. DOMAIN customs = 1..Len(customs) /\ Len(customs) \in Nat
    BY DEF RowsInv
  <2>2. ASSUME NEW i \in 1..Len(customs), NEW j \in 1..Len(customs), customs[i].id = customs[j].id
        PROVE  i = j
    <3>1. ~(i < j) /\ ~(j < i)
      BY <2>2 DEF RowsInv
    <3>2. QED
      BY <3>1
  <2>3. QED
    BY <2>1, <2>2 DEF RowsInv, RowsDistinct, Tool!RowsDistinct
<1>2. QED
  BY <1>1, RowsInit, RowsStep, PTL DEF Spec

-----------------------------------------------------------------------------
(* The type invariant.                                                     *)

TypeInv ==
    /\ page \in {"tool", "guide"}
    /\ builtinChecked \subseteq {b.name : b \in Tool!ToSet(BUILTINS)}
    /\ target \in {"policy", "annotation"}
    /\ isCopied \in BOOLEAN /\ Len(writing) + timers <= MaxPending
    /\ loader \in {"import", "highlight", "done"}
    /\ activeValue \in Tabs!Code
    /\ height \in Height \cup {0}
    /\ \A i \in DOMAIN frames : frames[i] \in Height
    /\ resized => observed # 0
    /\ due \in BOOLEAN

LEMMA TypeInit == Init => TypeInv
<1> SUFFICES ASSUME Init PROVE TypeInv
  OBVIOUS
<1>1. MaxPending \in Nat
  BY GuideAssumption DEF Copy!CopyAssumption
<1>2. Len(writing) + timers <= MaxPending
  BY <1>1 DEF Init, Copy!Init
<1>3. codes[1] \in Tabs!Code
  BY Codes
<1>4. /\ builtinChecked \subseteq {b.name : b \in Tool!ToSet(BUILTINS)}
      /\ target \in {"policy", "annotation"}
  BY DEF Init, Tool!Init
<1>5. /\ loader \in {"import", "highlight", "done"} /\ activeValue \in Tabs!Code
      /\ height \in Height \cup {0} /\ ~resized /\ \A i \in DOMAIN frames : frames[i] \in Height
  BY <1>3 DEF Init, Tabs!Init
<1>6. page \in {"tool", "guide"} /\ isCopied \in BOOLEAN /\ due \in BOOLEAN
  BY DEF Init, Copy!Init, Faq!Init
<1>7. QED
  BY <1>2, <1>4, <1>5, <1>6 DEF TypeInv

LEMMA TypeStep == TypeInv /\ CopyInv /\ TabsInv /\ [Next]_vars => TypeInv'
<1> SUFFICES ASSUME TypeInv, CopyInv, TabsInv, [Next]_vars PROVE TypeInv'
  OBVIOUS
<1> DEFINE FormType == /\ builtinChecked \subseteq {b.name : b \in Tool!ToSet(BUILTINS)}
                       /\ target \in {"policy", "annotation"}
           CopyType == isCopied \in BOOLEAN /\ Len(writing) + timers <= MaxPending
           TabsType == /\ loader \in {"import", "highlight", "done"}
                       /\ activeValue \in Tabs!Code
                       /\ height \in Height \cup {0}
                       /\ \A i \in DOMAIN frames : frames[i] \in Height
                       /\ resized => observed # 0
<1>1. FormType'
  <2>1. CASE Tool!ToggleSome
    BY <2>1 DEF Tool!ToggleSome, Tool!ToggleBuiltin, TypeInv
  <2>2. CASE UNCHANGED <<builtinChecked, target>>
    BY <2>2 DEF TypeInv
  <2>3. CASE Tool!AddRow \/ Tool!RemoveSome \/ Tool!NameNamespace \/ Tool!PasteLog
    BY <2>2, <2>3 DEF Tool!AddRow, Tool!RemoveSome, Tool!RemoveRow, Tool!NameNamespace,
                      Tool!SetNamespace, Tool!PasteLog, Tool!SetSampleLog
  <2>4. CASE \/ Tool!SetSomeTab \/ Tool!SetSomeName \/ Tool!SetSomeRegex
             \/ Tool!SetSomeSample \/ Tool!SuggestSome
    BY <2>2, <2>4 DEF Tool!SetSomeTab, Tool!SetTab, Tool!SetSomeName, Tool!SetName,
                      Tool!SetSomeRegex, Tool!SetRegex, Tool!SetSomeSample, Tool!SetSample,
                      Tool!SuggestSome, Tool!Suggest, Tool!updateCustom
  <2>5. CASE Tool!ExportAs
    BY <2>5 DEF Tool!ExportAs, Tool!SetTarget, TypeInv
  <2>6. CASE UNCHANGED tool
    BY <2>2, <2>6 DEF tool
  <2>7. QED
    BY <2>1, <2>3, <2>4, <2>5, <2>6
       DEF Next, ToolStep, GuideStep, OnTool, InTabs, InCopy, InFaq, vars
<1>2. CopyType'
  <2>1. /\ MaxPending \in Nat /\ timers \in Nat /\ writing \in Seq(Tabs!Code)
        /\ Len(writing) + timers <= MaxPending
    BY GuideAssumption DEF Copy!CopyAssumption, CopyInv, TypeInv
  <2>2. CASE InCopy(ClickCopy)
    BY <2>1, <2>2 DEF InCopy, ClickCopy, Copy!handleCopy, TypeInv
  <2>3. CASE InCopy(Copy!Finish)
    <3>1. PICK i \in DOMAIN writing : Copy!Written(i) \/ Copy!Denied(i)
      BY <2>3 DEF InCopy, Copy!Finish
    <3>2. Len(Copy!RemoveAt(writing, i)) + 1 = Len(writing)
      BY <2>1, <3>1, RemovedLength
    <3>3. isCopied' \in BOOLEAN /\ timers' <= timers + 1 /\ timers' \in Nat
          /\ writing' = Copy!RemoveAt(writing, i)
      <4>1. CASE Copy!Written(i)
        BY <2>1, <4>1 DEF Copy!Written
      <4>2. CASE Copy!Denied(i)
        BY <2>1, <4>2 DEF Copy!Denied, TypeInv
      <4>3. QED
        BY <3>1, <4>1, <4>2
    <3> DEFINE n == Len(writing)
               k == Len(writing')
               m == timers'
    <3>4. /\ k + 1 = n /\ n \in Nat /\ k \in Nat /\ n + timers <= MaxPending
          /\ m \in Nat /\ m <= timers + 1 /\ timers \in Nat /\ MaxPending \in Nat
      BY <2>1, <3>1, <3>2, <3>3, RemovedOne
    <3> HIDE DEF n, k, m
    <3>5. k + m <= MaxPending
      BY <3>4
    <3>6. QED
      BY <3>3, <3>5 DEF k, m
  <2>4. CASE InCopy(Copy!Expire)
    <3> DEFINE n == Len(writing)
    <3>1. n \in Nat /\ n + timers <= MaxPending
      BY <2>1
    <3>2. timers' = timers - 1 /\ isCopied' = FALSE /\ writing' = writing
      BY <2>4 DEF InCopy, Copy!Expire
    <3> HIDE DEF n
    <3>3. n + timers' <= MaxPending
      BY <2>1, <3>1, <3>2
    <3>4. QED
      BY <3>2, <3>3 DEF n
  <2>5. CASE UNCHANGED copy
    BY <2>5 DEF copy, TypeInv
  <2>6. QED
    BY <2>2, <2>3, <2>4, <2>5 DEF Next, ToolStep, GuideStep, OnTool, InTabs, InFaq, vars
<1>3. TabsType'
  <2>1. /\ \A i \in 1..Len(codes) : Tabs!measure(i) \in Height
        /\ \A c \in Tabs!Code : Tabs!measure(Tabs!activeIndex(c)) \in Height
    BY Codes, IndexOfCode DEF TabsInv, HeightInv, Tabs!measure
  <2>2. selectedCode \in Tabs!Code
    BY DEF TabsInv, EffectsInv
  <2>3. CASE Tabs!Loading
    <3>1. CASE Tabs!ImportShiki \/ Tabs!HighlightNext
      BY <3>1 DEF Tabs!ImportShiki, Tabs!HighlightNext, TypeInv
    <3>2. ASSUME NEW panels, Tabs!SetPanels(panels) PROVE TabsType'
      BY <2>1, <2>2, <3>2 DEF Tabs!SetPanels, Tabs!MeasuredFirst, TypeInv
    <3>3. QED
      BY <2>3, <3>1, <3>2 DEF Tabs!Loading, Tabs!SetHighlighted, Tabs!LoadFails
  <2>4. CASE Tabs!SelectSome \/ Tabs!LayoutChanges
    <3>1. CASE Tabs!SelectSome
      BY <3>1 DEF Tabs!SelectSome, Tabs!Select, TypeInv
    <3>2. CASE Tabs!LayoutChanges
      <4>1. PICK heights : Tabs!Layout(heights)
        BY <3>2 DEF Tabs!LayoutChanges
      <4>2. resized' => observed' # 0
        BY <4>1 DEF Tabs!Layout, TypeInv
      <4>3. UNCHANGED <<loader, activeValue, height, frames>>
        BY <4>1 DEF Tabs!Layout
      <4>4. QED
        BY <4>2, <4>3 DEF TypeInv
    <3>3. QED
      BY <2>4, <3>1, <3>2
  <2>5. CASE Tabs!Effects
    <3>1. observed' \in 1..Len(codes) /\ height' \in Height /\ activeValue' \in Tabs!Code
      BY <2>1, <2>2, <2>5, IndexOfCode DEF Tabs!Effects, Tabs!Mirror
    <3>2. UNCHANGED <<loader, frames>>
      BY <2>5 DEF Tabs!Effects
    <3>3. QED
      BY <3>1, <3>2, Codes DEF TypeInv
  <2>6. CASE Tabs!Frame
    <3>1. frames # <<>> => Tabs!Last(frames) \in Height
      BY DEF TabsInv, HeightInv, TypeInv, Tabs!Last
    <3>2. QED
      BY <2>1, <2>6, <3>1 DEF Tabs!Frame, TypeInv, TabsInv, EffectsInv
  <2>7. CASE UNCHANGED tabs
    BY <2>7 DEF tabs, TypeInv
  <2>8. QED
    BY <2>3, <2>4, <2>5, <2>6, <2>7
       DEF Next, ToolStep, GuideStep, OnTool, InTabs, InCopy, InFaq, Tabs!Drawing, vars
<1>4. page' \in {"tool", "guide"} /\ due' \in BOOLEAN
  <2>1. page' = page
    BY DEF Next, ToolStep, GuideStep, OnTool, InTabs, InCopy, InFaq, vars
  <2>2. CASE Faq!ToggleSome \/ Faq!ItemEffects
    BY <2>1, <2>2 DEF Faq!ToggleSome, Faq!Toggle, Faq!ItemEffects, TypeInv
  <2>3. CASE UNCHANGED accordion
    BY <2>1, <2>3 DEF accordion, TypeInv
  <2>4. QED
    BY <2>2, <2>3 DEF Next, ToolStep, GuideStep, OnTool, InTabs, InCopy, InFaq, vars
<1>5. QED
  BY <1>1, <1>2, <1>3, <1>4 DEF TypeInv

(* Whatever is clicked, typed, loaded or drawn on either page: the rows are *)
(* within their bound and hold what can be typed or suggested, the codes    *)
(* highlighted so far are the first of the guide, in order, the area of the *)
(* panels has the height of one of them, and no two frames set it           *)
(* (PatternTool, handleCopy, loadHighlightedCode, TabsContents).            *)
THEOREM TypeCorrect == Spec => []TypeOK
<1>1. ASSUME TypeInv, RowsInv, CopyInv, TabsInv, AccordionInv
      PROVE  TypeOK
  <2>1. Tool!FormOK
    <3>1. \A i \in DOMAIN customs : customs[i] \in Rows
      BY <1>1 DEF RowsInv
    <3>2. QED
      BY <1>1, <3>1 DEF Rows, RowsInv, TypeInv, Tool!FormOK
  <2>2. Copy!CopyOK
    BY <1>1 DEF CopyInv, TypeInv, Copy!CopyOK
  <2>3. Tabs!TabsOK
    <3>1. Tabs!IsPrefix(newHighlighted, codes)
      BY <1>1, Codes DEF TabsInv, LoaderInv, Tabs!IsPrefix
    <3>2. DOMAIN highlightedCodes \in {{}, Tabs!Code}
      <4>1. CASE Tabs!Loaded
        BY <1>1, <4>1 DEF TabsInv, PanelsInv
      <4>2. CASE ~Tabs!Loaded
        BY <4>2 DEF Tabs!Loaded, Tabs!NoPanels
      <4>3. QED
        BY <4>1, <4>2
    <3>3. Len(frames) <= 1
      <4>1. \A h : Len(<<h>>) = 1
        OBVIOUS
      <4>2. frames = <<>> \/ \E h : frames = <<h>>
        BY <1>1 DEF TabsInv, HeightInv
      <4>3. QED
        BY <4>1, <4>2
    <3>4. QED
      BY <1>1, <3>1, <3>2, <3>3 DEF TypeInv, TabsInv, EffectsInv, Tabs!TabsOK
  <2>4. Faq!AccordionOK
    BY <1>1 DEF AccordionInv, TypeInv, Faq!AccordionOK
  <2>5. QED
    BY <1>1, <2>1, <2>2, <2>3, <2>4 DEF TypeInv, TypeOK
<1>2. TabsInv => selectedCode \in Tabs!Code
  BY DEF TabsInv, EffectsInv
<1>3. Spec => [](RowsInv /\ TabsInv /\ AccordionInv)
  BY RowsInit, RowsStep, TabsInit, TabsStep, AccordionInit, AccordionStep, PTL DEF Spec
<1>4. Spec => []CopyInv
  BY <1>2, <1>3, CopyInit, CopyStep, PTL DEF Spec
<1>5. Spec => []TypeInv
  BY <1>3, <1>4, TypeInit, TypeStep, PTL DEF Spec
<1>6. QED
  BY <1>1, <1>3, <1>4, <1>5, PTL

-----------------------------------------------------------------------------
(* Suggestions.                                                            *)

LEMMA ToolMatch ==
  /\ Tool!Token = Token
  /\ \A re : Tool!MatchesEmpty(re) = MatchesEmpty(re)
  /\ \A t, i, re : Tool!MatchEnd(t, i, re) = MatchEnd(t, i, re)
<1>1. Tool!Token = Token
  BY DEF Tool!Token, Token
<1>2. \A re : Tool!MatchesEmpty(re) = MatchesEmpty(re)
  BY DEF Tool!MatchesEmpty, MatchesEmpty
<1>3. \A t, i, re : Tool!MatchEnd(t, i, re) = MatchEnd(t, i, re)
  BY DEF Tool!MatchEnd, MatchEnd, Tool!Ends, Ends, Tool!WordEdge, WordEdge, Tool!Max, Max
<1>4. QED
  BY <1>1, <1>2, <1>3

LEMMA OneEnds ==
  ASSUME NEW X, NEW t \in Seq(X), NEW p \in 1..Len(t), NEW tok \in Token,
         tok.rep = "one", t[p].sym \in tok.chars
  PROVE  p + 1 \in Ends(t, p, tok) /\ \A q \in Ends(t, p, tok) : q <= p + 1
  BY DEF Ends

LEMMA RunEnds ==
  ASSUME NEW X, NEW t \in Seq(X), NEW p \in 1..Len(t), NEW e \in (p + 1)..(Len(t) + 1),
         NEW tok \in Token, tok.rep = "plus", \A m \in p..(e - 1) : t[m].sym \in tok.chars,
         e = Len(t) + 1 \/ t[e].sym \notin tok.chars
  PROVE  e \in Ends(t, p, tok) /\ \A q \in Ends(t, p, tok) : q <= e
<1> DEFINE n == Len(t)
<1>1. n \in Nat /\ p \in 1..n /\ e \in (p + 1)..(n + 1)
  OBVIOUS
<1>2. Ends(t, p, tok) = {q \in (p + 1)..(n + 1) : q <= p + n /\ \A m \in p..(q - 1) : t[m].sym \in tok.chars}
  BY DEF Ends
<1> HIDE DEF n
<1>3. e \in Ends(t, p, tok)
  BY <1>1, <1>2
<1>4. ASSUME NEW q \in Ends(t, p, tok), e < q PROVE FALSE
  <2>1. q \in (p + 1)..(n + 1) /\ \A m \in p..(q - 1) : t[m].sym \in tok.chars
    BY <1>2
  <2>2. e # n + 1 /\ e \in p..(q - 1)
    BY <1>1, <1>4, <2>1
  <2>3. QED
    BY <2>1, <2>2 DEF n
<1>5. \A q \in Ends(t, p, tok) : q \in Int
  BY <1>1, <1>2
<1>6. QED
  BY <1>1, <1>3, <1>4, <1>5

\* The least and the greatest of some places in a text.
LEMMA Extremes ==
  ASSUME NEW n \in Nat, NEW S \in SUBSET (1..n), S # {}
  PROVE  Tool!Min(S) \in S /\ Tool!Max(S) \in S /\ \A i \in S : Tool!Min(S) <= i
<1>1. S \in SUBSET Nat /\ S \in SUBSET (0..n)
  OBVIOUS
<1>2. PICK x \in S : \A y \in S : x <= y
  BY <1>1, LeastNumber
<1>3. Tool!Min(S) \in S /\ \A i \in S : Tool!Min(S) <= i
  BY <1>2 DEF Tool!Min
<1>4. Tool!Max(S) = Max(S)
  BY DEF Tool!Max, Max
<1>5. Max(S) \in S
  BY <1>1, MaxElement
<1>6. QED
  BY <1>3, <1>4, <1>5

LEMMA TrimTyped == ASSUME NEW T, NEW s \in Seq(T) PROVE Tool!trim(s) \in Seq(T)
<1> DEFINE n    == Len(s)
           kept == {i \in DOMAIN s : s[i] # " "}
           a    == Tool!Min(kept)
           b    == Tool!Max(kept)
<1>1. n \in Nat /\ DOMAIN s = 1..n
  OBVIOUS
<1>2. kept \in SUBSET (1..n)
  BY <1>1
<1>3. Tool!trim(s) = IF kept = {} THEN <<>> ELSE SubSeq(s, a, b)
  BY DEF Tool!trim
<1> HIDE DEF kept
<1>4. kept # {} => a \in 1..n /\ b \in 1..n
  BY <1>1, <1>2, Extremes
<1> HIDE DEF a, b
<1>5. kept # {} => SubSeq(s, a, b) \in Seq(T)
  BY <1>4
<1>6. <<>> \in Seq(T)
  OBVIOUS
<1>7. QED
  BY <1>3, <1>5, <1>6

\* The text s, symbol by symbol.
Cells(s) == [p \in DOMAIN s |-> [sym |-> s[p]]]

LEMMA CellsTyped ==
  ASSUME NEW s \in Seq(STRING)
  PROVE  /\ Cells(s) \in Seq([sym : STRING]) /\ Len(Cells(s)) = Len(s)
         /\ \A p \in 1..Len(s) : Cells(s)[p].sym = s[p]
<1>1. Cells(s) \in [1..Len(s) -> [sym : STRING]] /\ Len(s) \in Nat
  BY DEF Cells
<1>2. QED
  BY <1>1, SequenceOf DEF Cells

\* The tokens re match all of s.
Whole(s, re) == re \in Seq(Token) /\ re # <<>> /\ MatchEnd(Cells(s), 1, re) = Len(s) + 1

\* Tokens of one symbol each.
LEMMA EachOne ==
  ASSUME NEW s \in Seq(STRING), s # <<>>, NEW re \in [1..Len(s) -> Token],
         \A i \in 1..Len(s) : re[i].rep = "one" /\ s[i] \in re[i].chars
  PROVE  Whole(s, re)
<1> DEFINE n == Len(s)
           t == Cells(s)
           c == [k \in 1..(n + 1) |-> k]
<1>1. t \in Seq([sym : STRING]) /\ Len(t) = n /\ \A p \in 1..n : t[p].sym = s[p]
  BY CellsTyped
<1>2. n \in Nat /\ re \in Seq(Token) /\ Len(re) = n
  BY SequenceOf
<1>3. 1 \in 1..(n + 1) /\ n + 1 \in 1..(n + 1) /\ n # 0
  <2>1. n # 0
    OBVIOUS
  <2>2. QED
    BY <1>2, <2>1
<1> HIDE DEF t
<1>4. ASSUME NEW k \in 1..n
      PROVE  c[k + 1] \in Ends(t, c[k], re[k]) /\ \A q \in Ends(t, c[k], re[k]) : q <= c[k + 1]
  <2>1. c[k] = k /\ c[k + 1] = k + 1
    BY <1>2
  <2>2. k + 1 \in Ends(t, k, re[k]) /\ \A q \in Ends(t, k, re[k]) : q <= k + 1
    BY <1>1, <1>2, OneEnds
  <2>3. QED
    BY <2>1, <2>2
<1>5. c \in [1..(n + 1) -> 1..(n + 1)] /\ c[1] = 1 /\ c[n + 1] = n + 1
  BY <1>3
<1> HIDE DEF n, c
<1>6. MatchEnd(t, c[1], re) = c[Len(re) + 1]
  BY <1>1, <1>2, <1>4, <1>5, TightMatch
<1>7. QED
  BY <1>2, <1>3, <1>5, <1>6 DEF Whole, n, t

\* Tokens of one symbol each for a prefix of k symbols, and one for all the rest.
LEMMA PrefixAndRest ==
  ASSUME NEW s \in Seq(STRING), NEW k \in 1..(Len(s) - 1), NEW re \in [1..(k + 1) -> Token],
         \A i \in 1..k : re[i].rep = "one" /\ s[i] \in re[i].chars,
         re[k + 1].rep = "plus", \A i \in (k + 1)..Len(s) : s[i] \in re[k + 1].chars
  PROVE  Whole(s, re)
<1> DEFINE n == Len(s)
           t == Cells(s)
           c == [j \in 1..(k + 2) |-> IF j = k + 2 THEN n + 1 ELSE j]
<1>1. t \in Seq([sym : STRING]) /\ Len(t) = n /\ \A p \in 1..n : t[p].sym = s[p]
  BY CellsTyped
<1>2. n \in Nat /\ k \in 1..(n - 1) /\ k + 1 \in Nat /\ re \in Seq(Token) /\ Len(re) = k + 1
  BY SequenceOf
<1>3. re # <<>>
  BY <1>2
<1> HIDE DEF t, n
<1>4. ASSUME NEW j \in 1..(k + 1)
      PROVE  c[j + 1] \in Ends(t, c[j], re[j]) /\ \A q \in Ends(t, c[j], re[j]) : q <= c[j + 1]
  <2>1. c[j] = j /\ j \in 1..n /\ j \in 1..Len(t) /\ re[j] \in Token
    BY <1>1, <1>2
  <2>2. CASE j = k + 1
    <3>1. c[j + 1] = n + 1
      BY <1>2, <2>2
    <3>2. \A m \in j..((n + 1) - 1) : m \in (k + 1)..n /\ m \in 1..n
      BY <1>2, <2>2
    <3>3. \A m \in j..((n + 1) - 1) : t[m].sym \in re[j].chars
      BY <1>1, <2>2, <3>2 DEF n
    <3>4. n + 1 \in (j + 1)..(Len(t) + 1) /\ n + 1 = Len(t) + 1 /\ re[j].rep = "plus"
      BY <1>1, <1>2, <2>1, <2>2
    <3>5. n + 1 \in Ends(t, j, re[j]) /\ \A q \in Ends(t, j, re[j]) : q <= n + 1
      BY <1>1, <2>1, <3>3, <3>4, RunEnds
    <3>6. QED
      BY <2>1, <3>1, <3>5
  <2>3. CASE j # k + 1
    <3>1. c[j + 1] = j + 1 /\ j \in 1..k
      BY <1>2, <2>3
    <3>2. j + 1 \in Ends(t, j, re[j]) /\ \A q \in Ends(t, j, re[j]) : q <= j + 1
      BY <1>1, <2>1, <3>1, OneEnds
    <3>3. QED
      BY <2>1, <3>1, <3>2
  <2>4. QED
    BY <2>2, <2>3
<1>5. /\ c \in [1..((k + 1) + 1) -> 1..(n + 1)] /\ c[1] = 1 /\ c[(k + 1) + 1] = n + 1
  BY <1>2
<1> HIDE DEF c
<1>6. /\ c \in [1..(Len(re) + 1) -> 1..(Len(t) + 1)]
      /\ \A j \in 1..Len(re) : /\ c[j + 1] \in Ends(t, c[j], re[j])
                              /\ \A q \in Ends(t, c[j], re[j]) : q <= c[j + 1]
  <2>1. Len(re) = k + 1 /\ Len(t) = n
    BY <1>1, <1>2
  <2>2. QED
    BY <1>4, <1>5, <2>1
<1>7. MatchEnd(t, c[1], re) = c[Len(re) + 1]
  <2>1. t \in Seq([sym : STRING]) /\ re \in Seq(Token)
    BY <1>1, <1>2
  <2>2. QED
    BY <1>6, <2>1, TightMatch
<1>8. c[Len(re) + 1] = n + 1
  BY <1>2, <1>5
<1>9. QED
  BY <1>2, <1>3, <1>5, <1>7, <1>8 DEF Whole, n, t

\* What stands for the i-th symbol of s when s is generalised.
Piece(s, i) ==
    IF s[i] \in Special THEN <<Tool!Escaped(Tool!Class({s[i]}, "one"))>>
    ELSE IF s[i] \notin Tool!Alnum THEN <<Tool!Class({s[i]}, "one")>>
    ELSE IF i > 1 /\ s[i - 1] \in Tool!Alnum THEN <<>>
    ELSE <<Tool!Class(Tool!Alnum, "plus")>>

LEMMA PieceTyped ==
  ASSUME NEW s \in Seq(STRING), NEW i \in 1..Len(s)
  PROVE  /\ Piece(s, i) \in Seq(Token) /\ Len(Piece(s, i)) <= 1
         /\ Piece(s, i) = <<>> => i > 1 /\ s[i - 1] \in Tool!Alnum /\ s[i] \in Tool!Alnum
         /\ Piece(s, i) # <<>> =>
               \/ /\ Piece(s, i)[1].rep = "one" /\ s[i] \in Piece(s, i)[1].chars
                  /\ s[i] \notin Tool!Alnum
               \/ /\ Piece(s, i)[1].rep = "plus" /\ Piece(s, i)[1].chars = Tool!Alnum
                  /\ s[i] \in Tool!Alnum /\ ~(i > 1 /\ s[i - 1] \in Tool!Alnum)
<1>1. s[i] \in STRING /\ Tool!Alnum \subseteq STRING /\ \A x \in Special : x \notin Tool!Alnum
  <2>1. /\ Letter \cup Digit \cup Separator \cup Special \subseteq STRING
        /\ Special \cap (Letter \cup Digit) = {}
    BY ToolAssumption DEF Tool!ToolAssumption
  <2>2. QED
    BY <2>1 DEF Tool!Alnum
<1>2. \A cs \in SUBSET STRING, r \in {"one", "plus"} :
         /\ Tool!Class(cs, r) \in Token /\ Tool!Class(cs, r).rep = r /\ Tool!Class(cs, r).chars = cs
         /\ Tool!Escaped(Tool!Class(cs, r)) \in Token /\ Tool!Escaped(Tool!Class(cs, r)).rep = r
         /\ Tool!Escaped(Tool!Class(cs, r)).chars = cs
  BY DEF Tool!Class, Tool!Escaped, Token
<1>3. {s[i]} \in SUBSET STRING /\ s[i] \in {s[i]}
  BY <1>1
<1>4. CASE s[i] \in Special
  <2> DEFINE tok == Tool!Escaped(Tool!Class({s[i]}, "one"))
  <2>1. tok \in Token /\ tok.rep = "one" /\ s[i] \in tok.chars
    BY <1>2, <1>3
  <2>2. Piece(s, i) = <<tok>>
    BY <1>4 DEF Piece
  <2> HIDE DEF tok
  <2>3. QED
    BY <1>1, <1>4, <2>1, <2>2
<1>5. CASE s[i] \notin Special /\ s[i] \notin Tool!Alnum
  <2> DEFINE tok == Tool!Class({s[i]}, "one")
  <2>1. tok \in Token /\ tok.rep = "one" /\ s[i] \in tok.chars
    BY <1>2, <1>3
  <2>2. Piece(s, i) = <<tok>>
    BY <1>5 DEF Piece
  <2> HIDE DEF tok
  <2>3. QED
    BY <1>5, <2>1, <2>2
<1>6. CASE s[i] \notin Special /\ s[i] \in Tool!Alnum
  <2> DEFINE tok == Tool!Class(Tool!Alnum, "plus")
  <2>1. tok \in Token /\ tok.rep = "plus" /\ tok.chars = Tool!Alnum
    BY <1>1, <1>2
  <2>2. Piece(s, i) = IF i > 1 /\ s[i - 1] \in Tool!Alnum THEN <<>> ELSE <<tok>>
    BY <1>6 DEF Piece
  <2> HIDE DEF tok
  <2>3. QED
    BY <1>6, <2>1, <2>2
<1>7. QED
  BY <1>4, <1>5, <1>6

\* A sample that is no number or word: what stands for its runs of letters and
\* digits and for the other symbols fits it.
LEMMA GeneralisedFits ==
  ASSUME NEW s \in Seq(STRING), s # <<>>
  PROVE  Whole(s, Tool!Generalised(s))
<1> DEFINE n  == Len(s)
           t  == Cells(s)
           f  == [i \in 1..n |-> Piece(s, i)]
           re == FlattenSeq(f)
<1>1. t \in Seq([sym : STRING]) /\ Len(t) = n /\ \A p \in 1..n : t[p].sym = s[p]
  BY CellsTyped
<1>2. n \in Nat /\ n # 0 /\ DOMAIN s = 1..n
  OBVIOUS
<1>3. /\ f \in [1..n -> Seq(Token)] /\ f \in Seq(Seq(Token)) /\ Len(f) = n
      /\ \A i \in 1..n : f[i] = Piece(s, i) /\ Len(f[i]) <= 1
  <2>1. \A i \in 1..n : Piece(s, i) \in Seq(Token) /\ Len(Piece(s, i)) <= 1
    BY PieceTyped
  <2>2. f \in [1..n -> Seq(Token)] /\ \A i \in 1..n : f[i] = Piece(s, i)
    BY <2>1
  <2> HIDE DEF f, n
  <2>3. f \in Seq(Seq(Token)) /\ Len(f) = n
    BY <1>2, <2>2, SequenceOf
  <2>4. QED
    BY <2>1, <2>2, <2>3
<1>4. Tool!Generalised(s) = re
  BY <1>2 DEF Tool!Generalised, Piece, Tool!FlattenSeq, FlattenSeq
<1> HIDE DEF f
<1>5. re \in Seq(Token)
  BY <1>3, Flattened
<1>6. PICK m \in Nat : \E at : Picked(f, n, re, m, at)
  <2>1. \A i \in 1..Len(f) : Len(f[i]) <= 1
    BY <1>3
  <2>2. QED
    BY <1>3, <2>1, FlattenPicked
<1>7. PICK at : Picked(f, n, re, m, at)
  BY <1>6
<1> HIDE DEF n, t, re
<1>8. Len(re) = m /\ at \in [1..m -> 1..n]
  <2>1. re \in [1..m -> {f[i][1] : i \in 1..n}]
    BY <1>7 DEF Picked
  <2>2. QED
    BY <1>6, <1>7, <2>1, SequenceOf DEF Picked
<1>9. \A i \in 1..n :
         /\ f[i] = <<>> => i > 1 /\ s[i - 1] \in Tool!Alnum /\ s[i] \in Tool!Alnum
         /\ f[i] # <<>> =>
               \/ f[i][1].rep = "one" /\ s[i] \in f[i][1].chars /\ s[i] \notin Tool!Alnum
               \/ /\ f[i][1].rep = "plus" /\ f[i][1].chars = Tool!Alnum
                  /\ s[i] \in Tool!Alnum /\ ~(i > 1 /\ s[i - 1] \in Tool!Alnum)
  BY <1>3, PieceTyped DEF n
<1> DEFINE c == [k \in 1..(m + 1) |-> IF k = m + 1 THEN n + 1 ELSE at[k]]
<1>10. /\ \A k \in 1..m : c[k] = at[k] /\ c[k] \in 1..n /\ c[k + 1] \in (c[k] + 1)..(n + 1)
       /\ \A k \in 1..m : c[k + 1] # n + 1 => k + 1 \in 1..m /\ c[k + 1] = at[k + 1]
       /\ c[m + 1] = n + 1
  <2>1. c[m + 1] = n + 1 /\ \A k \in 1..m : c[k] = at[k] /\ at[k] \in 1..n
    BY <1>6, <1>8
  <2>2. \A i, k \in 1..m : i < k => at[i] < at[k]
    BY <1>7 DEF Picked
  <2> HIDE DEF c
  <2>3. ASSUME NEW k \in 1..m
        PROVE  /\ c[k + 1] \in (c[k] + 1)..(n + 1)
               /\ c[k + 1] # n + 1 => k + 1 \in 1..m /\ c[k + 1] = at[k + 1]
    <3>1. CASE k = m
      BY <1>2, <2>1, <3>1
    <3>2. CASE k # m
      <4>1. k + 1 \in 1..m /\ k < k + 1
        BY <1>6, <3>2
      <4>2. at[k] < at[k + 1] /\ c[k + 1] = at[k + 1] /\ c[k] = at[k] /\ at[k] \in 1..n /\ at[k + 1] \in 1..n
        BY <2>1, <2>2, <4>1
      <4>3. QED
        BY <1>2, <4>1, <4>2
    <3>3. QED
      BY <3>1, <3>2
  <2>4. QED
    BY <2>1, <2>3
<1>11. ASSUME NEW k \in 1..m, NEW i \in (c[k] + 1)..(c[k + 1] - 1)
       PROVE  f[i] = <<>> /\ i \in 1..n
  <2>1. i \in 1..n
    <3> DEFINE lo == c[k]
               hi == c[k + 1]
    <3>1. lo \in 1..n /\ hi \in (lo + 1)..(n + 1) /\ i \in (lo + 1)..(hi - 1)
      BY <1>10, <1>11
    <3> HIDE DEF lo, hi
    <3>2. QED
      BY <1>2, <3>1
  <2>2. ASSUME f[i] # <<>> PROVE FALSE
    <3>1. PICK j \in 1..m : at[j] = i
      BY <1>7, <2>1, <2>2 DEF Picked
    <3>2. /\ at[k] < at[j] /\ at[j] < c[k + 1] /\ at[k] \in 1..n /\ at[j] \in 1..n
      BY <1>2, <1>8, <1>10, <1>11, <3>1
    <3>3. \A x, y \in 1..m : x < y => at[x] < at[y]
      BY <1>7 DEF Picked
    <3>4. ~(j < k) /\ j # k
      BY <1>2, <3>2, <3>3
    <3>5. j \in (k + 1)..m
      BY <1>6, <3>4
    <3>6. k + 1 \in 1..m /\ c[k + 1] = at[k + 1]
      BY <1>6, <1>10, <3>5
    <3>7. at[j] < at[k + 1] /\ at[k + 1] \in 1..n
      BY <1>8, <3>2, <3>6
    <3>8. ~(k + 1 < j) /\ k + 1 # j
      BY <1>2, <3>2, <3>3, <3>6, <3>7
    <3>9. QED
      BY <1>6, <3>5, <3>8
  <2>3. QED
    BY <2>1, <2>2
<1>12. 1 \in 1..m /\ c[1] = 1
  <2>1. 1 \in 1..n /\ f[1] # <<>>
    BY <1>2, <1>9
  <2>2. PICK j \in 1..m : at[j] = 1
    BY <1>7, <2>1 DEF Picked
  <2>3. 1 \in 1..m /\ at[1] \in 1..n
    BY <1>6, <1>8
  <2>4. j = 1
    <3>1. 1 < j => at[1] < at[j]
      BY <1>7, <2>3 DEF Picked
    <3>2. QED
      BY <1>2, <2>2, <2>3, <3>1
  <2>5. QED
    BY <1>10, <2>2, <2>3, <2>4
<1>13. re # <<>>
  BY <1>6, <1>8, <1>12
<1> HIDE DEF c
<1>14. ASSUME NEW k \in 1..m
       PROVE  c[k + 1] \in Ends(t, c[k], re[k]) /\ \A q \in Ends(t, c[k], re[k]) : q <= c[k + 1]
  <2> DEFINE p == c[k]
             e == c[k + 1]
             tok == re[k]
  <2>1. /\ p \in 1..n /\ e \in (p + 1)..(n + 1) /\ tok = f[p][1] /\ f[p] # <<>>
        /\ tok \in Token /\ p \in 1..Len(t)
    <3>1. p \in 1..n /\ e \in (p + 1)..(n + 1) /\ p = at[k]
      BY <1>10
    <3>2. tok = f[at[k]][1] /\ f[at[k]] # <<>>
      BY <1>7 DEF Picked
    <3>3. tok \in Token
      BY <1>5, <1>8
    <3>4. p \in 1..Len(t)
      BY <1>1, <3>1
    <3>5. QED
      BY <3>1, <3>2, <3>3, <3>4
  <2>2. \A i \in (p + 1)..(e - 1) : f[i] = <<>> /\ i \in 1..n
    BY <1>11
  <2>3. e # n + 1 => f[e] # <<>> /\ e \in 1..n
    BY <1>7, <1>8, <1>10 DEF Picked
  <2> HIDE DEF p, e, tok
  <2>4. CASE tok.rep = "one" /\ s[p] \in tok.chars /\ s[p] \notin Tool!Alnum
    <3>1. e = p + 1
      <4>1. SUFFICES ASSUME e # p + 1 PROVE FALSE
        OBVIOUS
      <4>2. p + 1 \in (p + 1)..(e - 1) /\ (p + 1) - 1 = p
        BY <1>2, <2>1, <4>1
      <4>3. f[p + 1] = <<>> /\ p + 1 \in 1..n
        BY <2>2, <4>2
      <4>4. s[p] \in Tool!Alnum
        BY <1>9, <4>2, <4>3
      <4>5. QED
        BY <2>4, <4>4
    <3>2. t[p].sym \in tok.chars
      BY <1>1, <2>1, <2>4
    <3>3. p + 1 \in Ends(t, p, tok) /\ \A q \in Ends(t, p, tok) : q <= p + 1
      BY <1>1, <2>1, <2>4, <3>2, OneEnds
    <3>4. QED
      BY <3>1, <3>3 DEF p, e, tok
  <2>5. CASE tok.rep = "plus" /\ tok.chars = Tool!Alnum /\ s[p] \in Tool!Alnum
    <3>1. \A i \in p..(e - 1) : s[i] \in Tool!Alnum /\ i \in 1..n
      <4> SUFFICES ASSUME NEW i \in p..(e - 1) PROVE s[i] \in Tool!Alnum /\ i \in 1..n
        OBVIOUS
      <4>1. i = p \/ i \in (p + 1)..(e - 1)
        BY <1>2, <2>1
      <4>2. QED
        BY <1>9, <2>1, <2>2, <2>5, <4>1
    <3>2. \A i \in p..(e - 1) : t[i].sym \in tok.chars
      BY <1>1, <2>5, <3>1
    <3>3. e = Len(t) + 1 \/ t[e].sym \notin tok.chars
      <4> SUFFICES ASSUME e # n + 1 PROVE s[e] \notin Tool!Alnum /\ e \in 1..n
        BY <1>1, <2>5
      <4>1. f[e] # <<>> /\ e \in 1..n
        BY <2>3
      <4>2. e > 1 /\ e - 1 \in p..(e - 1)
        BY <1>2, <2>1
      <4>3. s[e - 1] \in Tool!Alnum
        BY <3>1, <4>2
      <4>4. QED
        BY <1>9, <4>1, <4>2, <4>3
    <3>4. e \in (p + 1)..(Len(t) + 1)
      BY <1>1, <2>1
    <3>5. e \in Ends(t, p, tok) /\ \A q \in Ends(t, p, tok) : q <= e
      BY <1>1, <2>1, <2>5, <3>2, <3>3, <3>4, RunEnds
    <3>6. QED
      BY <3>5 DEF p, e, tok
  <2>6. QED
    BY <1>9, <2>1, <2>4, <2>5
<1>15. c \in [1..(m + 1) -> 1..(n + 1)] /\ c[m + 1] = n + 1
  BY <1>2, <1>6, <1>8 DEF c
<1>16. /\ c \in [1..(Len(re) + 1) -> 1..(Len(t) + 1)]
       /\ \A j \in 1..Len(re) : /\ c[j + 1] \in Ends(t, c[j], re[j])
                               /\ \A q \in Ends(t, c[j], re[j]) : q <= c[j + 1]
  BY <1>1, <1>8, <1>14, <1>15
<1>17. MatchEnd(t, c[1], re) = c[Len(re) + 1]
  <2>1. t \in Seq([sym : STRING]) /\ re \in Seq(Token)
    BY <1>1, <1>5
  <2>2. QED
    BY <1>16, <2>1, TightMatch
<1>18. QED
  BY <1>4, <1>5, <1>8, <1>12, <1>13, <1>15, <1>17 DEF Whole, n, t

\* Whatever the sample is like, the tokens that are suggested for it fit it.
LEMMA SuggestedFits ==
  ASSUME NEW s \in Seq(STRING), s # <<>>
  PROVE  Whole(s, Tool!Suggested(s).tokens) /\ Tool!Suggested(s).fault = "none"
<1> DEFINE n      == Len(s)
           ends   == {j \in 2..(n - 1) : /\ s[j] \in Separator
                                         /\ \A i \in DOMAIN s \ {j} : s[i] \in Tool!Alnum}
           k      == Tool!Min(ends)
           tail   == {s[i] : i \in (k + 1)..n}
           last   == IF tail \subseteq Digit THEN Tool!Escaped(Tool!Class(Digit, "plus"))
                                             ELSE Tool!Class(Tool!Alnum, "plus")
           prefix == Append(Tool!Prefix(SubSeq(s, 1, k)), last)
           digits == [i \in DOMAIN s |-> Tool!Escaped(Tool!Class(Digit, "one"))]
           word   == [i \in DOMAIN s |-> Tool!Class(Tool!Alnum, "one")]
           tokens == IF ends # {} THEN prefix
                     ELSE IF Tool!ToSet(s) \subseteq Digit THEN digits
                     ELSE IF Tool!ToSet(s) \subseteq Tool!Alnum THEN word
                     ELSE Tool!Generalised(s)
<1>1. Tool!Suggested(s) = [tokens |-> tokens, fault |-> "none"]
  BY DEF Tool!Suggested
<1>2. n \in Nat /\ DOMAIN s = 1..n /\ \A i \in 1..n : s[i] \in STRING
  OBVIOUS
<1>3. Digit \subseteq STRING /\ Tool!Alnum \subseteq STRING
  <2>1. Letter \cup Digit \cup Separator \cup Special \subseteq STRING
    BY ToolAssumption DEF Tool!ToolAssumption
  <2>2. QED
    BY <2>1 DEF Tool!Alnum
<1>4. \A cs \in SUBSET STRING, r \in {"one", "plus"} :
         /\ Tool!Class(cs, r) \in Token /\ Tool!Class(cs, r).rep = r /\ Tool!Class(cs, r).chars = cs
         /\ Tool!Escaped(Tool!Class(cs, r)) \in Token /\ Tool!Escaped(Tool!Class(cs, r)).rep = r
         /\ Tool!Escaped(Tool!Class(cs, r)).chars = cs
  BY DEF Tool!Class, Tool!Escaped, Token
<1>5. CASE ends # {}
  <2>1. ends \in SUBSET (1..n)
    BY <1>2
  <2>2. k \in ends
    BY <1>2, <1>5, <2>1, Extremes
  <2>3. k \in 2..(n - 1) /\ \A i \in 1..n : i # k => s[i] \in Tool!Alnum
    BY <1>2, <2>2
  <2> HIDE DEF k
  <2>4. k \in 1..(n - 1) /\ k \in Nat /\ k \in 1..n /\ \A i \in 1..k : i \in 1..n
    BY <1>2, <2>3
  <2> DEFINE u == SubSeq(s, 1, k)
  <2>5. u \in Seq(STRING) /\ DOMAIN u = 1..k /\ Len(u) = k /\ \A i \in 1..k : u[i] = s[i]
    BY <1>2, <2>4
  <2> HIDE DEF u
  <2> DEFINE P == Tool!Prefix(u)
  <2>6. /\ P \in [1..k -> Token]
        /\ \A i \in 1..k : P[i].rep = "one" /\ s[i] \in P[i].chars
    <3>1. P = [i \in 1..k |-> IF u[i] = "-" THEN Tool!Escaped(Tool!Class({u[i]}, "one"))
                                            ELSE Tool!Class({u[i]}, "one")]
      BY <2>5 DEF Tool!Prefix
    <3>2. \A i \in 1..k : {u[i]} \in SUBSET STRING /\ u[i] = s[i]
      BY <1>2, <2>4, <2>5
    <3> HIDE DEF P
    <3>3. \A i \in 1..k : P[i] \in Token /\ P[i].rep = "one" /\ P[i].chars = {s[i]}
      BY <1>4, <3>1, <3>2
    <3>4. P = [i \in 1..k |-> P[i]]
      BY <3>1
    <3>5. QED
      BY <3>3, <3>4
  <2>7. /\ last \in Token /\ last.rep = "plus"
        /\ \A i \in (k + 1)..n : s[i] \in last.chars
    <3>1. \A i \in (k + 1)..n : s[i] \in tail /\ s[i] \in Tool!Alnum
      BY <1>2, <2>3
    <3> HIDE DEF tail
    <3>2. QED
      BY <1>3, <1>4, <3>1
  <2> HIDE DEF last, P
  <2> DEFINE re == Append(P, last)
  <2>8. /\ re \in [1..(k + 1) -> Token] /\ re[k + 1] = last
        /\ \A i \in 1..k : re[i] = P[i]
    <3>1. P \in Seq(Token) /\ Len(P) = k
      BY <2>4, <2>6, SequenceOf
    <3>2. re \in Seq(Token) /\ Len(re) = k + 1 /\ re[k + 1] = last
      BY <2>4, <2>7, <3>1
    <3>3. \A i \in 1..k : re[i] = P[i]
      BY <2>4, <2>7, <3>1
    <3> HIDE DEF re
    <3>4. QED
      BY <3>2, <3>3
  <2>9. tokens = re
    BY <1>5 DEF P, u
  <2> HIDE DEF re
  <2>10. Whole(s, re)
    <3>1. k \in 1..(Len(s) - 1)
      BY <2>4
    <3>2. /\ \A i \in 1..k : re[i].rep = "one" /\ s[i] \in re[i].chars
          /\ re[k + 1].rep = "plus" /\ \A i \in (k + 1)..Len(s) : s[i] \in re[k + 1].chars
      BY <2>6, <2>7, <2>8
    <3>3. QED
      BY <2>8, <3>1, <3>2, PrefixAndRest
  <2> HIDE DEF tokens
  <2>11. QED
    BY <1>1, <2>9, <2>10
<1>6. CASE ends = {}
  <2>1. CASE Tool!ToSet(s) \subseteq Digit
    <3>1. tokens = digits /\ \A i \in 1..n : s[i] \in Digit
      BY <1>2, <1>6, <2>1 DEF Tool!ToSet
    <3>2. digits \in [1..n -> Token] /\ \A i \in 1..n : digits[i].rep = "one" /\ digits[i].chars = Digit
      BY <1>2, <1>3, <1>4
    <3> HIDE DEF digits
    <3>3. Whole(s, digits)
      BY <3>1, <3>2, EachOne
    <3> HIDE DEF tokens
    <3>4. QED
      BY <1>1, <3>1, <3>3
  <2>2. CASE ~(Tool!ToSet(s) \subseteq Digit) /\ Tool!ToSet(s) \subseteq Tool!Alnum
    <3>1. tokens = word /\ \A i \in 1..n : s[i] \in Tool!Alnum
      BY <1>2, <1>6, <2>2 DEF Tool!ToSet
    <3>2. word \in [1..n -> Token] /\ \A i \in 1..n : word[i].rep = "one" /\ word[i].chars = Tool!Alnum
      BY <1>2, <1>3, <1>4
    <3> HIDE DEF word
    <3>3. Whole(s, word)
      BY <3>1, <3>2, EachOne
    <3> HIDE DEF tokens
    <3>4. QED
      BY <1>1, <3>1, <3>3
  <2>3. CASE ~(Tool!ToSet(s) \subseteq Digit) /\ ~(Tool!ToSet(s) \subseteq Tool!Alnum)
    <3>1. tokens = Tool!Generalised(s)
      BY <1>6, <2>3
    <3> HIDE DEF tokens
    <3>2. Whole(s, Tool!Generalised(s))
      BY GeneralisedFits
    <3>3. QED
      BY <1>1, <3>1, <3>2
  <2>4. QED
    BY <2>1, <2>2, <2>3
<1>7. QED
  BY <1>5, <1>6

(* Whatever sample stands in a row, what the button suggests for it passes  *)
(* the check of expressions and matches all of the sample, apart from the   *)
(* blanks around it (suggestRegex, re2check): for samples of any length.    *)
THEOREM SuggestionFitsHolds == Spec => []SuggestionFits
<1>1. ASSUME RowsInv PROVE SuggestionFits
  <2> SUFFICES ASSUME NEW i \in DOMAIN customs, Tool!trim(customs[i].sample) # <<>>
               PROVE  LET s == Tool!trim(customs[i].sample)
                          r == Tool!suggestRegex(customs[i].sample)
                      IN  /\ Tool!re2check(r) = "ok"
                          /\ Tool!MatchEnd([p \in DOMAIN s |-> [sym |-> s[p]]], 1, r.tokens) = Len(s) + 1
    BY DEF SuggestionFits, Tool!SuggestionFits
  <2> DEFINE s == Tool!trim(customs[i].sample)
             r == Tool!suggestRegex(customs[i].sample)
  <2>1. customs[i].sample \in Sample \cup {<<>>}
    <3>1. customs[i] \in Rows
      BY <1>1 DEF RowsInv
    <3>2. QED
      BY <3>1 DEF Rows
  <2>2. customs[i].sample \in Seq(STRING)
    <3>1. Sample \cup Log \subseteq Seq(STRING)
      BY ToolAssumption DEF Tool!ToolAssumption
    <3>2. <<>> \in Seq(STRING)
      OBVIOUS
    <3>3. QED
      BY <2>1, <3>1, <3>2
  <2>3. s \in Seq(STRING) /\ s # <<>> /\ r = Tool!Suggested(s)
    BY <2>2, TrimTyped DEF Tool!suggestRegex
  <2> HIDE DEF s, r
  <2>4. Whole(s, r.tokens) /\ r.fault = "none"
    BY <2>3, SuggestedFits
  <2>5. Tool!re2check(r) = "ok"
    <3>1. r # Tool!NoRegex
      BY <2>4 DEF Whole, Tool!NoRegex
    <3>2. QED
      BY <2>4, <3>1 DEF Tool!re2check
  <2>6. Tool!MatchEnd([p \in DOMAIN s |-> [sym |-> s[p]]], 1, r.tokens) = Len(s) + 1
    BY <2>4, ToolMatch DEF Whole, Cells
  <2>7. QED
    BY <2>5, <2>6 DEF s, r
<1>2. QED
  BY <1>1, RowsInit, RowsStep, PTL DEF Spec

-----------------------------------------------------------------------------
(* The preview.                                                            *)

\* Segments of a text whose cells are in C, and the text they make together.
Segments(C) == [text : Seq(C), masked : BOOLEAN]

TextOf(segs) == FlattenSeq([k \in DOMAIN segs |-> segs[k].text])

LEMMA TextsOf ==
  ASSUME NEW C, NEW a \in Seq(Segments(C)), NEW ts, ts = [k \in DOMAIN a |-> a[k].text]
  PROVE  ts \in Seq(Seq(C)) /\ Len(ts) = Len(a)
<1>1. \A k \in 1..Len(a) : a[k] \in Segments(C)
  OBVIOUS
<1>2. ts \in [1..Len(a) -> Seq(C)]
  BY <1>1 DEF Segments
<1>3. QED
  BY <1>2, SequenceOf

LEMMA TextOfTyped == ASSUME NEW C, NEW a \in Seq(Segments(C)) PROVE TextOf(a) \in Seq(C)
<1> DEFINE ts == [k \in DOMAIN a |-> a[k].text]
<1>1. ts \in Seq(Seq(C))
  BY TextsOf
<1>2. TextOf(a) = FlattenSeq(ts)
  BY DEF TextOf
<1> HIDE DEF ts
<1>3. QED
  BY <1>1, <1>2, Flattened

LEMMA TextOfNone == TextOf(<<>>) = <<>>
<1> DEFINE s == [k \in DOMAIN <<>> |-> <<>>[k].text]
<1>1. s \in Seq(Seq({})) /\ Len(s) = 0
  OBVIOUS
<1>2. TextOf(<<>>) = FlattenSeq(s)
  BY DEF TextOf
<1> HIDE DEF s
<1>3. QED
  BY <1>1, <1>2, FlattenLoop

LEMMA TextOfOne ==
  ASSUME NEW C, NEW x \in Segments(C)
  PROVE  <<x>> \in Seq(Segments(C)) /\ TextOf(<<x>>) = x.text
<1> DEFINE w == <<x.text>>
<1>1. <<x>> \in Seq(Segments(C)) /\ w \in Seq(Seq(C)) /\ Len(w) = 1 /\ w[1] = x.text
  BY DEF Segments
<1>2. TextOf(<<x>>) = FlattenSeq(w)
  <2>1. [k \in DOMAIN <<x>> |-> <<x>>[k].text] = w
    OBVIOUS
  <2>2. QED
    BY <2>1 DEF TextOf
<1> HIDE DEF w
<1>3. PICK g \in [0..Len(w) -> Seq(C)] :
           /\ g[0] = <<>> /\ \A n \in 1..Len(w) : g[n] = g[n - 1] \o w[n]
           /\ g[Len(w)] = FlattenSeq(w)
  BY <1>1, FlattenLoop
<1>4. g[1] = <<>> \o x.text /\ x.text \in Seq(C) /\ g[1] = FlattenSeq(w)
  <2>1. 1 \in 1..Len(w) /\ 1 - 1 = 0
    BY <1>1
  <2>2. QED
    BY <1>1, <1>3, <2>1 DEF Segments
<1>5. QED
  BY <1>1, <1>2, <1>4

\* Segments one after the other make the texts of both.
Joined(a, b) == TextOf(a \o b) = TextOf(a) \o TextOf(b)

LEMMA TextOfBoth ==
  ASSUME NEW C, NEW a \in Seq(Segments(C)), NEW b \in Seq(Segments(C))
  PROVE  Joined(a, b)
<1> DEFINE ta == [k \in DOMAIN a |-> a[k].text]
           tb == [k \in DOMAIN b |-> b[k].text]
           tc == [k \in DOMAIN (a \o b) |-> (a \o b)[k].text]
<1>1. /\ ta \in Seq(Seq(C)) /\ Len(ta) = Len(a)
      /\ tb \in Seq(Seq(C)) /\ Len(tb) = Len(b)
  BY TextsOf
<1>2. a \o b \in Seq(Segments(C)) /\ Len(a \o b) = Len(a) + Len(b)
  BY ConcatSeq
<1>3. tc \in Seq(Seq(C)) /\ Len(tc) = Len(a) + Len(b)
  <2>1. tc \in Seq(Seq(C)) /\ Len(tc) = Len(a \o b)
    BY <1>2, TextsOf
  <2>2. QED
    BY <1>2, <2>1
<1>4. tc = ta \o tb
  <2>1. \A k \in 1..Len(a) : ta[k] = a[k].text
    OBVIOUS
  <2>2. \A k \in 1..Len(b) : tb[k] = b[k].text
    OBVIOUS
  <2>3. \A k \in 1..(Len(a) + Len(b)) : tc[k] = (a \o b)[k].text
    BY <1>2
  <2> HIDE DEF ta, tb, tc
  <2>4. ta \o tb \in Seq(Seq(C)) /\ Len(ta \o tb) = Len(a) + Len(b)
    <3> DEFINE D == Seq(C)
    <3>1. ta \in Seq(D) /\ tb \in Seq(D)
      BY <1>1
    <3> HIDE DEF D
    <3>2. ta \o tb \in Seq(D) /\ Len(ta \o tb) = Len(ta) + Len(tb)
      BY <3>1
    <3>3. QED
      BY <1>1, <3>2 DEF D
  <2>5. ASSUME NEW k \in 1..(Len(a) + Len(b)) PROVE tc[k] = (ta \o tb)[k]
    <3>1. CASE k \in 1..Len(a)
      <4>1. (a \o b)[k] = a[k]
        BY <3>1
      <4>2. (ta \o tb)[k] = ta[k]
        BY <1>1, <3>1
      <4>3. QED
        BY <2>1, <2>3, <3>1, <4>1, <4>2
    <3>2. CASE k \notin 1..Len(a)
      <4> DEFINE j == k - Len(a)
      <4>1. j \in 1..Len(b) /\ k = Len(a) + j
        BY <2>5, <3>2
      <4> HIDE DEF j
      <4>2. (a \o b)[k] = b[j]
        BY <4>1
      <4>3. (ta \o tb)[k] = tb[j]
        BY <1>1, <4>1
      <4>4. QED
        BY <2>2, <2>3, <2>5, <4>1, <4>2, <4>3
    <3>3. QED
      BY <3>1, <3>2
  <2>6. QED
    BY <1>3, <2>4, <2>5, SeqEqual
<1>5. TextOf(a) = FlattenSeq(ta) /\ TextOf(b) = FlattenSeq(tb) /\ TextOf(a \o b) = FlattenSeq(tc)
  BY DEF TextOf
<1> HIDE DEF ta, tb, tc
<1>6. FlattenSeq(ta \o tb) = FlattenSeq(ta) \o FlattenSeq(tb)
  BY <1>1, FlattenConcat
<1>7. QED
  BY <1>4, <1>5, <1>6 DEF Joined

LEMMA TextOfParts ==
  ASSUME NEW C, NEW c \in Seq(Seq(Segments(C))), NEW u \in Seq(Seq(C)), Len(u) = Len(c),
         \A k \in 1..Len(c) : TextOf(c[k]) = u[k]
  PROVE  FlattenSeq(c) \in Seq(Segments(C)) /\ TextOf(FlattenSeq(c)) = FlattenSeq(u)
<1> DEFINE N == Len(c)
           D == Segments(C)
<1>1. N \in Nat /\ c \in Seq(Seq(D)) /\ Len(u) = N /\ \A k \in 1..N : c[k] \in Seq(D) /\ u[k] \in Seq(C)
  OBVIOUS
<1> HIDE DEF D
<1>2. PICK g \in [0..N -> Seq(D)] :
           /\ g[0] = <<>> /\ \A n \in 1..N : g[n] = g[n - 1] \o c[n]
           /\ g[N] = FlattenSeq(c)
  BY <1>1, FlattenLoop
<1>3. PICK h \in [0..N -> Seq(C)] :
           /\ h[0] = <<>> /\ \A n \in 1..N : h[n] = h[n - 1] \o u[n]
           /\ h[N] = FlattenSeq(u)
  <2>1. \E h \in [0..Len(u) -> Seq(C)] :
           /\ h[0] = <<>> /\ \A n \in 1..Len(u) : h[n] = h[n - 1] \o u[n]
           /\ h[Len(u)] = FlattenSeq(u)
    BY FlattenLoop
  <2>2. QED
    BY <1>1, <2>1
<1> DEFINE T == {n \in 0..N : TextOf(g[n]) = h[n]}
<1>4. 0 \in T
  BY <1>1, <1>2, <1>3, TextOfNone
<1>5. ASSUME NEW n \in 0..N, n # N, n \in T PROVE n + 1 \in T
  <2> DEFINE m == n + 1
  <2>1. m \in 1..N /\ m \in 0..N /\ m - 1 = n
    BY <1>1, <1>5
  <2> HIDE DEF m
  <2>2. g[m] = g[n] \o c[m] /\ h[m] = h[n] \o u[m] /\ TextOf(g[n]) = h[n] /\ TextOf(c[m]) = u[m]
    BY <1>2, <1>3, <1>5, <2>1
  <2>3. g[n] \in Seq(Segments(C)) /\ c[m] \in Seq(Segments(C))
    BY <1>1, <1>2, <2>1 DEF D
  <2>4. TextOf(g[m]) = h[m]
    <3>1. Joined(g[n], c[m])
      BY <2>3, TextOfBoth
    <3>2. QED
      BY <2>2, <3>1 DEF Joined
  <2>5. QED
    BY <2>1, <2>4 DEF m
<1> HIDE DEF N, T
<1>6. \A n \in 0..N : n \in T
  BY <1>1, <1>4, <1>5, Climb
<1>7. N \in 0..N
  BY <1>1
<1>8. QED
  BY <1>2, <1>3, <1>6, <1>7 DEF D, T

LEMMA SubSeqJoin ==
  ASSUME NEW C, NEW t \in Seq(C), NEW p \in 1..(Len(t) + 1), NEW q \in p..(Len(t) + 1),
         NEW r \in q..(Len(t) + 1)
  PROVE  SubSeq(t, p, q - 1) \o SubSeq(t, q, r - 1) = SubSeq(t, p, r - 1)
<1> DEFINE a == SubSeq(t, p, q - 1)
           b == SubSeq(t, q, r - 1)
           c == SubSeq(t, p, r - 1)
<1>1. Len(t) \in Nat /\ p \in Int /\ q \in Int /\ r \in Int
  OBVIOUS
<1>2. a \in Seq(C) /\ Len(a) = q - p /\ \A k \in 1..(q - p) : a[k] = t[p + k - 1]
  OBVIOUS
<1>3. b \in Seq(C) /\ Len(b) = r - q /\ \A k \in 1..(r - q) : b[k] = t[q + k - 1]
  OBVIOUS
<1>4. c \in Seq(C) /\ Len(c) = r - p /\ \A k \in 1..(r - p) : c[k] = t[p + k - 1]
  OBVIOUS
<1> HIDE DEF a, b, c
<1>5. a \o b \in Seq(C) /\ Len(a \o b) = r - p
  <2>1. a \o b \in Seq(C) /\ Len(a \o b) = Len(a) + Len(b)
    <3>1. a \in Seq(C) /\ b \in Seq(C)
      BY <1>2, <1>3
    <3>2. QED
      BY <3>1
  <2>2. QED
    BY <1>1, <1>2, <1>3, <2>1
<1>6. ASSUME NEW k \in 1..(r - p) PROVE (a \o b)[k] = c[k]
  <2>1. CASE k <= q - p
    BY <1>1, <1>2, <1>3, <1>4, <2>1
  <2>2. CASE ~(k <= q - p)
    <3> DEFINE j == k - (q - p)
    <3>1. j \in 1..(r - q) /\ k = Len(a) + j /\ q + j - 1 = p + k - 1
      BY <1>1, <1>2, <2>2
    <3> HIDE DEF j
    <3>2. (a \o b)[k] = b[j]
      <4>1. a \in Seq(C) /\ b \in Seq(C) /\ j \in 1..Len(b)
        BY <1>2, <1>3, <3>1
      <4>2. (a \o b)[Len(a) + j] = b[j]
        BY <4>1
      <4>3. QED
        BY <3>1, <4>2
    <3>3. QED
      BY <1>3, <1>4, <3>1, <3>2
  <2>3. QED
    BY <2>1, <2>2
<1>7. a \o b = c
  BY <1>4, <1>5, <1>6, SeqEqual
<1>8. QED
  BY <1>7 DEF a, b, c

LEMMA PlainText ==
  ASSUME NEW C, NEW t \in Seq(C), NEW p \in 1..(Len(t) + 1), NEW r \in p..(Len(t) + 1)
  PROVE  /\ SubSeq(t, p, r - 1) \in Seq(C)
         /\ Tool!Plain(t, p, r - 1) \in Seq(Segments(C))
         /\ TextOf(Tool!Plain(t, p, r - 1)) = SubSeq(t, p, r - 1)
         /\ Tool!Masked(t, p, r - 1) \in Seq(Segments(C))
         /\ TextOf(Tool!Masked(t, p, r - 1)) = SubSeq(t, p, r - 1)
<1> DEFINE u == SubSeq(t, p, r - 1)
<1>1. u \in Seq(C) /\ (r - 1 < p => u = <<>>)
  OBVIOUS
<1> HIDE DEF u
<1>2. \A m \in BOOLEAN : [text |-> u, masked |-> m] \in Segments(C)
  BY <1>1 DEF Segments
<1>3. \A m \in BOOLEAN : /\ <<[text |-> u, masked |-> m]>> \in Seq(Segments(C))
                         /\ TextOf(<<[text |-> u, masked |-> m]>>) = u
  <2> TAKE m \in BOOLEAN
  <2>1. [text |-> u, masked |-> m].text = u
    OBVIOUS
  <2>2. QED
    BY <1>2, <2>1, TextOfOne
<1>4. Tool!Masked(t, p, r - 1) = <<[text |-> u, masked |-> TRUE]>>
  BY DEF Tool!Masked, u
<1>5. Tool!Plain(t, p, r - 1) = IF r - 1 < p THEN <<>> ELSE <<[text |-> u, masked |-> FALSE]>>
  BY DEF Tool!Plain, u
<1>6. <<>> \in Seq(Segments(C))
  OBVIOUS
<1>7. Tool!Masked(t, p, r - 1) \in Seq(Segments(C)) /\ TextOf(Tool!Masked(t, p, r - 1)) = u
  BY <1>3, <1>4
<1>8. Tool!Plain(t, p, r - 1) \in Seq(Segments(C)) /\ TextOf(Tool!Plain(t, p, r - 1)) = u
  BY <1>1, <1>3, <1>5, <1>6, TextOfNone
<1>9. QED
  BY <1>1, <1>7, <1>8 DEF u

\* What a search that goes on at p makes of the rest of t.
Rest(t, re, p, from) ==
    LET i == Tool!Found(t, p, re)
        e == Tool!MatchEnd(t, i, re)
    IN  IF i = 0 THEN Tool!Plain(t, p, Len(t))
        ELSE Tool!Plain(t, p, i - 1) \o Tool!Masked(t, i, e - 1)
             \o (IF e = i THEN Tool!Plain(t, e, Len(t)) ELSE from[e])

LEMMA FoundWhere ==
  ASSUME NEW C, NEW t \in Seq(C), NEW re \in Seq(Token), NEW p \in 1..(Len(t) + 1),
         Tool!Found(t, p, re) # 0
  PROVE  \E i \in p..(Len(t) + 1), e \in p..(Len(t) + 1) :
            Tool!Found(t, p, re) = i /\ Tool!MatchEnd(t, i, re) = e /\ i <= e
<1> DEFINE n  == Len(t)
           at == {i \in p..(n + 1) : Tool!MatchesAt(t, i, re)}
           i  == Tool!Min(at)
           e  == MatchEnd(t, i, re)
<1>1. n \in Nat /\ p \in 1..(n + 1)
  OBVIOUS
<1>2. Tool!Found(t, p, re) = IF at = {} THEN 0 ELSE i
  BY DEF Tool!Found
<1>3. at # {}
  BY <1>2
<1>4. n + 1 \in Nat /\ at \in SUBSET (1..(n + 1))
  BY <1>1
<1> HIDE DEF n
<1>5. i \in at
  <2> HIDE DEF at
  <2> QED
    BY <1>3, <1>4, Extremes
<1>6. i \in p..(n + 1) /\ Tool!MatchEnd(t, i, re) = e /\ e # 0
  BY <1>5, ToolMatch DEF Tool!MatchesAt
<1>7. Tool!Found(t, p, re) = i
  BY <1>2, <1>3
<1> HIDE DEF i, at
<1>8. i \in 1..(Len(t) + 1)
  BY <1>1, <1>6 DEF n
<1>9. e \in 0..(n + 1) /\ i <= e
  BY <1>6, <1>8, MatchRange DEF n
<1> HIDE DEF e
<1>10. e \in p..(n + 1)
  BY <1>1, <1>6, <1>9
<1>11. QED
  BY <1>6, <1>7, <1>9, <1>10 DEF n

\* The rest, and the text of the rest, when they are known further on.
LEMMA RestKeeps ==
  ASSUME NEW C, NEW t \in Seq(C), NEW re \in Seq(Token), NEW p \in 1..(Len(t) + 1), NEW f,
         \A j \in 1..(Len(t) + 1) : p < j => f[j] \in Seq(Segments(C))
  PROVE  /\ Rest(t, re, p, f) \in Seq(Segments(C))
         /\ (\A j \in 1..(Len(t) + 1) : p < j => TextOf(f[j]) = SubSeq(t, j, Len(t)))
               => TextOf(Rest(t, re, p, f)) = SubSeq(t, p, Len(t))
<1> DEFINE n == Len(t)
           S == Seq(Segments(C))
           Known == \A j \in 1..(n + 1) : p < j => TextOf(f[j]) = SubSeq(t, j, n)
<1>1. n \in Nat /\ p \in 1..(n + 1) /\ n + 1 \in p..(n + 1) /\ (n + 1) - 1 = n
  OBVIOUS
<1>2. CASE Tool!Found(t, p, re) = 0
  <2>1. Rest(t, re, p, f) = Tool!Plain(t, p, n)
    BY <1>2 DEF Rest
  <2>2. Tool!Plain(t, p, (n + 1) - 1) \in S /\ TextOf(Tool!Plain(t, p, (n + 1) - 1)) = SubSeq(t, p, (n + 1) - 1)
    BY <1>1, PlainText
  <2> HIDE DEF n
  <2>3. QED
    BY <1>1, <2>1, <2>2 DEF n
<1>3. CASE Tool!Found(t, p, re) # 0
  <2>1. PICK i \in p..(n + 1), e \in p..(n + 1) :
           Tool!Found(t, p, re) = i /\ Tool!MatchEnd(t, i, re) = e /\ i <= e
    BY <1>3, FoundWhere
  <2>2. /\ i \in 1..(n + 1) /\ e \in 1..(n + 1) /\ e \in i..(n + 1) /\ n + 1 \in e..(n + 1) /\ i # 0
        /\ (e # i => p < e)
    BY <1>1, <2>1
  <2> DEFINE a == Tool!Plain(t, p, i - 1)
             b == Tool!Masked(t, i, e - 1)
             c == IF e = i THEN Tool!Plain(t, e, n) ELSE f[e]
  <2>3. Rest(t, re, p, f) = a \o b \o c
    BY <2>1, <2>2 DEF Rest
  <2>4. a \in S /\ TextOf(a) = SubSeq(t, p, i - 1)
    BY <2>1, PlainText
  <2>5. b \in S /\ TextOf(b) = SubSeq(t, i, e - 1)
    BY <2>2, PlainText
  <2>6. c \in S /\ (Known => TextOf(c) = SubSeq(t, e, n))
    <3>1. CASE e = i
      <4>1. Tool!Plain(t, e, (n + 1) - 1) \in S
            /\ TextOf(Tool!Plain(t, e, (n + 1) - 1)) = SubSeq(t, e, (n + 1) - 1)
        BY <2>2, PlainText
      <4> HIDE DEF n, S
      <4>2. QED
        BY <1>1, <3>1, <4>1
    <3>2. CASE e # i
      BY <2>2, <3>2
    <3>3. QED
      BY <3>1, <3>2
  <2> HIDE DEF a, b, c
  <2>7. a \o b \in S /\ Joined(a, b)
    BY <2>4, <2>5, ConcatSeq, TextOfBoth
  <2>8. (a \o b) \o c \in S /\ Joined(a \o b, c)
    BY <2>6, <2>7, ConcatSeq, TextOfBoth
  <2>9. SubSeq(t, p, i - 1) \o SubSeq(t, i, e - 1) = SubSeq(t, p, e - 1)
    BY <1>1, <2>1, <2>2, SubSeqJoin
  <2>10. SubSeq(t, p, e - 1) \o SubSeq(t, e, n) = SubSeq(t, p, n)
    <3>1. SubSeq(t, p, e - 1) \o SubSeq(t, e, (n + 1) - 1) = SubSeq(t, p, (n + 1) - 1)
      BY <1>1, <2>1, <2>2, SubSeqJoin
    <3> HIDE DEF n
    <3>2. QED
      BY <1>1, <3>1
  <2>11. Known => TextOf(Rest(t, re, p, f)) = SubSeq(t, p, n)
    <3> HIDE DEF n, Known
    <3> QED
      BY <2>3, <2>4, <2>5, <2>6, <2>7, <2>8, <2>9, <2>10, Zenon DEF Joined
  <2>12. QED
    BY <2>3, <2>8, <2>11
<1>4. QED
  BY <1>2, <1>3

Splits(t, re, C, from) ==
    /\ from \in [1..(Len(t) + 1) -> Seq(Segments(C))]
    /\ \A p \in 1..(Len(t) + 1) : from[p] = Rest(t, re, p, from)

\* Split looks up the first entry of a table of rests.
LEMMA SplitTable ==
  ASSUME NEW C, NEW t \in Seq(C), NEW re \in Seq(Token)
  PROVE  \E from : Splits(t, re, C, from) /\ Tool!Split(t, re) = from[1]
<1> DEFINE N == Len(t)
           P == 1..(N + 1)
           X == Seq(Segments(C))
           Solved(f) == f = [p \in P |-> Rest(t, re, p, f)]
           from == CHOOSE f : Solved(f)
           rank == [p \in P |-> N + 1 - p]
           body == [p \in P |-> [f \in [P -> X] |-> Rest(t, re, p, f)]]
<1>1. N \in Nat /\ 1 \in P
  OBVIOUS
<1>2. Tool!Split(t, re) = from[1]
  BY DEF Tool!Split, Rest
<1>3. \A p \in P : \A f : (\A j \in P : p < j => f[j] \in X) => Rest(t, re, p, f) \in X
  BY RestKeeps
<1>4. \A p \in P : \A g, h :
          (\A j \in P : p < j => g[j] = h[j]) => Rest(t, re, p, g) = Rest(t, re, p, h)
  <2> SUFFICES ASSUME NEW p \in P, NEW g, NEW h, \A j \in P : p < j => g[j] = h[j]
               PROVE  Rest(t, re, p, g) = Rest(t, re, p, h)
    OBVIOUS
  <2>1. CASE Tool!Found(t, p, re) = 0
    BY <2>1 DEF Rest
  <2>2. CASE Tool!Found(t, p, re) # 0
    <3>1. PICK i \in p..(N + 1), e \in p..(N + 1) :
             Tool!Found(t, p, re) = i /\ Tool!MatchEnd(t, i, re) = e /\ i <= e
      BY <2>2, FoundWhere
    <3>2. e # i => e \in P /\ p < e
      BY <1>1, <3>1
    <3>3. e # i => g[e] = h[e]
      BY <3>2
    <3>4. QED
      BY <3>1, <3>3 DEF Rest
  <2>3. QED
    BY <2>1, <2>2
<1> HIDE DEF N
<1>5. \E f \in [P -> X] : \A p \in P : f[p] = body[p][f]
  <2>1. rank \in [P -> 0..N]
    BY <1>1
  <2>2. body \in [P -> [[P -> X] -> X]]
    <3>1. \A p \in P : \A f \in [P -> X] : Rest(t, re, p, f) \in X
      BY <1>3
    <3> HIDE DEF P, X
    <3>2. QED
      BY <3>1
  <2>3. ASSUME NEW p \in P, NEW g \in [P -> X], NEW h \in [P -> X],
               \A j \in P : rank[j] < rank[p] => g[j] = h[j]
        PROVE  body[p][g] = body[p][h]
    <3>1. \A j \in P : p < j => rank[j] < rank[p]
      BY <1>1
    <3>2. Rest(t, re, p, g) = Rest(t, re, p, h)
      BY <1>4, <2>3, <3>1
    <3> HIDE DEF P, X
    <3>3. QED
      BY <3>2
  <2>4. X # {}
    <3>1. <<>> \in X
      OBVIOUS
    <3>2. QED
      BY <3>1
  <2> HIDE DEF body, rank, X, P
  <2>5. Descends(P, X, N, rank, body)
    BY <2>1, <2>2, <2>3 DEF Descends
  <2>6. QED
    BY <1>1, <2>4, <2>5, Recursion
<1>6. PICK f \in [P -> X] : \A p \in P : f[p] = body[p][f]
  BY <1>5
<1>7. Solved(f)
  <2> HIDE DEF P, X
  <2>1. \A p \in P : f[p] = Rest(t, re, p, f)
    BY <1>6
  <2>2. f = [p \in P |-> f[p]]
    BY <1>6
  <2>3. QED
    BY <2>1, <2>2
<1>8. Solved(from)
  <2> HIDE DEF Solved
  <2> QED
    BY <1>7, Zenon
<1> HIDE DEF from
<1>9. \A p \in P : from[p] = Rest(t, re, p, from)
  <2> HIDE DEF P
  <2> QED
    BY <1>8
<1>10. \A p \in P : from[p] \in X
  <2> DEFINE T == {p \in P : from[p] \in X}
             K == N + 1
  <2>1. K \in Nat /\ P = 1..K
    BY <1>1
  <2>2. ASSUME NEW p \in P, \A j \in P : p < j => j \in T
        PROVE  p \in T
    BY <1>3, <1>9, <2>2
  <2> HIDE DEF T, K, P
  <2>3. \A p \in P : p \in T
    BY <2>1, <2>2, FromTheEnd
  <2>4. QED
    BY <2>3 DEF T
<1>11. from \in [P -> X]
  <2> HIDE DEF P, X
  <2>1. from = [p \in P |-> from[p]]
    BY <1>8, <1>9
  <2>2. QED
    BY <1>10, <2>1
<1>12. QED
  BY <1>2, <1>9, <1>11 DEF N, Splits

\* Whatever the expression matches, a text is split and nothing else.
LEMMA SplitKeeps ==
  ASSUME NEW C, NEW t \in Seq(C), NEW re \in Seq(Token)
  PROVE  Tool!Split(t, re) \in Seq(Segments(C)) /\ TextOf(Tool!Split(t, re)) = t
<1> DEFINE N == Len(t)
           P == 1..(N + 1)
           X == Seq(Segments(C))
<1>1. N \in Nat /\ 1 \in P /\ SubSeq(t, 1, N) = t
  OBVIOUS
<1>2. PICK from : Splits(t, re, C, from) /\ Tool!Split(t, re) = from[1]
  BY SplitTable
<1>3. \A p \in P : from[p] \in X /\ from[p] = Rest(t, re, p, from)
  <2> HIDE DEF X
  <2> QED
    BY <1>2 DEF Splits, X
<1> DEFINE T == {p \in P : TextOf(from[p]) = SubSeq(t, p, N)}
           K == N + 1
<1>4. K \in Nat /\ P = 1..K
  BY <1>1
<1>5. ASSUME NEW p \in P, \A j \in P : p < j => j \in T
      PROVE  p \in T
  <2>1. /\ \A j \in P : p < j => from[j] \in X
        /\ \A j \in P : p < j => TextOf(from[j]) = SubSeq(t, j, N)
    BY <1>3, <1>5
  <2>2. TextOf(Rest(t, re, p, from)) = SubSeq(t, p, N)
    BY <2>1, RestKeeps
  <2>3. QED
    BY <1>3, <2>2
<1>6. 1 \in T
  <2> HIDE DEF T, K, P
  <2>1. \A p \in P : p \in T
    BY <1>4, <1>5, FromTheEnd
  <2>2. QED
    BY <1>1, <2>1
<1>7. QED
  <2> HIDE DEF N
  <2> QED
    BY <1>1, <1>2, <1>3, <1>6

\* A pattern that has its turn neither loses nor moves any of the text.
LEMMA TurnKeeps ==
  ASSUME NEW C, NEW segs \in Seq(Segments(C)), NEW p, p.pattern.tokens \in Seq(Token)
  PROVE  Tool!Turn(segs, p) \in Seq(Segments(C)) /\ TextOf(Tool!Turn(segs, p)) = TextOf(segs)
<1> DEFINE n == Len(segs)
           c == [k \in 1..n |-> IF segs[k].masked THEN <<segs[k]>>
                                ELSE Tool!Split(segs[k].text, p.pattern.tokens)]
           u == [k \in DOMAIN segs |-> segs[k].text]
           X == Seq(Segments(C))
<1>1. n \in Nat /\ DOMAIN segs = 1..n /\ \A k \in 1..n : segs[k] \in Segments(C) /\ segs[k].text \in Seq(C)
  <2>1. n \in Nat /\ DOMAIN segs = 1..n /\ \A k \in 1..n : segs[k] \in Segments(C)
    OBVIOUS
  <2>2. QED
    BY <2>1 DEF Segments
<1>2. Tool!Turn(segs, p) = FlattenSeq(c)
  BY <1>1 DEF Tool!Turn, Tool!FlattenSeq, FlattenSeq
<1>3. u \in Seq(Seq(C)) /\ Len(u) = n /\ TextOf(segs) = FlattenSeq(u) /\ \A k \in 1..n : u[k] = segs[k].text
  BY <1>1, TextsOf DEF TextOf
<1>4. ASSUME NEW k \in 1..n PROVE c[k] \in X /\ TextOf(c[k]) = segs[k].text
  <2>1. CASE segs[k].masked
    <3>1. c[k] = <<segs[k]>>
      BY <2>1
    <3>2. QED
      BY <1>1, <3>1, TextOfOne
  <2>2. CASE ~segs[k].masked
    <3>1. c[k] = Tool!Split(segs[k].text, p.pattern.tokens)
      BY <2>2
    <3>2. QED
      BY <1>1, <3>1, SplitKeeps
  <2>3. QED
    BY <2>1, <2>2
<1>5. c \in [1..n -> X]
  <2>1. c = [k \in 1..n |-> c[k]]
    OBVIOUS
  <2> HIDE DEF c, X
  <2>2. QED
    BY <1>4, <2>1
<1> HIDE DEF c, u, n
<1>6. c \in Seq(X) /\ Len(c) = n
  <2> HIDE DEF X
  <2> QED
    BY <1>1, <1>5, SequenceOf
<1>7. Len(u) = Len(c) /\ \A k \in 1..Len(c) : TextOf(c[k]) = u[k]
  BY <1>3, <1>4, <1>6
<1>8. QED
  BY <1>2, <1>3, <1>6, <1>7, TextOfParts

\* The segments before any pattern, and after the n-th.
Turns(log, active, C, after) ==
    /\ after \in [0..Len(active) -> Seq(Segments(C))]
    /\ after[0] = Tool!Plain(log, 1, Len(log))
    /\ \A n \in 1..Len(active) : after[n] = Tool!Turn(after[n - 1], active[n])

LEMMA PreviewTable ==
  ASSUME NEW C, NEW log \in Seq(C), NEW Pattern, \A p \in Pattern : p.pattern.tokens \in Seq(Token),
         NEW active \in Seq(Pattern)
  PROVE  \E after : /\ Turns(log, active, C, after)
                    /\ Tool!previewMasked(log, active) = after[Len(active)]
                    /\ TextOf(after[Len(active)]) = log
<1> DEFINE N == Len(active)
           X == Seq(Segments(C))
           whole == Tool!Plain(log, 1, Len(log))
           Solved(f) == f = [n \in 0..N |-> IF n = 0 THEN whole ELSE Tool!Turn(f[n - 1], active[n])]
           after == CHOOSE f : Solved(f)
           rank == [n \in 0..N |-> n]
           body == [n \in 0..N |-> [f \in [0..N -> X] |->
                       IF n = 0 THEN whole ELSE Tool!Turn(f[n - 1], active[n])]]
<1>1. N \in Nat /\ \A n \in 1..N : active[n] \in Pattern
  OBVIOUS
<1>2. Tool!previewMasked(log, active) = after[N]
  BY DEF Tool!previewMasked
<1>3. whole \in X /\ TextOf(whole) = log
  <2>1. 1 \in 1..(Len(log) + 1) /\ Len(log) + 1 \in 1..(Len(log) + 1) /\ (Len(log) + 1) - 1 = Len(log)
    OBVIOUS
  <2>2. /\ Tool!Plain(log, 1, (Len(log) + 1) - 1) \in X
        /\ TextOf(Tool!Plain(log, 1, (Len(log) + 1) - 1)) = SubSeq(log, 1, (Len(log) + 1) - 1)
    BY <2>1, PlainText
  <2>3. SubSeq(log, 1, Len(log)) = log
    OBVIOUS
  <2> HIDE DEF X
  <2>4. QED
    BY <2>1, <2>2, <2>3
<1>4. \A n \in 1..N : \A segs \in X :
         Tool!Turn(segs, active[n]) \in X /\ TextOf(Tool!Turn(segs, active[n])) = TextOf(segs)
  BY <1>1, TurnKeeps
<1> HIDE DEF N, X, whole
<1>5. \A n \in 0..N : n # 0 => n \in 1..N /\ n - 1 \in 0..N /\ n - 1 < n
  BY <1>1
<1>6. \E f \in [0..N -> X] : \A n \in 0..N : f[n] = body[n][f]
  <2>1. rank \in [0..N -> 0..N]
    OBVIOUS
  <2>2. body \in [0..N -> [[0..N -> X] -> X]]
    <3>1. \A n \in 0..N : \A f \in [0..N -> X] :
             (IF n = 0 THEN whole ELSE Tool!Turn(f[n - 1], active[n])) \in X
      BY <1>3, <1>4, <1>5
    <3>2. QED
      BY <3>1
  <2>3. ASSUME NEW n \in 0..N, NEW g \in [0..N -> X], NEW h \in [0..N -> X],
               \A m \in 0..N : rank[m] < rank[n] => g[m] = h[m]
        PROVE  body[n][g] = body[n][h]
    <3>1. n # 0 => g[n - 1] = h[n - 1]
      BY <1>5, <2>3
    <3>2. QED
      BY <3>1
  <2>4. X # {}
    BY <1>3
  <2> HIDE DEF body, rank
  <2> DEFINE I == 0..N
  <2>5. Descends(I, X, N, rank, body)
    BY <2>1, <2>2, <2>3 DEF Descends
  <2> HIDE DEF I
  <2>6. \E f \in [I -> X] : \A n \in I : f[n] = body[n][f]
    BY <1>1, <2>4, <2>5, Recursion
  <2>7. QED
    BY <2>6 DEF I
<1>7. PICK f \in [0..N -> X] : \A n \in 0..N : f[n] = body[n][f]
  BY <1>6
<1>8. Solved(f)
  <2>1. \A n \in 0..N : f[n] = IF n = 0 THEN whole ELSE Tool!Turn(f[n - 1], active[n])
    BY <1>7
  <2>2. f = [n \in 0..N |-> f[n]]
    BY <1>7
  <2>3. QED
    BY <2>1, <2>2
<1>9. Solved(after)
  <2> HIDE DEF Solved
  <2> QED
    BY <1>8, Zenon
<1> HIDE DEF after
<1>10. after[0] = whole /\ \A n \in 1..N : after[n] = Tool!Turn(after[n - 1], active[n])
  <2>1. \A n \in 0..N : after[n] = IF n = 0 THEN whole ELSE Tool!Turn(after[n - 1], active[n])
    BY <1>9
  <2>2. 0 \in 0..N /\ \A n \in 1..N : n \in 0..N /\ n # 0
    BY <1>1
  <2>3. QED
    BY <2>1, <2>2
<1> DEFINE T == {n \in 0..N : after[n] \in X /\ TextOf(after[n]) = log}
<1>11. 0 \in T
  BY <1>1, <1>3, <1>10
<1>12. ASSUME NEW n \in 0..N, n # N, n \in T PROVE n + 1 \in T
  <2> DEFINE m == n + 1
  <2>1. m \in 1..N /\ m \in 0..N /\ m - 1 = n
    BY <1>1, <1>12
  <2> HIDE DEF m
  <2>2. after[m] = Tool!Turn(after[n], active[m]) /\ after[n] \in X /\ TextOf(after[n]) = log
    BY <1>10, <1>12, <2>1
  <2>3. m \in T
    BY <1>4, <2>1, <2>2
  <2>4. QED
    BY <2>3 DEF m
<1>13. \A n \in 0..N : n \in T
  <2> HIDE DEF T
  <2> QED
    BY <1>1, <1>11, <1>12, Climb
<1>14. after \in [0..N -> X] /\ TextOf(after[N]) = log
  <2>1. \A n \in 0..N : after[n] \in X
    BY <1>13
  <2>2. after = [n \in 0..N |-> after[n]]
    BY <1>9
  <2>3. N \in 0..N
    BY <1>1
  <2>4. QED
    BY <1>13, <2>1, <2>2, <2>3
<1>15. QED
  BY <1>2, <1>10, <1>14 DEF Turns, N, X, whole

LEMMA PreviewKeeps ==
  ASSUME NEW C, NEW log \in Seq(C), NEW Pattern, \A p \in Pattern : p.pattern.tokens \in Seq(Token),
         NEW active \in Seq(Pattern)
  PROVE  TextOf(Tool!previewMasked(log, active)) = log
  BY PreviewTable

\* What can come up as an expression is made of tokens.
LEMMA ExpressionTyped == \A r \in Tool!Expression : r.tokens \in Seq(Token)
<1> SUFFICES ASSUME NEW r \in Tool!Expression PROVE r.tokens \in Seq(Token)
  OBVIOUS
<1>1. CASE \E b \in Tool!ToSet(BUILTINS) : r = b.pattern
  <2> DEFINE B == [name : STRING, pattern : [tokens : Seq(Token), fault : {"none"}]]
  <2>1. BUILTINS \in Seq(B)
    BY ToolAssumption, ToolMatch DEF Tool!ToolAssumption
  <2>2. PICK b \in Tool!ToSet(BUILTINS) : r = b.pattern
    BY <1>1
  <2>3. b \in B
    <3> HIDE DEF B
    <3> QED
      BY <2>1 DEF Tool!ToSet
  <2>4. QED
    BY <2>2, <2>3
<1>5. CASE \E b \in Tool!ToSet(BUILTINS) : r = Library[b.name]
  <2> DEFINE D == {b.name : b \in Tool!ToSet(BUILTINS)}
             R == [tokens : Seq(Token), fault : {"none"}]
  <2>1. Library \in [D -> R]
    BY ToolAssumption, ToolMatch DEF Tool!ToolAssumption
  <2>2. PICK b \in Tool!ToSet(BUILTINS) : r = Library[b.name]
    BY <1>5
  <2>3. b.name \in D
    BY <2>2
  <2> HIDE DEF D
  <2>4. r \in R
    BY <2>1, <2>2, <2>3
  <2>5. QED
    BY <2>4
<1>2. CASE r \in Typed
  BY <1>2, ToolAssumption, ToolMatch DEF Tool!ToolAssumption
<1>3. CASE \E x \in Sample \cup {<<>>} : r = Tool!suggestRegex(x)
  <2>1. PICK x \in Sample \cup {<<>>} : r = Tool!suggestRegex(x)
    BY <1>3
  <2>2. x \in Seq(STRING)
    <3>1. Sample \cup Log \subseteq Seq(STRING)
      BY ToolAssumption DEF Tool!ToolAssumption
    <3>2. <<>> \in Seq(STRING)
      OBVIOUS
    <3>3. QED
      BY <2>1, <3>1, <3>2
  <2> DEFINE s == Tool!trim(x)
  <2>3. s \in Seq(STRING) /\ r = Tool!Suggested(s)
    BY <2>1, <2>2, TrimTyped DEF Tool!suggestRegex
  <2> HIDE DEF s
  <2>4. CASE s # <<>>
    BY <2>3, <2>4, SuggestedFits DEF Whole
  <2>5. CASE s = <<>>
    <3>1. r.tokens = <<>>
      BY <2>3, <2>5 DEF Tool!Suggested, Tool!ToSet
    <3>2. QED
      BY <3>1
  <2>6. QED
    BY <2>4, <2>5
<1>4. QED
  BY <1>1, <1>2, <1>3, <1>5 DEF Tool!Expression

FormInv == sampleLog \in Log \cup {<<>>}

LEMMA FormStep == FormInv /\ [Next]_vars => FormInv'
<1> SUFFICES ASSUME FormInv, [Next]_vars PROVE FormInv'
  OBVIOUS
<1>1. CASE Tool!PasteLog
  BY <1>1 DEF Tool!PasteLog, Tool!SetSampleLog, FormInv
<1>2. CASE UNCHANGED sampleLog
  BY <1>2 DEF FormInv
<1>3. CASE Tool!AddRow \/ Tool!RemoveSome \/ Tool!ToggleSome \/ Tool!ExportAs \/ Tool!NameNamespace
  BY <1>2, <1>3 DEF Tool!AddRow, Tool!RemoveSome, Tool!RemoveRow, Tool!ToggleSome, Tool!ToggleBuiltin,
                    Tool!ExportAs, Tool!SetTarget, Tool!NameNamespace, Tool!SetNamespace
<1>4. CASE \/ Tool!SetSomeTab \/ Tool!SetSomeName \/ Tool!SetSomeRegex
           \/ Tool!SetSomeSample \/ Tool!SuggestSome
  BY <1>2, <1>4 DEF Tool!SetSomeTab, Tool!SetTab, Tool!SetSomeName, Tool!SetName,
                    Tool!SetSomeRegex, Tool!SetRegex, Tool!SetSomeSample, Tool!SetSample,
                    Tool!SuggestSome, Tool!Suggest, Tool!updateCustom
<1>5. CASE UNCHANGED tool
  BY <1>2, <1>5 DEF tool
<1>6. QED
  BY <1>1, <1>3, <1>4, <1>5 DEF Next, ToolStep, GuideStep, OnTool, InTabs, InCopy, InFaq, vars

\* What the form offers to the preview.
Active == [name : STRING \cup Name, pattern : Tool!Expression, builtin : BOOLEAN]

LEMMA ActiveTyped == RowsInv => Tool!activePatterns \in Seq(Active)
<1> SUFFICES ASSUME RowsInv PROVE Tool!activePatterns \in Seq(Active)
  OBVIOUS
<1> DEFINE B        == [name : STRING, pattern : Tool!Expression]
           SB       == {b \in Tool!ToSet(BUILTINS) : b.name \in builtinChecked}
           SC       == {c \in Tool!ToSet(customs) : Tool!ActiveCustom(c)}
           builtins == Tool!Kept(BUILTINS, SB)
           used     == Tool!Kept(customs, SC)
           a == [i \in DOMAIN builtins |->
                   [name |-> builtins[i].name, pattern |-> builtins[i].pattern, builtin |-> TRUE]]
           b == [i \in DOMAIN used |->
                   [name |-> used[i].name, pattern |-> used[i].regex, builtin |-> FALSE]]
<1>1. Tool!activePatterns = a \o b
  BY DEF Tool!activePatterns
<1>2. BUILTINS \in Seq(B)
  <2> DEFINE Q == [name : STRING, pattern : [tokens : Seq(Token), fault : {"none"}]]
  <2>1. BUILTINS \in Seq(Q)
    BY ToolAssumption, ToolMatch DEF Tool!ToolAssumption
  <2>2. \A i \in 1..Len(BUILTINS) : BUILTINS[i] \in Q
    <3> HIDE DEF Q
    <3> QED
      BY <2>1
  <2>3. \A i \in 1..Len(BUILTINS) : BUILTINS[i].pattern \in Tool!Expression
    <3>1. \A i \in 1..Len(BUILTINS) : BUILTINS[i] \in Tool!ToSet(BUILTINS)
      BY <2>1 DEF Tool!ToSet
    <3>2. QED
      BY <3>1 DEF Tool!Expression
  <2>4. \A i \in 1..Len(BUILTINS) : BUILTINS[i] \in B
    BY <2>2, <2>3
  <2>5. BUILTINS \in [1..Len(BUILTINS) -> B] /\ Len(BUILTINS) \in Nat
    <3> HIDE DEF B, Q
    <3> QED
      BY <2>1, <2>4
  <2>6. QED
    BY <2>5, SequenceOf
<1>3. builtins \in Seq(B)
  <2> HIDE DEF B, SB
  <2>1. Kept(BUILTINS, SB) \in Seq(B \cap SB)
    BY <1>2, KeptIsSeq
  <2>2. QED
    BY <2>1, ToolKept
<1>4. used \in Seq(Rows)
  <2> HIDE DEF SC
  <2>1. Kept(customs, SC) \in Seq(Rows \cap SC)
    BY KeptIsSeq DEF RowsInv
  <2>2. QED
    BY <2>1, ToolKept
<1> HIDE DEF builtins, used
<1>5. a \in Seq(Active)
  <2>1. Len(builtins) \in Nat /\ DOMAIN builtins = 1..Len(builtins) /\ \A i \in 1..Len(builtins) : builtins[i] \in B
    <3> HIDE DEF B
    <3> QED
      BY <1>3
  <2>2. a \in [1..Len(builtins) -> Active]
    BY <2>1 DEF Active
  <2>3. QED
    BY <2>1, <2>2, SequenceOf
<1>6. b \in Seq(Active)
  <2>1. Len(used) \in Nat /\ DOMAIN used = 1..Len(used) /\ \A i \in 1..Len(used) : used[i] \in Rows
    BY <1>4
  <2>2. b \in [1..Len(used) -> Active]
    BY <2>1 DEF Active, Rows
  <2>3. QED
    BY <2>1, <2>2, SequenceOf
<1> HIDE DEF a, b
<1>7. QED
  BY <1>1, <1>5, <1>6, ConcatSeq

\* The text of the log line: its symbols, each with a place.
LogCell == [sym : STRING, id : {1} \X Nat]

LEMMA OriginalTyped == FormInv => Tool!Sidecar!Original(Tool!LogLine) \in Seq(LogCell)
<1> SUFFICES ASSUME FormInv PROVE Tool!Sidecar!Original(Tool!LogLine) \in Seq(LogCell)
  OBVIOUS
<1> DEFINE C == LogCell
           v == [p \in DOMAIN sampleLog |-> [sym |-> sampleLog[p], id |-> <<1, p>>]]
           parts == <<v>>
<1>1. sampleLog \in Seq(STRING)
  <2>1. Sample \cup Log \subseteq Seq(STRING)
    BY ToolAssumption DEF Tool!ToolAssumption
  <2>2. <<>> \in Seq(STRING)
    OBVIOUS
  <2>3. QED
    BY <2>1, <2>2 DEF FormInv
<1>2. v \in Seq(C)
  <2>1. Len(sampleLog) \in Nat /\ DOMAIN sampleLog = 1..Len(sampleLog)
    BY <1>1
  <2>2. \A p \in 1..Len(sampleLog) : sampleLog[p] \in STRING /\ p \in Nat
    BY <1>1
  <2>3. v \in [1..Len(sampleLog) -> C]
    BY <2>1, <2>2 DEF LogCell
  <2> HIDE DEF v, C
  <2>4. QED
    BY <2>1, <2>3, SequenceOf
<1>3. Tool!Sidecar!Original(Tool!LogLine) = FlattenSeq(parts)
  <2>1. Tool!LogLine.members = <<[path |-> <<>>, value |-> sampleLog]>> /\ Tool!LogLine.spaced = FALSE
    BY DEF Tool!LogLine
  <2> DEFINE ms == Tool!Sidecar!Members(Tool!LogLine)
  <2>2. ms = <<[path |-> <<>>, value |-> v]>>
    BY <2>1 DEF Tool!Sidecar!Members
  <2> HIDE DEF ms, v
  <2>3. /\ DOMAIN ms = {1} /\ ms[1].path = <<>> /\ ms[1].value = v
    <3> DEFINE x == [path |-> <<>>, value |-> v]
    <3>1. x.path = <<>> /\ x.value = v
      OBVIOUS
    <3>2. ms = <<x>>
      BY <2>2
    <3> HIDE DEF x
    <3>3. DOMAIN ms = {1} /\ ms[1] = x
      BY <3>2
    <3>4. QED
      BY <3>1, <3>3
  <2> DEFINE part(m) == [d \in DOMAIN ms[m].path |-> Tool!Sidecar!Cell(ms[m].path[d])] \o <<>>
                        \o ms[m].value \o (IF ms[m].path = <<>> THEN <<>> ELSE <<Tool!Sidecar!Cell(",")>>)
  <2>a. Tool!Sidecar!Text(ms, FALSE) = FlattenSeq([m \in {1} |-> part(m)])
    BY <2>3 DEF Tool!Sidecar!Text, Tool!Sidecar!FlattenSeq, FlattenSeq
  <2>b. part(1) = <<>> \o <<>> \o v \o <<>>
    <3>1. [d \in DOMAIN ms[1].path |-> Tool!Sidecar!Cell(ms[1].path[d])] = <<>>
      BY <2>3
    <3>2. QED
      BY <2>3, <3>1
  <2> HIDE DEF part
  <2>4. Tool!Sidecar!Text(ms, FALSE) = FlattenSeq([m \in {1} |-> <<>> \o <<>> \o v \o <<>>])
    <3>1. [m \in {1} |-> part(m)] = [m \in {1} |-> <<>> \o <<>> \o v \o <<>>]
      BY <2>b
    <3>2. QED
      BY <2>a, <3>1
  <2>5. <<>> \o <<>> \o v \o <<>> = v
    <3> HIDE DEF v, C
    <3> QED
      BY <1>2
  <2>6. [m \in {1} |-> v] = parts
    OBVIOUS
  <2>7. QED
    BY <2>1, <2>4, <2>5, <2>6 DEF Tool!Sidecar!Original, ms
<1>4. parts \in Seq(Seq(C))
  <2> HIDE DEF v, C
  <2> QED
    BY <1>2
<1> HIDE DEF parts, C
<1>5. FlattenSeq(parts) \in Seq(C)
  BY <1>4, Flattened
<1>6. QED
  BY <1>3, <1>5 DEF C

(* The segments of the preview make the log line, whichever patterns are    *)
(* ticked or typed and whatever they match, also an empty text: nothing of  *)
(* it is lost, repeated or moved (previewMasked).  For log lines of any     *)
(* length and any number of patterns.                                       *)
THEOREM PreviewKeepsTextHolds == Spec => []PreviewKeepsText
<1>1. ASSUME RowsInv, FormInv PROVE PreviewKeepsText
  <2> DEFINE log == Tool!Sidecar!Original(Tool!LogLine)
             active == Tool!activePatterns
  <2>1. log \in Seq(LogCell)
    BY <1>1, OriginalTyped
  <2>2. active \in Seq(Active) /\ \A p \in Active : p.pattern.tokens \in Seq(Token)
    BY <1>1, ActiveTyped, ExpressionTyped DEF Active
  <2> HIDE DEF log, active
  <2>3. TextOf(Tool!previewMasked(log, active)) = log
    BY <2>1, <2>2, PreviewKeeps
  <2>4. QED
    BY <2>3 DEF PreviewKeepsText, Tool!PreviewKeepsText, Tool!segments, TextOf, log, active,
                Tool!FlattenSeq, FlattenSeq
<1>2. Init => FormInv
  BY DEF Init, Tool!Init, FormInv
<1>3. QED
  BY <1>1, <1>2, RowsInit, RowsStep, FormStep, PTL DEF Spec

-----------------------------------------------------------------------------
(* What the sidecar makes of a text with one expression.                   *)

\* What replacing makes of a text from its i-th cell on, when it is known further on.
Put(t, re, x, i, from) ==
    IF i > Len(t) THEN <<>>
    ELSE IF MatchesAt(t, i, re) THEN <<x>> \o from[MatchEnd(t, i, re)]
    ELSE <<t[i]>> \o from[i + 1]

Replaced(t, re, x) ==
    LET from[i \in 1..(Len(t) + 1)] == Put(t, re, x, i, from) IN from[1]

Replaces(t, re, x, C, from) ==
    /\ from \in [1..(Len(t) + 1) -> Seq(C)]
    /\ \A i \in 1..(Len(t) + 1) : from[i] = Put(t, re, x, i, from)

\* An expression the sidecar's rules may have.
Usable(re) == re \in Seq(Token) /\ ~MatchesEmpty(re)

LEMMA Beyond ==
  ASSUME NEW C, NEW t \in Seq(C), NEW re, Usable(re), NEW i \in 1..(Len(t) + 1)
  PROVE  /\ MatchEnd(t, i, re) # 0 => MatchEnd(t, i, re) \in 1..(Len(t) + 1) /\ i < MatchEnd(t, i, re)
         /\ ~(i > Len(t)) => i + 1 \in 1..(Len(t) + 1) /\ i \in 1..Len(t)
<1> DEFINE e == MatchEnd(t, i, re)
           n == Len(t)
<1>1. n \in Nat /\ i \in 1..(n + 1)
  OBVIOUS
<1>2. e \in 0..(n + 1) /\ (e # 0 => i < e)
  BY MatchRange DEF Usable
<1> HIDE DEF e, n
<1>3. e # 0 => e \in 1..(n + 1) /\ i < e
  BY <1>1, <1>2
<1>4. ~(i > n) => i + 1 \in 1..(n + 1) /\ i \in 1..n
  BY <1>1
<1>5. QED
  BY <1>3, <1>4 DEF e, n

LEMMA PutTyped ==
  ASSUME NEW C, NEW t \in Seq(C), NEW re, Usable(re), NEW x \in C, NEW i \in 1..(Len(t) + 1), NEW f,
         \A j \in 1..(Len(t) + 1) : i < j => f[j] \in Seq(C)
  PROVE  Put(t, re, x, i, f) \in Seq(C)
<1> DEFINE e == MatchEnd(t, i, re)
<1>1. \A y \in C : <<y>> \in Seq(C)
  OBVIOUS
<1>2. CASE i > Len(t)
  BY <1>2 DEF Put
<1>3. CASE ~(i > Len(t)) /\ e # 0
  <2>1. f[e] \in Seq(C)
    BY <1>3, Beyond
  <2>2. Put(t, re, x, i, f) = <<x>> \o f[e]
    BY <1>3 DEF Put, MatchesAt
  <2>3. QED
    BY <1>1, <2>1, <2>2, ConcatSeq
<1>4. CASE ~(i > Len(t)) /\ e = 0
  <2>1. i + 1 \in 1..(Len(t) + 1) /\ i \in 1..Len(t)
    BY <1>4, Beyond
  <2>2. f[i + 1] \in Seq(C)
    BY <2>1
  <2>3. Put(t, re, x, i, f) = <<t[i]>> \o f[i + 1]
    BY <1>4 DEF Put, MatchesAt
  <2>4. <<t[i]>> \in Seq(C)
    BY <1>1, <2>1
  <2>5. QED
    BY <2>2, <2>3, <2>4, ConcatSeq
<1>5. QED
  BY <1>2, <1>3, <1>4

\* Replaced looks up the first entry of a table of rests.
LEMMA ReplacedTable ==
  ASSUME NEW C, NEW t \in Seq(C), NEW re, Usable(re), NEW x \in C
  PROVE  \E from : Replaces(t, re, x, C, from) /\ Replaced(t, re, x) = from[1]
<1> DEFINE N == Len(t)
           P == 1..(N + 1)
           X == Seq(C)
           Solved(f) == f = [i \in P |-> Put(t, re, x, i, f)]
           from == CHOOSE f : Solved(f)
           rank == [i \in P |-> N + 1 - i]
           body == [i \in P |-> [f \in [P -> X] |-> Put(t, re, x, i, f)]]
<1>1. N \in Nat /\ 1 \in P
  OBVIOUS
<1>2. Replaced(t, re, x) = from[1]
  BY DEF Replaced
<1>3. \A i \in P : \A f : (\A j \in P : i < j => f[j] \in X) => Put(t, re, x, i, f) \in X
  BY PutTyped
<1>4. \A i \in P : \A g, h :
          (\A j \in P : i < j => g[j] = h[j]) => Put(t, re, x, i, g) = Put(t, re, x, i, h)
  <2> SUFFICES ASSUME NEW i \in P, NEW g, NEW h, \A j \in P : i < j => g[j] = h[j]
               PROVE  Put(t, re, x, i, g) = Put(t, re, x, i, h)
    OBVIOUS
  <2> DEFINE e == MatchEnd(t, i, re)
  <2>1. (e # 0 => e \in P /\ i < e) /\ (~(i > N) => i + 1 \in P /\ i < i + 1)
    BY <1>1, Beyond
  <2> HIDE DEF e, P
  <2>2. QED
    BY <2>1 DEF Put, MatchesAt, e
<1> HIDE DEF N
<1>5. \E f \in [P -> X] : \A i \in P : f[i] = body[i][f]
  <2>1. rank \in [P -> 0..N]
    BY <1>1
  <2>2. body \in [P -> [[P -> X] -> X]]
    <3>1. \A i \in P : \A f \in [P -> X] : Put(t, re, x, i, f) \in X
      BY <1>3
    <3> HIDE DEF P, X
    <3>2. QED
      BY <3>1
  <2>3. ASSUME NEW i \in P, NEW g \in [P -> X], NEW h \in [P -> X],
               \A j \in P : rank[j] < rank[i] => g[j] = h[j]
        PROVE  body[i][g] = body[i][h]
    <3>1. \A j \in P : i < j => rank[j] < rank[i]
      BY <1>1
    <3>2. Put(t, re, x, i, g) = Put(t, re, x, i, h)
      BY <1>4, <2>3, <3>1
    <3> HIDE DEF P, X
    <3>3. QED
      BY <3>2
  <2>4. X # {}
    <3>1. <<>> \in X
      OBVIOUS
    <3>2. QED
      BY <3>1
  <2> HIDE DEF body, rank, X, P
  <2>5. Descends(P, X, N, rank, body)
    BY <2>1, <2>2, <2>3 DEF Descends
  <2>6. QED
    BY <1>1, <2>4, <2>5, Recursion
<1>6. PICK f \in [P -> X] : \A i \in P : f[i] = body[i][f]
  BY <1>5
<1>7. Solved(f)
  <2> HIDE DEF P, X
  <2>1. \A i \in P : f[i] = Put(t, re, x, i, f)
    BY <1>6
  <2>2. f = [i \in P |-> f[i]]
    BY <1>6
  <2>3. QED
    BY <2>1, <2>2
<1>8. Solved(from)
  <2> HIDE DEF Solved
  <2> QED
    BY <1>7, Zenon
<1> HIDE DEF from
<1>9. \A i \in P : from[i] = Put(t, re, x, i, from)
  <2> HIDE DEF P
  <2> QED
    BY <1>8
<1>10. \A i \in P : from[i] \in X
  <2> DEFINE T == {i \in P : from[i] \in X}
             K == N + 1
  <2>1. K \in Nat /\ P = 1..K
    BY <1>1
  <2>2. ASSUME NEW i \in P, \A j \in P : i < j => j \in T
        PROVE  i \in T
    BY <1>3, <1>9, <2>2
  <2> HIDE DEF T, K, P
  <2>3. \A i \in P : i \in T
    BY <2>1, <2>2, FromTheEnd
  <2>4. QED
    BY <2>3 DEF T
<1>11. from \in [P -> X]
  <2> HIDE DEF P, X
  <2>1. from = [i \in P |-> from[i]]
    BY <1>8, <1>9
  <2>2. QED
    BY <1>10, <2>1
<1>12. QED
  BY <1>2, <1>9, <1>11 DEF N, Replaces

\* One entry of such a table.
Entry(t, re, x, i, from) ==
    LET e == MatchEnd(t, i, re)
    IN  /\ e # 0 => e \in 1..(Len(t) + 1) /\ i < e /\ from[i] = <<x>> \o from[e]
        /\ e = 0 => from[i] = <<t[i]>> \o from[i + 1]

LEMMA Entries ==
  ASSUME NEW C, NEW t \in Seq(C), NEW re, Usable(re), NEW x, NEW from, Replaces(t, re, x, C, from)
  PROVE  /\ \A i \in 1..Len(t) : Entry(t, re, x, i, from)
         /\ from[Len(t) + 1] = <<>>
         /\ \A i \in 1..(Len(t) + 1) : from[i] \in Seq(C)
<1> DEFINE n == Len(t)
<1>1. /\ n \in Nat
      /\ \A i \in 1..(n + 1) : from[i] \in Seq(C) /\ from[i] = Put(t, re, x, i, from)
  BY DEF Replaces
<1>2. ASSUME NEW i \in 1..n PROVE Entry(t, re, x, i, from)
  <2> DEFINE e == MatchEnd(t, i, re)
  <2>1. i \in 1..(n + 1) /\ ~(i > n)
    BY <1>1
  <2>2. e # 0 => e \in 1..(n + 1) /\ i < e
    BY <2>1, Beyond
  <2>3. from[i] = IF e # 0 THEN <<x>> \o from[e] ELSE <<t[i]>> \o from[i + 1]
    BY <1>1, <2>1 DEF Put, MatchesAt
  <2> HIDE DEF e
  <2>4. QED
    BY <2>2, <2>3 DEF Entry, e
<1>3. from[n + 1] = <<>>
  <2>1. n + 1 \in 1..(n + 1) /\ n + 1 > n
    BY <1>1
  <2>2. QED
    BY <1>1, <2>1 DEF Put
<1>4. QED
  BY <1>1, <1>2, <1>3

Concat(t, u, v) == t = u \o v

SameFrom(f, g, k, m) == \A q \in 1..(m + 1) : f[k + q] = g[q]
GoOn(f, h, k) == \A p \in 1..(k + 1) : f[p] = h[p] \o f[k + 1]

\* What is made of a text does not depend on what stands before it, if there is
\* a strange symbol on one side of the seam.
LEMMA PutBehind ==
  ASSUME NEW C, NEW u \in Seq(C), NEW v \in Seq(C), NEW re, Usable(re), NEW x,
         \/ u = <<>> \/ Strange(u[Len(u)].sym, re)
         \/ v = <<>> \/ Strange(v[1].sym, re),
         NEW t, Concat(t, u, v), NEW f, Replaces(t, re, x, C, f), NEW g, Replaces(v, re, x, C, g)
  PROVE  SameFrom(f, g, Len(u), Len(v))
<1> DEFINE k == Len(u)
           m == Len(v)
           K == m + 1
           T == {q \in 1..K : f[k + q] = g[q]}
<1>1. /\ t \in Seq(C) /\ k \in Nat /\ m \in Nat /\ Len(t) = k + m
      /\ \A y \in 1..m : t[k + y] = v[y]
  BY DEF Concat
<1>2. /\ \A i \in 1..Len(t) : Entry(t, re, x, i, f)
      /\ f[Len(t) + 1] = <<>>
  <2>1. t \in Seq(C)
    BY <1>1
  <2>2. QED
    BY <2>1, Entries
<1>3. /\ \A i \in 1..m : Entry(v, re, x, i, g)
      /\ g[m + 1] = <<>>
  BY Entries
<1>4. ASSUME NEW q \in 1..K, \A j \in 1..K : q < j => j \in T PROVE q \in T
  <2>1. CASE q = m + 1
    <3>1. k + q = Len(t) + 1
      BY <1>1, <2>1
    <3>2. QED
      BY <1>2, <1>3, <2>1, <3>1
  <2>2. CASE q # m + 1
    <3> DEFINE e == MatchEnd(t, k + q, re)
               d == MatchEnd(v, q, re)
    <3>1. q \in 1..m /\ k + q \in 1..Len(t) /\ (k + q) + 1 = k + (q + 1) /\ q + 1 \in 1..K /\ q < q + 1
      <4> QED
        BY <1>1, <2>2
    <3>2. e = Moved(d, k)
      <4>1. CASE q > 1 \/ u = <<>> \/ Strange(u[Len(u)].sym, re)
        BY <4>1, MatchBehind DEF Usable, Concat
      <4>2. CASE ~(q > 1 \/ u = <<>> \/ Strange(u[Len(u)].sym, re))
        <5>1. q = 1 /\ v # <<>>
          BY <3>1, <4>2
        <5>2. Strange(v[q].sym, re) /\ t[k + q] = v[q]
          BY <1>1, <3>1, <4>2, <5>1
        <5>3. d = 0
          BY <3>1, <5>2, NoneAtStrange DEF Usable
        <5>4. e = 0
          <6> DEFINE b == k + q
          <6>1. b \in 1..Len(t) /\ Strange(t[b].sym, re)
            BY <3>1, <5>2
          <6> HIDE DEF b
          <6>2. MatchEnd(t, b, re) = 0
            BY <1>1, <6>1, NoneAtStrange DEF Usable
          <6>3. QED
            BY <6>2 DEF b
        <5>5. QED
          BY <5>3, <5>4 DEF Moved
      <4>3. QED
        BY <4>1, <4>2
    <3>3. Entry(t, re, x, k + q, f) /\ Entry(v, re, x, q, g) /\ t[k + q] = v[q]
      BY <1>1, <1>2, <1>3, <3>1
    <3>4. CASE d = 0
      <4>1. e = 0
        BY <3>2, <3>4 DEF Moved
      <4>2. f[k + q] = <<t[k + q]>> \o f[(k + q) + 1] /\ g[q] = <<v[q]>> \o g[q + 1]
        BY <3>3, <3>4, <4>1 DEF Entry
      <4>3. f[k + (q + 1)] = g[q + 1]
        BY <1>4, <3>1
      <4>4. QED
        BY <3>1, <3>3, <4>2, <4>3
    <3>5. CASE d # 0
      <4>1. e = k + d /\ d \in 1..K /\ q < d
        BY <3>2, <3>3, <3>5 DEF Moved, Entry
      <4>2. e # 0
        BY <1>1, <4>1
      <4>3. f[k + q] = <<x>> \o f[e] /\ g[q] = <<x>> \o g[d]
        BY <3>3, <3>5, <4>2 DEF Entry
      <4>4. f[k + d] = g[d]
        BY <1>4, <4>1
      <4>5. QED
        BY <4>1, <4>3, <4>4
    <3>6. QED
      BY <3>4, <3>5
  <2>3. QED
    BY <2>1, <2>2
<1>5. K \in Nat
  BY <1>1
<1> HIDE DEF T, K
<1>6. \A q \in 1..K : q \in T
  BY <1>4, <1>5, FromTheEnd
<1>7. QED
  BY <1>6 DEF T, K, SameFrom

\* No match goes beyond a strange symbol, so a text in front of it is on its own.
LEMMA PutBefore ==
  ASSUME NEW C, NEW u \in Seq(C), NEW v \in Seq(C), NEW re, Usable(re), NEW x \in C,
         v = <<>> \/ Strange(v[1].sym, re),
         NEW t, Concat(t, u, v), NEW f, Replaces(t, re, x, C, f), NEW h, Replaces(u, re, x, C, h)
  PROVE  GoOn(f, h, Len(u))
<1> DEFINE k == Len(u)
           r == f[k + 1]
           K == k + 1
           T == {p \in 1..K : f[p] = h[p] \o r}
<1>1. /\ t \in Seq(C) /\ k \in Nat /\ Len(v) \in Nat /\ Len(t) = k + Len(v)
      /\ \A y \in 1..k : t[y] = u[y]
  BY DEF Concat
<1>2. /\ \A i \in 1..Len(t) : Entry(t, re, x, i, f)
      /\ \A i \in 1..(Len(t) + 1) : f[i] \in Seq(C)
  BY <1>1, Entries
<1>3. /\ \A i \in 1..k : Entry(u, re, x, i, h)
      /\ h[k + 1] = <<>>
      /\ \A i \in 1..K : h[i] \in Seq(C)
  BY Entries
<1>4. r \in Seq(C)
  BY <1>1, <1>2
<1>5. \A y \in C : <<y>> \in Seq(C)
  OBVIOUS
<1> HIDE DEF r
<1>6. ASSUME NEW p \in 1..K, \A j \in 1..K : p < j => j \in T PROVE p \in T
  <2>1. CASE p = k + 1
    <3>1. <<>> \o r = r
      BY <1>4, ConcatEmptySeq
    <3>2. QED
      BY <1>3, <2>1, <3>1 DEF r
  <2>2. CASE p # k + 1
    <3> DEFINE e == MatchEnd(u, p, re)
    <3>1. p \in 1..k /\ p \in 1..Len(t) /\ p + 1 \in 1..K /\ p < p + 1
      <4> QED
        BY <1>1, <2>2
    <3>2. MatchEnd(t, p, re) = e
      BY MatchBefore DEF Usable, Concat
    <3>3. Entry(t, re, x, p, f) /\ Entry(u, re, x, p, h) /\ t[p] = u[p] /\ u[p] \in C
      BY <1>1, <1>2, <1>3, <3>1
    <3>4. CASE e = 0
      <4>1. f[p] = <<u[p]>> \o f[p + 1] /\ h[p] = <<u[p]>> \o h[p + 1]
        BY <3>2, <3>3, <3>4 DEF Entry
      <4>2. f[p + 1] = h[p + 1] \o r /\ h[p + 1] \in Seq(C)
        BY <1>3, <1>6, <3>1
      <4>3. Regroup(<<u[p]>>, h[p + 1], r)
        BY <1>4, <1>5, <3>3, <4>2, Associative
      <4>4. QED
        BY <4>1, <4>2, <4>3 DEF Regroup
    <3>5. CASE e # 0
      <4>1. e \in 1..K /\ p < e /\ f[p] = <<x>> \o f[e] /\ h[p] = <<x>> \o h[e]
        BY <3>2, <3>3, <3>5 DEF Entry
      <4>2. f[e] = h[e] \o r /\ h[e] \in Seq(C)
        BY <1>3, <1>6, <4>1
      <4>3. Regroup(<<x>>, h[e], r)
        BY <1>4, <1>5, <4>2, Associative
      <4>4. QED
        BY <4>1, <4>2, <4>3 DEF Regroup
    <3>6. QED
      BY <3>4, <3>5
  <2>3. QED
    BY <2>1, <2>2
<1>7. K \in Nat
  BY <1>1
<1> HIDE DEF T, K
<1>8. \A p \in 1..K : p \in T
  BY <1>6, <1>7, FromTheEnd
<1>9. QED
  BY <1>8 DEF T, K, r, GoOn

LEMMA ReplacedTyped ==
  ASSUME NEW C, NEW t \in Seq(C), NEW re, Usable(re), NEW x \in C
  PROVE  Replaced(t, re, x) \in Seq(C) /\ (t = <<>> => Replaced(t, re, x) = <<>>)
<1>1. PICK f : Replaces(t, re, x, C, f) /\ Replaced(t, re, x) = f[1]
  BY ReplacedTable
<1>2. f[Len(t) + 1] = <<>> /\ \A i \in 1..(Len(t) + 1) : f[i] \in Seq(C)
  BY <1>1, Entries
<1>3. 1 \in 1..(Len(t) + 1) /\ (t = <<>> => Len(t) + 1 = 1)
  OBVIOUS
<1>4. QED
  BY <1>1, <1>2, <1>3

\* In front of a strange symbol, or at the end, a text is masked on its own.
LEMMA ReplacedApart ==
  ASSUME NEW C, NEW u \in Seq(C), NEW v \in Seq(C), NEW re, Usable(re), NEW x \in C,
         v = <<>> \/ Strange(v[1].sym, re)
  PROVE  Replaced(u \o v, re, x) = Replaced(u, re, x) \o Replaced(v, re, x)
<1> DEFINE t == u \o v
<1>1. t \in Seq(C) /\ Len(u) \in Nat /\ Len(v) \in Nat
  OBVIOUS
<1>a. Concat(t, u, v)
  BY DEF Concat
<1> HIDE DEF t
<1>2. PICK f : Replaces(t, re, x, C, f) /\ Replaced(t, re, x) = f[1]
  BY <1>1, ReplacedTable
<1>3. PICK g : Replaces(v, re, x, C, g) /\ Replaced(v, re, x) = g[1]
  BY ReplacedTable
<1>4. PICK h : Replaces(u, re, x, C, h) /\ Replaced(u, re, x) = h[1]
  BY ReplacedTable
<1>5. 1 \in 1..(Len(u) + 1) /\ 1 \in 1..(Len(v) + 1)
  BY <1>1
<1>6. f[1] = h[1] \o f[Len(u) + 1]
  <2>1. GoOn(f, h, Len(u))
    BY <1>a, <1>2, <1>4, PutBefore
  <2>2. QED
    BY <1>5, <2>1 DEF GoOn
<1>7. f[Len(u) + 1] = g[1]
  <2>1. SameFrom(f, g, Len(u), Len(v))
    BY <1>a, <1>2, <1>3, PutBehind
  <2>2. QED
    BY <1>5, <2>1 DEF SameFrom
<1>8. QED
  BY <1>2, <1>3, <1>4, <1>6, <1>7 DEF t

\* A replacement that is strange stays, and what is behind it is masked on its own.
LEMMA ReplacedBehindMark ==
  ASSUME NEW C, NEW v \in Seq(C), NEW re, Usable(re), NEW x \in C, Strange(x.sym, re)
  PROVE  Replaced(<<x>> \o v, re, x) = <<x>> \o Replaced(v, re, x)
<1> DEFINE u == <<x>>
           t == u \o v
           e == MatchEnd(t, 1, re)
<1>1. u \in Seq(C) /\ Len(u) = 1 /\ u[1] = x /\ t \in Seq(C) /\ t[1] = x /\ 1 \in 1..Len(t) /\ 1 \in 1..(Len(v) + 1) /\ 1 + 1 = 2
  OBVIOUS
<1> HIDE DEF t, u
<1>2. PICK f : Replaces(t, re, x, C, f) /\ Replaced(t, re, x) = f[1]
  BY <1>1, ReplacedTable
<1>3. PICK g : Replaces(v, re, x, C, g) /\ Replaced(v, re, x) = g[1]
  BY ReplacedTable
<1>4. Entry(t, re, x, 1, f)
  BY <1>1, <1>2, Entries
<1>5. e = 0
  BY <1>1, NoneAtStrange DEF Usable
<1>6. f[1] = <<x>> \o f[2]
  BY <1>1, <1>4, <1>5 DEF Entry
<1>7. f[2] = g[1]
  <2>1. Concat(t, u, v)
    BY DEF Concat, t
  <2>2. SameFrom(f, g, Len(u), Len(v))
    BY <1>1, <1>2, <1>3, <2>1, PutBehind
  <2>3. QED
    BY <1>1, <2>2 DEF SameFrom
<1>8. QED
  BY <1>2, <1>3, <1>6, <1>7 DEF t, u

-----------------------------------------------------------------------------
(* What the sidecar would read for the segments of the preview.            *)

\* A masked segment has become x.
Mark(y, x) == IF y.masked THEN [text |-> <<x>>, masked |-> TRUE] ELSE y

Marked(segs, x) == [k \in DOMAIN segs |-> Mark(segs[k], x)]

Marks(m, segs, x) == Len(m) = Len(segs) /\ \A k \in 1..Len(segs) : m[k] = Mark(segs[k], x)

Render(segs, x) == TextOf(Marked(segs, x))

LEMMA MarkedTyped ==
  ASSUME NEW C, NEW x \in C, NEW a \in Seq(Segments(C))
  PROVE  Marked(a, x) \in Seq(Segments(C)) /\ Marks(Marked(a, x), a, x)
<1> DEFINE n == Len(a)
           m == Marked(a, x)
<1>1. n \in Nat /\ DOMAIN a = 1..n /\ \A k \in 1..n : a[k] \in Segments(C)
  OBVIOUS
<1>2. \A y \in Segments(C) : Mark(y, x) \in Segments(C)
  BY DEF Segments, Mark
<1> HIDE DEF n
<1>3. m = [k \in 1..n |-> Mark(a[k], x)]
  BY <1>1 DEF Marked
<1>4. m \in [1..n -> Segments(C)]
  BY <1>1, <1>2, <1>3
<1>5. m \in Seq(Segments(C)) /\ Len(m) = n
  BY <1>1, <1>4, SequenceOf
<1>6. \A k \in 1..n : m[k] = Mark(a[k], x)
  BY <1>3
<1>7. QED
  BY <1>5, <1>6 DEF n, Marks

LEMMA RenderTyped ==
  ASSUME NEW C, NEW x \in C, NEW a \in Seq(Segments(C))
  PROVE  Render(a, x) \in Seq(C)
  BY MarkedTyped, TextOfTyped DEF Render

LEMMA RenderNone == ASSUME NEW x PROVE Render(<<>>, x) = <<>>
<1>1. Marked(<<>>, x) = <<>>
  BY DEF Marked
<1>2. QED
  BY <1>1, TextOfNone DEF Render

LEMMA RenderOne ==
  ASSUME NEW C, NEW x \in C, NEW y \in Segments(C)
  PROVE  Render(<<y>>, x) = IF y.masked THEN <<x>> ELSE y.text
<1> DEFINE a == <<y>>
           z == Mark(y, x)
<1>1. a \in Seq(Segments(C)) /\ Len(a) = 1 /\ a[1] = y
  OBVIOUS
<1> HIDE DEF a
<1>2. /\ Marked(a, x) \in Seq(Segments(C)) /\ Len(Marked(a, x)) = 1
      /\ Marked(a, x)[1] = z
  <2>1. 1 \in 1..Len(a)
    BY <1>1
  <2>2. QED
    BY <1>1, <2>1, MarkedTyped DEF Marks
<1>3. z \in Segments(C) /\ z.text = IF y.masked THEN <<x>> ELSE y.text
  BY DEF Segments, Mark
<1> HIDE DEF z
<1>4. Marked(a, x) = <<z>>
  BY <1>2
<1>5. TextOf(<<z>>) = z.text
  BY <1>3, TextOfOne
<1>6. QED
  BY <1>3, <1>4, <1>5 DEF Render, a

Rendered(a, b, x) == Render(a \o b, x) = Render(a, x) \o Render(b, x)

LEMMA RenderBoth ==
  ASSUME NEW C, NEW x \in C, NEW a \in Seq(Segments(C)), NEW b \in Seq(Segments(C))
  PROVE  Rendered(a, b, x)
<1> DEFINE S == Segments(C)
           c == a \o b
           ma == Marked(a, x)
           mb == Marked(b, x)
           mc == Marked(c, x)
<1>1. /\ Len(a) \in Nat /\ Len(b) \in Nat
      /\ c \in Seq(S) /\ Len(c) = Len(a) + Len(b)
      /\ \A k \in 1..Len(a) : c[k] = a[k]
      /\ \A k \in 1..Len(b) : c[Len(a) + k] = b[k]
  <2>1. a \in Seq(S) /\ b \in Seq(S)
    OBVIOUS
  <2> HIDE DEF S
  <2>2. QED
    BY <2>1
<1> HIDE DEF c
<1>2. /\ ma \in Seq(S) /\ Marks(ma, a, x)
      /\ mb \in Seq(S) /\ Marks(mb, b, x)
      /\ mc \in Seq(S) /\ Marks(mc, c, x)
  BY <1>1, MarkedTyped
<1> HIDE DEF S, ma, mb, mc
<1>a. Len(ma) = Len(a) /\ Len(mb) = Len(b) /\ Len(mc) = Len(a) + Len(b)
  BY <1>1, <1>2 DEF Marks
<1>3. /\ ma \o mb \in Seq(S) /\ Len(ma \o mb) = Len(a) + Len(b)
      /\ \A k \in 1..Len(a) : (ma \o mb)[k] = ma[k]
      /\ \A k \in 1..Len(b) : (ma \o mb)[Len(a) + k] = mb[k]
  <2>1. Placed(ma, mb, S)
    BY <1>2, JoinedPlaces
  <2>2. QED
    BY <1>a, <2>1 DEF Placed
<1>4. ASSUME NEW k \in 1..(Len(a) + Len(b)) PROVE mc[k] = (ma \o mb)[k]
  <2>1. CASE k \in 1..Len(a)
    BY <1>1, <1>2, <1>3, <1>4, <2>1 DEF Marks
  <2>2. CASE k \notin 1..Len(a)
    <3>1. PICK j \in 1..Len(b) : k = Len(a) + j
      <4>1. k - Len(a) \in 1..Len(b) /\ k = Len(a) + (k - Len(a))
        BY <1>1, <2>2
      <4>2. QED
        BY <4>1
    <3>2. mc[k] = Mark(b[j], x)
      BY <1>1, <1>2, <1>4, <3>1 DEF Marks
    <3>3. QED
      BY <1>2, <1>3, <3>1, <3>2 DEF Marks
  <2>3. QED
    BY <2>1, <2>2
<1>5. mc = ma \o mb
  <2> DEFINE d == ma \o mb
  <2>1. d \in Seq(S) /\ Len(d) = Len(mc) /\ mc \in Seq(S) /\ \A k \in 1..Len(mc) : mc[k] = d[k]
    BY <1>1, <1>2, <1>a, <1>3, <1>4
  <2> HIDE DEF d
  <2>2. mc = d
    BY <2>1, SeqEqual
  <2>3. QED
    BY <2>2 DEF d
<1>6. Joined(ma, mb)
  BY <1>2, TextOfBoth DEF S
<1>7. QED
  BY <1>5, <1>6 DEF Joined, Rendered, Render, ma, mb, mc, c

-----------------------------------------------------------------------------
(* Between two segments that are not masked there is one that is.          *)

Sep(segs) ==
    \A k \in 1..Len(segs) : k + 1 \in 1..Len(segs) /\ ~segs[k].masked => segs[k + 1].masked

Heads(segs) == segs = <<>> \/ segs[1].masked

LEMMA SepBoth ==
  ASSUME NEW S, NEW a \in Seq(S), NEW b \in Seq(S), Sep(a), Sep(b),
         Heads(b) \/ a = <<>> \/ a[Len(a)].masked
  PROVE  Sep(a \o b)
<1> DEFINE c == a \o b
           n == Len(a)
           m == Len(b)
<1>1. /\ n \in Nat /\ m \in Nat /\ Len(c) = n + m
      /\ \A k \in 1..n : c[k] = a[k]
      /\ \A k \in 1..m : c[n + k] = b[k]
  OBVIOUS
<1>2. (a = <<>> => n = 0) /\ (b = <<>> => m = 0)
  OBVIOUS
<1> HIDE DEF c, n, m
<1>3. ASSUME NEW k \in 1..(n + m), k + 1 \in 1..(n + m), ~c[k].masked PROVE c[k + 1].masked
  <2>1. CASE k + 1 <= n
    <3>1. k \in 1..n /\ k + 1 \in 1..n
      BY <1>1, <2>1
    <3>2. QED
      BY <1>1, <1>3, <3>1 DEF Sep, n
  <2>2. CASE k = n
    <3>1. n \in 1..n /\ 1 \in 1..m /\ m # 0 /\ n # 0
      BY <1>1, <1>3, <2>2
    <3>2. c[n] = a[n] /\ c[n + 1] = b[1]
      BY <1>1, <3>1
    <3>3. QED
      BY <1>2, <1>3, <2>2, <3>1, <3>2 DEF Heads, n
  <2>3. CASE k > n
    <3>1. PICK j \in 1..m : k = n + j /\ j + 1 \in 1..m /\ k + 1 = n + (j + 1)
      <4>1. k - n \in 1..m /\ k = n + (k - n) /\ (k - n) + 1 \in 1..m /\ k + 1 = n + ((k - n) + 1)
        BY <1>1, <1>3, <2>3
      <4>2. QED
        BY <4>1
    <3>2. c[k] = b[j] /\ c[k + 1] = b[j + 1]
      BY <1>1, <3>1
    <3>3. QED
      BY <1>3, <3>1, <3>2 DEF Sep, m
  <2>4. QED
    BY <1>1, <2>1, <2>2, <2>3
<1>4. QED
  BY <1>1, <1>3 DEF Sep, c

-----------------------------------------------------------------------------
(* One expression in a text that no other has masked.                      *)

LEMMA FoundFirst ==
  ASSUME NEW C, NEW t \in Seq(C), NEW re \in Seq(Token), NEW p \in 1..Len(t)
  PROVE  /\ MatchEnd(t, p, re) # 0 => Tool!Found(t, p, re) = p
         /\ MatchEnd(t, p, re) = 0 => Tool!Found(t, p, re) = Tool!Found(t, p + 1, re)
<1> DEFINE n  == Len(t)
           at == {i \in p..(n + 1) : Tool!MatchesAt(t, i, re)}
           on == {i \in (p + 1)..(n + 1) : Tool!MatchesAt(t, i, re)}
<1>1. n \in Nat /\ p \in 1..n
  OBVIOUS
<1>2. /\ Tool!Found(t, p, re) = IF at = {} THEN 0 ELSE Tool!Min(at)
      /\ Tool!Found(t, p + 1, re) = IF on = {} THEN 0 ELSE Tool!Min(on)
  BY DEF Tool!Found
<1>3. \A i : Tool!MatchesAt(t, i, re) <=> MatchEnd(t, i, re) # 0
  BY ToolMatch DEF Tool!MatchesAt
<1> HIDE DEF n
<1>4. CASE MatchEnd(t, p, re) # 0
  <2>1. p \in at /\ at # {} /\ n + 1 \in Nat /\ at \in SUBSET (1..(n + 1))
    BY <1>1, <1>3, <1>4
  <2>a. \A i \in at : p <= i /\ i \in Nat
    BY <1>1
  <2> DEFINE m == Tool!Min(at)
  <2> HIDE DEF at
  <2>2. m \in at /\ \A i \in at : m <= i
    BY <2>1, Extremes
  <2> HIDE DEF m
  <2>3. m <= p /\ p <= m /\ m \in Nat /\ p \in Nat
    BY <2>1, <2>a, <2>2
  <2>4. m = p
    BY <2>3
  <2>5. QED
    BY <1>2, <1>4, <2>1, <2>4 DEF m
<1>5. CASE MatchEnd(t, p, re) = 0
  <2>1. at = on
    BY <1>1, <1>3, <1>5
  <2>2. QED
    BY <1>2, <1>5, <2>1
<1>6. QED
  BY <1>4, <1>5

\* What no expression masks in a text reads as it is.
LEMMA PlainRender ==
  ASSUME NEW C, NEW x \in C, NEW t \in Seq(C), NEW p \in 1..(Len(t) + 1), NEW i \in p..(Len(t) + 1)
  PROVE  Render(Tool!Plain(t, p, i - 1), x) = SubSeq(t, p, i - 1) /\ Sep(Tool!Plain(t, p, i - 1))
<1> DEFINE a == Tool!Plain(t, p, i - 1)
           text == SubSeq(t, p, i - 1)
           z == [text |-> text, masked |-> FALSE]
<1>1. text \in Seq(C)
  BY PlainText
<1>2. i - 1 < p => text = <<>>
  OBVIOUS
<1>3. a = IF i - 1 < p THEN <<>> ELSE <<z>>
  BY DEF Tool!Plain
<1> HIDE DEF text
<1>4. z \in Segments(C) /\ z.text = text /\ ~z.masked
  BY <1>1 DEF Segments
<1> HIDE DEF a, z
<1>5. CASE i - 1 < p
  <2>1. a = <<>> /\ text = <<>>
    BY <1>2, <1>3, <1>5 DEF a, text
  <2>2. Sep(<<>>) /\ Render(<<>>, x) = <<>>
    BY RenderNone DEF Sep
  <2>3. QED
    BY <2>1, <2>2 DEF a, text
<1>6. CASE ~(i - 1 < p)
  <2>1. a = <<z>>
    BY <1>3, <1>6
  <2>2. Render(<<z>>, x) = text
    BY <1>4, RenderOne
  <2>3. Len(a) = 1
    BY <2>1
  <2>4. Sep(a)
    BY <2>3 DEF Sep
  <2>5. QED
    BY <2>1, <2>2, <2>4 DEF a, text
<1>7. QED
  BY <1>5, <1>6

Behind(f, t, p, C) == \A j \in 1..(Len(t) + 1) : p < j => f[j] \in Seq(Segments(C)) /\ Sep(f[j])

Reads(segs, x, a, b) == Render(segs, x) = a \o (<<x>> \o b) /\ Sep(segs)

\* A search that finds a match: what is in front of it, the match, and the rest.
LEMMA RestOf ==
  ASSUME NEW C, NEW x \in C, NEW t \in Seq(C), NEW re, Usable(re), NEW p \in 1..(Len(t) + 1), NEW f,
         Behind(f, t, p, C),
         NEW i \in p..(Len(t) + 1), Tool!Found(t, p, re) = i,
         NEW e \in p..(Len(t) + 1), MatchEnd(t, i, re) = e
  PROVE  Reads(Rest(t, re, p, f), x, SubSeq(t, p, i - 1), Render(f[e], x))
<1> DEFINE n == Len(t)
           S == Segments(C)
           a == Tool!Plain(t, p, i - 1)
           b == Tool!Masked(t, i, e - 1)
           c == f[e]
           text == SubSeq(t, p, i - 1)
           y == [text |-> SubSeq(t, i, e - 1), masked |-> TRUE]
           z == [text |-> text, masked |-> FALSE]
<1>1. n \in Nat /\ i \in 1..(n + 1) /\ e \in 1..(n + 1) /\ i # 0 /\ e # 0
  OBVIOUS
<1>2. i < e
  BY <1>1, Beyond
<1>3. Tool!MatchEnd(t, i, re) = e
  BY ToolMatch
<1>4. Rest(t, re, p, f) = (a \o b) \o c
  <2>1. e # i /\ i # 0 /\ Tool!Found(t, p, re) = i
    BY <1>1, <1>2
  <2> HIDE DEF n, S, text, y, z
  <2>2. QED
    BY <1>3, <2>1, Zenon DEF Rest
<1>5. e \in i..(n + 1)
  BY <1>1, <1>2
<1>6. text \in Seq(C) /\ (i - 1 < p => text = <<>>) /\ a \in Seq(S) /\ b \in Seq(S) /\ SubSeq(t, i, e - 1) \in Seq(C)
  <2>1. text \in Seq(C) /\ a \in Seq(S)
    BY PlainText
  <2>2. SubSeq(t, i, e - 1) \in Seq(C) /\ b \in Seq(S)
    <3>1. i \in 1..(Len(t) + 1) /\ e \in i..(Len(t) + 1)
      BY <1>1, <1>5
    <3>2. QED
      BY <3>1, PlainText
  <2>3. i - 1 < p => text = <<>>
    OBVIOUS
  <2>4. QED
    BY <2>1, <2>2, <2>3
<1>7. y \in S /\ z \in S
  BY <1>6 DEF Segments
<1>8. c \in Seq(S) /\ Sep(c)
  <2>1. p < e
    BY <1>1, <1>2
  <2>2. QED
    BY <1>1, <2>1 DEF Behind
<1>9. b = <<y>> /\ y.masked
  BY DEF Tool!Masked
<1>10. a = IF i - 1 < p THEN <<>> ELSE <<z>>
  BY DEF Tool!Plain
<1>11. z.text = text /\ ~z.masked
  OBVIOUS
<1> HIDE DEF a, b, c, y, z, text, n
<1>12. Render(a, x) = text /\ Sep(a)
  BY PlainRender DEF a, text
<1>13. Render(b, x) = <<x>> /\ Sep(b) /\ Heads(b) /\ b # <<>> /\ Len(b) = 1 /\ b[1].masked
  <2>1. Render(<<y>>, x) = <<x>>
    BY <1>7, <1>9, RenderOne DEF S
  <2>2. Len(b) = 1 /\ b[1] = y /\ b # <<>>
    BY <1>9
  <2>3. QED
    BY <1>9, <2>1, <2>2 DEF Sep, Heads
<1>14. a \o b \in Seq(S) /\ Sep(a \o b)
  <2> HIDE DEF S
  <2>1. QED
    BY <1>6, <1>12, <1>13, SepBoth, ConcatSeq
<1>15. (a \o b)[Len(a \o b)].masked
  <2>1. Placed(a, b, S)
    <3> HIDE DEF S
    <3> QED
      BY <1>6, JoinedPlaces
  <2>2. 1 \in 1..Len(b) /\ Len(a \o b) = Len(a) + 1
    BY <1>13, <2>1 DEF Placed
  <2>3. (a \o b)[Len(a) + 1] = b[1]
    BY <2>1, <2>2 DEF Placed
  <2>4. QED
    BY <1>13, <2>2, <2>3
<1>16. Sep((a \o b) \o c)
  <2> DEFINE ab == a \o b
  <2>1. ab \in Seq(S) /\ Sep(ab) /\ ab[Len(ab)].masked
    BY <1>14, <1>15
  <2> HIDE DEF ab, S
  <2>2. Sep(ab \o c)
    BY <1>8, <2>1, SepBoth
  <2>3. QED
    BY <2>2 DEF ab
<1>17. Rendered(a, b, x) /\ Rendered(a \o b, c, x)
  BY <1>6, <1>8, <1>14, RenderBoth DEF S
<1>18. Regroup(text, <<x>>, Render(c, x))
  <2>1. Render(c, x) \in Seq(C) /\ <<x>> \in Seq(C)
    BY <1>8, RenderTyped DEF S
  <2>2. QED
    BY <1>6, <2>1, Associative
<1>19. QED
  BY <1>2, <1>4, <1>12, <1>13, <1>16, <1>17, <1>18 DEF Rendered, Regroup, Reads, c, text

\* At the end of a text there is nothing to find.
LEMMA FoundNone ==
  ASSUME NEW C, NEW t \in Seq(C), NEW re, Usable(re)
  PROVE  Tool!Found(t, Len(t) + 1, re) = 0
<1> DEFINE n == Len(t)
           at == {i \in (n + 1)..(n + 1) : Tool!MatchesAt(t, i, re)}
<1>1. n \in Nat /\ n + 1 \in 1..(n + 1)
  OBVIOUS
<1>2. MatchEnd(t, n + 1, re) = 0
  <2> DEFINE e == MatchEnd(t, n + 1, re)
  <2>1. e # 0 => e \in 1..(n + 1) /\ n + 1 < e
    BY <1>1, Beyond
  <2> HIDE DEF e, n
  <2>2. e = 0
    BY <1>1, <2>1
  <2>3. QED
    BY <2>2 DEF e
<1>3. at = {}
  <2>1. \A i \in (n + 1)..(n + 1) : i = n + 1
    BY <1>1
  <2>2. ~Tool!MatchesAt(t, n + 1, re)
    BY <1>2, ToolMatch DEF Tool!MatchesAt
  <2> HIDE DEF n
  <2>3. QED
    BY <2>1, <2>2
<1>4. QED
  BY <1>3 DEF Tool!Found

\* The tables of the preview and of the sidecar read the same.
LEMMA SplitEntry ==
  ASSUME NEW C, NEW x \in C, NEW t \in Seq(C), NEW re, Usable(re),
         NEW f, Splits(t, re, C, f), NEW g, Replaces(t, re, x, C, g),
         NEW p \in 1..(Len(t) + 1),
         \A j \in 1..(Len(t) + 1) : p < j => Sep(f[j]) /\ Render(f[j], x) = g[j]
  PROVE  Sep(f[p]) /\ Render(f[p], x) = g[p]
<1> DEFINE n == Len(t)
           q == p + 1
<1>1. n \in Nat /\ p \in 1..(n + 1) /\ n + 1 \in p..(n + 1) /\ (n + 1) - 1 = n
  OBVIOUS
<1>2. \A j \in 1..(n + 1) : f[j] \in Seq(Segments(C)) /\ f[j] = Rest(t, re, j, f)
  BY DEF Splits
<1>3. /\ \A i \in 1..n : Entry(t, re, x, i, g)
      /\ g[n + 1] = <<>>
      /\ \A i \in 1..(n + 1) : g[i] \in Seq(C)
  BY Entries
<1>4. Behind(f, t, p, C)
  BY <1>2 DEF Behind
<1>5. \A y \in C : <<y>> \in Seq(C)
  OBVIOUS
<1>6. CASE p = n + 1
  <2>1. f[p] = Tool!Plain(t, p, (n + 1) - 1)
    <3>1. f[p] = Tool!Plain(t, p, n)
      BY <1>1, <1>2, <1>6, FoundNone DEF Rest
    <3>2. QED
      BY <1>1, <3>1
  <2>2. SubSeq(t, p, (n + 1) - 1) = <<>>
    BY <1>1, <1>6
  <2>3. QED
    BY <1>1, <1>3, <1>6, <2>1, <2>2, PlainRender
<1>7. CASE p # n + 1 /\ MatchEnd(t, p, re) # 0
  <2> DEFINE e == MatchEnd(t, p, re)
  <2>1. p \in 1..n /\ p \in p..(n + 1)
    BY <1>1, <1>7
  <2>2. e \in p..(n + 1) /\ p < e /\ e \in 1..(n + 1) /\ g[p] = <<x>> \o g[e]
    <3>1. Entry(t, re, x, p, g)
      BY <1>3, <2>1
    <3>2. e \in 1..(n + 1) /\ p < e /\ g[p] = <<x>> \o g[e]
      BY <1>7, <3>1 DEF Entry
    <3>3. e \in p..(n + 1)
      BY <1>1, <3>2
    <3>4. QED
      BY <3>2, <3>3
  <2>3. Tool!Found(t, p, re) = p
    BY <1>7, <2>1, FoundFirst DEF Usable
  <2>4. Sep(f[p]) /\ Render(f[p], x) = SubSeq(t, p, p - 1) \o (<<x>> \o Render(f[e], x))
    <3>1. MatchEnd(t, p, re) = e
      OBVIOUS
    <3> HIDE DEF e
    <3>2. Reads(Rest(t, re, p, f), x, SubSeq(t, p, p - 1), Render(f[e], x))
      BY <1>4, <2>1, <2>2, <2>3, <3>1, RestOf
    <3>3. QED
      BY <1>2, <3>2 DEF Reads
  <2>5. SubSeq(t, p, p - 1) = <<>>
    BY <2>1
  <2>6. Render(f[e], x) = g[e]
    BY <2>2
  <2>7. <<x>> \o g[e] \in Seq(C)
    BY <1>3, <1>5, <2>2, ConcatSeq
  <2>8. <<>> \o (<<x>> \o g[e]) = <<x>> \o g[e]
    BY <2>7, ConcatEmptySeq
  <2>9. QED
    BY <2>2, <2>4, <2>5, <2>6, <2>8
<1>8. CASE p # n + 1 /\ MatchEnd(t, p, re) = 0
  <2> DEFINE i == Tool!Found(t, q, re)
  <2>1. p \in 1..n /\ q \in 1..(n + 1) /\ q \in p..(n + 1) /\ p < q /\ n + 1 \in q..(n + 1) /\ q - 1 = p
    BY <1>1, <1>8
  <2>2. Tool!Found(t, p, re) = i
    BY <1>8, <2>1, FoundFirst DEF Usable
  <2>3. g[p] = <<t[p]>> \o g[q] /\ t[p] \in C
    <3>1. Entry(t, re, x, p, g)
      BY <1>3, <2>1
    <3>2. QED
      BY <1>8, <2>1, <3>1 DEF Entry
  <2>4. Render(f[q], x) = g[q]
    BY <2>1
  <2>5. SubSeq(t, p, q - 1) = <<t[p]>>
    <3> DEFINE w == SubSeq(t, p, p)
    <3>1. w \in Seq(C) /\ Len(w) = 1 /\ w[1] = t[p]
      BY <2>1
    <3> HIDE DEF w
    <3>2. w = <<t[p]>>
      BY <3>1
    <3>3. QED
      BY <2>1, <3>2 DEF w
  <2> HIDE DEF q
  <2>6. CASE i = 0
    <3>1. f[p] = Tool!Plain(t, p, (n + 1) - 1) /\ f[q] = Tool!Plain(t, q, (n + 1) - 1)
      <4>1. f[p] = Tool!Plain(t, p, n) /\ f[q] = Tool!Plain(t, q, n)
        BY <1>2, <2>1, <2>2, <2>6 DEF Rest
      <4>2. QED
        BY <1>1, <4>1
    <3>2. Sep(f[p]) /\ Render(f[p], x) = SubSeq(t, p, (n + 1) - 1)
      BY <1>1, <3>1, PlainRender
    <3>3. Render(f[q], x) = SubSeq(t, q, (n + 1) - 1)
      <4>1. Render(Tool!Plain(t, q, (n + 1) - 1), x) = SubSeq(t, q, (n + 1) - 1)
        BY <2>1, PlainRender
      <4>2. QED
        BY <3>1, <4>1
    <3>4. SubSeq(t, p, q - 1) \o SubSeq(t, q, (n + 1) - 1) = SubSeq(t, p, (n + 1) - 1)
      BY <2>1, SubSeqJoin
    <3>5. QED
      BY <2>3, <2>4, <2>5, <3>2, <3>3, <3>4
  <2>7. CASE i # 0
    <3>1. PICK j \in q..(n + 1), e \in q..(n + 1) :
             Tool!Found(t, q, re) = j /\ Tool!MatchEnd(t, j, re) = e
      BY <2>1, <2>7, FoundWhere DEF Usable
    <3>2. MatchEnd(t, j, re) = e
      BY <3>1, ToolMatch
    <3>3. j \in p..(n + 1) /\ e \in p..(n + 1) /\ e \in 1..(n + 1)
      BY <1>1, <2>1, <3>1
    <3>4. Tool!Found(t, p, re) = j
      BY <2>2, <3>1
    <3> DEFINE a == SubSeq(t, p, j - 1)
               b == SubSeq(t, q, j - 1)
               c == <<x>> \o Render(f[e], x)
    <3>5. Sep(f[p]) /\ Render(f[p], x) = a \o c
      <4>1. Reads(Rest(t, re, p, f), x, SubSeq(t, p, j - 1), Render(f[e], x))
        BY <1>4, <3>2, <3>3, <3>4, RestOf
      <4>2. QED
        BY <1>2, <4>1 DEF Reads
    <3>6. Render(f[q], x) = b \o c
      <4>1. Behind(f, t, q, C)
        BY <1>1, <1>4, <2>1 DEF Behind
      <4>2. Reads(Rest(t, re, q, f), x, SubSeq(t, q, j - 1), Render(f[e], x))
        BY <2>1, <3>1, <3>2, <4>1, RestOf
      <4>3. f[q] = Rest(t, re, q, f)
        BY <1>2, <2>1
      <4>4. QED
        BY <4>2, <4>3 DEF Reads
    <3>7. a = <<t[p]>> \o b
      <4>1. SubSeq(t, p, q - 1) \o b = a
        BY <2>1, <3>1, SubSeqJoin
      <4>2. QED
        BY <2>5, <4>1
    <3>8. Regroup(<<t[p]>>, b, c)
      <4>1. b \in Seq(C)
        BY <2>1, <3>1, PlainText
      <4>2. c \in Seq(C)
        BY <1>2, <1>5, <3>3, RenderTyped, ConcatSeq
      <4>3. <<t[p]>> \in Seq(C)
        BY <1>5, <2>3
      <4> HIDE DEF b, c
      <4>4. QED
        BY <4>1, <4>2, <4>3, Associative
    <3> HIDE DEF a, b, c
    <3>9. QED
      BY <2>3, <2>4, <3>5, <3>6, <3>7, <3>8 DEF Regroup
  <2>8. QED
    BY <2>6, <2>7
<1>9. QED
  BY <1>6, <1>7, <1>8

\* In the preview a text is masked as the sidecar masks it.
LEMMA SplitRender ==
  ASSUME NEW C, NEW x \in C, NEW t \in Seq(C), NEW re, Usable(re)
  PROVE  /\ Render(Tool!Split(t, re), x) = Replaced(t, re, x)
         /\ Sep(Tool!Split(t, re))
         /\ Tool!Split(t, re) \in Seq(Segments(C))
<1> DEFINE K == Len(t) + 1
<1>1. PICK f : Splits(t, re, C, f) /\ Tool!Split(t, re) = f[1]
  BY SplitTable DEF Usable
<1>2. PICK g : Replaces(t, re, x, C, g) /\ Replaced(t, re, x) = g[1]
  BY ReplacedTable
<1> DEFINE T == {p \in 1..K : Sep(f[p]) /\ Render(f[p], x) = g[p]}
<1>3. \A p \in 1..K : (\A j \in 1..K : p < j => j \in T) => p \in T
  BY <1>1, <1>2, SplitEntry
<1>4. K \in Nat /\ 1 \in 1..K
  OBVIOUS
<1>a. f[1] \in Seq(Segments(C))
  BY <1>1, <1>4 DEF Splits
<1> HIDE DEF T, K
<1>5. 1 \in T
  BY <1>3, <1>4, FromTheEnd
<1>6. QED
  BY <1>1, <1>2, <1>5, <1>a DEF T

-----------------------------------------------------------------------------
(* One pattern in turn.                                                    *)

\* What becomes of a segment.
Part(y, p) == IF y.masked THEN <<y>> ELSE Tool!Split(y.text, p.pattern.tokens)

Parts(s, p) == [k \in DOMAIN s |-> Part(s[k], p)]

LEMMA PartTyped ==
  ASSUME NEW C, NEW p, p.pattern.tokens \in Seq(Token), NEW y \in Segments(C)
  PROVE  Part(y, p) \in Seq(Segments(C))
<1>1. y.text \in Seq(C) /\ <<y>> \in Seq(Segments(C))
  BY DEF Segments
<1>2. Tool!Split(y.text, p.pattern.tokens) \in Seq(Segments(C))
  BY <1>1, SplitKeeps
<1>3. QED
  BY <1>1, <1>2 DEF Part

LEMMA PartsTyped ==
  ASSUME NEW C, NEW p, p.pattern.tokens \in Seq(Token), NEW s \in Seq(Segments(C))
  PROVE  /\ Parts(s, p) \in Seq(Seq(Segments(C))) /\ Len(Parts(s, p)) = Len(s)
         /\ \A k \in 1..Len(s) : Parts(s, p)[k] = Part(s[k], p)
<1> DEFINE n == Len(s)
           X == Seq(Segments(C))
           c == Parts(s, p)
<1>1. n \in Nat /\ DOMAIN s = 1..n /\ \A k \in 1..n : s[k] \in Segments(C)
  OBVIOUS
<1>2. \A k \in 1..n : Part(s[k], p) \in X
  BY <1>1, PartTyped
<1>3. c = [k \in 1..n |-> Part(s[k], p)]
  BY <1>1 DEF Parts
<1> HIDE DEF c, X, n
<1>4. c \in [1..n -> X] /\ \A k \in 1..n : c[k] = Part(s[k], p)
  BY <1>2, <1>3
<1>5. c \in Seq(X) /\ Len(c) = n
  BY <1>1, <1>4, SequenceOf
<1>6. QED
  BY <1>4, <1>5 DEF X, c, n

TurnsApart(y, rest, p) == Tool!Turn(<<y>> \o rest, p) = Part(y, p) \o Tool!Turn(rest, p)

LEMMA TurnParts == ASSUME NEW s, NEW p PROVE Tool!Turn(s, p) = FlattenSeq(Parts(s, p))
  BY DEF Tool!Turn, Tool!FlattenSeq, FlattenSeq, Parts, Part

LEMMA TurnCons ==
  ASSUME NEW C, NEW p, p.pattern.tokens \in Seq(Token), NEW y \in Segments(C), NEW rest \in Seq(Segments(C))
  PROVE  TurnsApart(y, rest, p)
<1> DEFINE S == Segments(C)
           X == Seq(S)
           s == <<y>> \o rest
           z == Part(y, p)
           a == <<z>>
           b == Parts(rest, p)
           c == Parts(s, p)
           n == Len(rest)
<1>1. /\ s \in Seq(S) /\ Len(s) = 1 + n /\ n \in Nat
      /\ s[1] = y /\ \A k \in 1..n : s[1 + k] = rest[k]
  <2>1. y \in S /\ rest \in Seq(S)
    OBVIOUS
  <2> HIDE DEF S
  <2>2. QED
    BY <2>1
<1> HIDE DEF s
<1>2. /\ c \in Seq(X) /\ Len(c) = 1 + n
      /\ \A k \in 1..(1 + n) : c[k] = Part(s[k], p)
  BY <1>1, PartsTyped
<1>3. /\ b \in Seq(X) /\ Len(b) = n
      /\ \A k \in 1..n : b[k] = Part(rest[k], p)
  BY PartsTyped
<1>4. z \in X
  BY PartTyped
<1> HIDE DEF X, z, b, c, n
<1>5. a \in Seq(X) /\ Len(a) = 1 /\ a[1] = z
  BY <1>4
<1> HIDE DEF a
<1>6. Placed(a, b, X)
  BY <1>3, <1>5, JoinedPlaces
<1>7. ASSUME NEW k \in 1..(1 + n) PROVE c[k] = (a \o b)[k]
  <2>1. CASE k = 1
    <3>1. 1 \in 1..Len(a) /\ 1 \in 1..(1 + n)
      BY <1>1, <1>5
    <3>2. (a \o b)[1] = z
      BY <1>5, <1>6, <3>1 DEF Placed
    <3>3. QED
      BY <1>1, <1>2, <2>1, <3>1, <3>2 DEF z
  <2>2. CASE k # 1
    <3>1. PICK j \in 1..n : k = 1 + j
      <4>1. k - 1 \in 1..n /\ k = 1 + (k - 1)
        BY <1>1, <2>2
      <4>2. QED
        BY <4>1
    <3>2. (a \o b)[1 + j] = b[j]
      BY <1>3, <1>5, <1>6, <3>1 DEF Placed
    <3>3. QED
      BY <1>1, <1>2, <1>3, <3>1, <3>2
  <2>3. QED
    BY <2>1, <2>2
<1>8. c = a \o b
  <2> DEFINE d == a \o b
  <2>1. d \in Seq(X) /\ Len(d) = Len(c) /\ c \in Seq(X) /\ \A k \in 1..Len(c) : c[k] = d[k]
    BY <1>2, <1>3, <1>5, <1>6, <1>7 DEF Placed
  <2> HIDE DEF d
  <2>2. c = d
    BY <2>1, SeqEqual
  <2>3. QED
    BY <2>2 DEF d
<1>9. FlattenSeq(c) = FlattenSeq(a) \o FlattenSeq(b)
  BY <1>3, <1>5, <1>8, FlattenConcat DEF X
<1>10. FlattenSeq(a) = z
  BY <1>4, FlattenOne DEF X, a
<1>11. QED
  BY <1>9, <1>10, TurnParts DEF TurnsApart, z, b, c, s

\* A masked segment reads as the replacement.
LEMMA HeadsRender ==
  ASSUME NEW C, NEW x \in C, NEW y \in Segments(C), y.masked, NEW rest \in Seq(Segments(C))
  PROVE  Render(<<y>> \o rest, x) = <<x>> \o Render(rest, x)
<1>1. <<y>> \in Seq(Segments(C))
  <2> DEFINE S == Segments(C)
  <2>1. y \in S
    OBVIOUS
  <2> HIDE DEF S
  <2>2. <<y>> \in Seq(S)
    BY <2>1
  <2>3. QED
    BY <2>2 DEF S
<1>2. Rendered(<<y>>, rest, x)
  BY <1>1, RenderBoth
<1>3. Render(<<y>>, x) = <<x>>
  BY RenderOne
<1>4. QED
  BY <1>2, <1>3 DEF Rendered

\* What one pattern makes of segments, against what the sidecar makes of their text.
Agreeing(segs, x, p, C) ==
    LET after == Tool!Turn(segs, p)
    IN  /\ after \in Seq(Segments(C))
        /\ Render(after, x) = Replaced(Render(segs, x), p.pattern.tokens, x)
        /\ Sep(after)
        /\ Heads(segs) => Heads(after)

LEMMA AgreeingNone ==
  ASSUME NEW C, NEW x \in C, NEW p, Usable(p.pattern.tokens)
  PROVE  Agreeing(<<>>, x, p, C)
<1>1. Tool!Turn(<<>>, p) = <<>>
  <2>1. Parts(<<>>, p) = <<>>
    BY DEF Parts
  <2>2. FlattenSeq(<<>>) = <<>>
    <3>1. \A k \in 1..0 : FALSE
      OBVIOUS
    <3> DEFINE w == <<>>
    <3>2. w \in Seq({}) /\ Len(w) = 0
      OBVIOUS
    <3>3. w = [k \in 1..Len(w) |-> <<w[k]>>]
      OBVIOUS
    <3>4. QED
      BY <3>2, <3>3, FlattenSingles
  <2>3. QED
    BY <2>1, <2>2, TurnParts
<1>2. Render(<<>>, x) = <<>>
  BY RenderNone
<1>3. Replaced(<<>>, p.pattern.tokens, x) = <<>>
  <2>1. <<>> \in Seq(C)
    OBVIOUS
  <2>2. QED
    BY <2>1, ReplacedTyped
<1>4. Sep(<<>>) /\ Heads(<<>>) /\ <<>> \in Seq(Segments(C))
  BY DEF Sep, Heads
<1>5. QED
  BY <1>1, <1>2, <1>3, <1>4 DEF Agreeing

LEMMA AgreeingMasked ==
  ASSUME NEW C, NEW x \in C, NEW p, Usable(p.pattern.tokens), Strange(x.sym, p.pattern.tokens),
         NEW y \in Segments(C), y.masked, NEW rest \in Seq(Segments(C)), Agreeing(rest, x, p, C)
  PROVE  Agreeing(<<y>> \o rest, x, p, C)
<1> DEFINE S == Segments(C)
           re == p.pattern.tokens
           s == <<y>> \o rest
           a == <<y>>
           b == Tool!Turn(rest, p)
<1>1. b \in Seq(S) /\ Render(b, x) = Replaced(Render(rest, x), re, x) /\ Sep(b)
  BY DEF Agreeing
<1>2. Tool!Turn(s, p) = a \o b
  <2>1. TurnsApart(y, rest, p)
    BY TurnCons DEF Usable
  <2>2. QED
    BY <2>1 DEF TurnsApart, Part
<1>3. a \in Seq(S) /\ Len(a) = 1 /\ a[1] = y /\ a # <<>> /\ y \in S
  <2>1. y \in S
    OBVIOUS
  <2> HIDE DEF S
  <2>2. QED
    BY <2>1
<1>4. Render(a \o b, x) = <<x>> \o Render(b, x)
  <2> HIDE DEF b
  <2> QED
    BY <1>1, HeadsRender
<1>5. Render(s, x) = <<x>> \o Render(rest, x)
  BY HeadsRender
<1>6. Replaced(<<x>> \o Render(rest, x), re, x) = <<x>> \o Replaced(Render(rest, x), re, x)
  <2>1. Render(rest, x) \in Seq(C)
    BY RenderTyped
  <2>2. QED
    BY <2>1, ReplacedBehindMark
<1> HIDE DEF a, b, s, re, S
<1>7. Sep(a) /\ a[Len(a)].masked /\ Heads(a)
  BY <1>3 DEF Sep, Heads
<1>8. Sep(a \o b) /\ a \o b \in Seq(S)
  BY <1>1, <1>3, <1>7, SepBoth, ConcatSeq
<1>9. Heads(a \o b)
  <2>1. (a \o b)[1] = y
    BY <1>1, <1>3
  <2>2. QED
    BY <2>1 DEF Heads
<1>10. QED
  BY <1>1, <1>2, <1>4, <1>5, <1>6, <1>8, <1>9 DEF Agreeing, s, S, re

LEMMA AgreeingPlain ==
  ASSUME NEW C, NEW x \in C, NEW p, Usable(p.pattern.tokens), Strange(x.sym, p.pattern.tokens),
         NEW y \in Segments(C), ~y.masked, NEW rest \in Seq(Segments(C)), Agreeing(rest, x, p, C),
         Heads(rest)
  PROVE  Agreeing(<<y>> \o rest, x, p, C)
<1> DEFINE S == Segments(C)
           re == p.pattern.tokens
           s == <<y>> \o rest
           a == Tool!Split(y.text, re)
           b == Tool!Turn(rest, p)
           r == Render(rest, x)
<1>1. b \in Seq(S) /\ Render(b, x) = Replaced(r, re, x) /\ Sep(b) /\ Heads(b)
  BY DEF Agreeing
<1>2. Tool!Turn(s, p) = a \o b
  <2>1. TurnsApart(y, rest, p)
    BY TurnCons DEF Usable
  <2>2. QED
    BY <2>1 DEF TurnsApart, Part
<1>3. y.text \in Seq(C)
  BY DEF Segments
<1>4. a \in Seq(S) /\ Sep(a) /\ Render(a, x) = Replaced(y.text, re, x)
  BY <1>3, SplitRender
<1>5. Rendered(a, b, x)
  <2> HIDE DEF a, b
  <2> QED
    BY <1>1, <1>4, RenderBoth
<1>6. Render(s, x) = y.text \o r
  <2>1. <<y>> \in Seq(S)
    <3>1. y \in S
      OBVIOUS
    <3> HIDE DEF S
    <3>2. QED
      BY <3>1
  <2>2. Rendered(<<y>>, rest, x)
    BY <2>1, RenderBoth
  <2>3. Render(<<y>>, x) = y.text
    BY RenderOne
  <2>4. QED
    BY <2>2, <2>3 DEF Rendered
<1>7. r \in Seq(C)
  BY RenderTyped
<1>8. r = <<>> \/ Strange(r[1].sym, re)
  <2>1. CASE rest = <<>>
    BY <2>1, RenderNone
  <2>2. CASE rest # <<>>
    <3> DEFINE h == rest[1]
               t == Tail(rest)
    <3>1. rest = <<h>> \o t /\ h \in S /\ t \in Seq(S)
      <4>1. rest \in Seq(S)
        OBVIOUS
      <4> HIDE DEF S
      <4>2. QED
        BY <2>2, <4>1
    <3>2. h.masked
      BY <2>2 DEF Heads
    <3>3. Render(t, x) \in Seq(C)
      BY <3>1, RenderTyped
    <3> HIDE DEF h, t
    <3>4. r = <<x>> \o Render(t, x)
      BY <3>1, <3>2, HeadsRender
    <3>5. (<<x>> \o Render(t, x))[1] = x
      BY <3>3
    <3>6. QED
      BY <3>4, <3>5
  <2>3. QED
    BY <2>1, <2>2
<1> HIDE DEF r
<1>9. Replaced(y.text \o r, re, x) = Replaced(y.text, re, x) \o Replaced(r, re, x)
  <2>1. Usable(re)
    OBVIOUS
  <2> DEFINE u == y.text
  <2>2. u \in Seq(C)
    BY <1>3
  <2> HIDE DEF re, a, b, s, u
  <2>3. Replaced(u \o r, re, x) = Replaced(u, re, x) \o Replaced(r, re, x)
    BY <1>7, <1>8, <2>1, <2>2, ReplacedApart
  <2>4. QED
    BY <2>3 DEF u
<1> HIDE DEF a, b, S
<1>10. Sep(a \o b) /\ a \o b \in Seq(S)
  BY <1>1, <1>4, SepBoth, ConcatSeq
<1>11. ~Heads(s)
  <2>1. s[1] = y /\ s # <<>>
    <3>1. Len(s) = 1 + Len(rest) /\ s[1] = y
      OBVIOUS
    <3>2. Len(rest) \in Nat
      OBVIOUS
    <3> HIDE DEF s
    <3>3. s # <<>>
      BY <3>1, <3>2
    <3>4. QED
      BY <3>1, <3>3
  <2>2. QED
    BY <2>1 DEF Heads
<1> HIDE DEF s, re
<1>12. QED
  BY <1>1, <1>2, <1>4, <1>5, <1>6, <1>9, <1>10, <1>11 DEF Agreeing, Rendered, s, S, re

LEMMA TurnRender ==
  ASSUME NEW C, NEW x \in C, NEW p, Usable(p.pattern.tokens), Strange(x.sym, p.pattern.tokens),
         NEW segs \in Seq(Segments(C)), Sep(segs)
  PROVE  Agreeing(segs, x, p, C)
<1> DEFINE S == Segments(C)
           n == Len(segs)
           K == n + 1
           on(i) == SubSeq(segs, i, n)
           T == {i \in 1..K : Agreeing(on(i), x, p, C)}
<1>0. segs \in Seq(S)
  OBVIOUS
<1> HIDE DEF S
<1>a. n \in Nat
  BY <1>0
<1>1. n \in Nat /\ on(1) = segs /\ on(K) = <<>> /\ K \in Nat /\ 1 \in 1..K
  BY <1>0
<1>2. \A i \in 1..n : /\ on(i + 1) \in Seq(S) /\ on(i) = <<segs[i]>> \o on(i + 1) /\ segs[i] \in S
                      /\ i + 1 \in 1..K /\ i < i + 1
                      /\ Len(on(i + 1)) = n - i
                      /\ i # n => on(i + 1)[1] = segs[i + 1] /\ i + 1 \in 1..n
  <2> TAKE i \in 1..n
  <2>1. on(i + 1) \in Seq(S) /\ Len(on(i + 1)) = n - i
    <3>1. CASE i = n
      <4>1. on(i + 1) = <<>>
        BY <1>1, <3>1
      <4>2. Len(<<>>) = 0 /\ <<>> \in Seq(S)
        OBVIOUS
      <4> HIDE DEF on, n
      <4>3. n - i = 0
        BY <1>a, <3>1
      <4>4. QED
        BY <4>1, <4>2, <4>3
    <3>2. CASE i # n
      <4>1. i + 1 \in 1..n /\ n \in 1..n /\ i + 1 <= n
        <5> HIDE DEF n, on
        <5> QED
          BY <1>a, <3>2
      <4>2. on(i + 1) \in Seq(S)
        BY <1>0, <4>1
      <4>3. Len(on(i + 1)) = n - (i + 1) + 1
        BY <1>0, <4>1
      <4> HIDE DEF on, n
      <4>4. (n - (i + 1)) + 1 = n - i
        BY <1>a
      <4>5. QED
        BY <4>2, <4>3, <4>4
    <3>3. QED
      BY <3>1, <3>2
  <2>2. on(i) = <<segs[i]>> \o on(i + 1)
    BY <1>0, <1>1
  <2>3. segs[i] \in S
    BY <1>0
  <2>4. i # n => on(i + 1)[1] = segs[i + 1] /\ i + 1 \in 1..n
    <3> SUFFICES ASSUME i # n PROVE on(i + 1)[1] = segs[i + 1] /\ i + 1 \in 1..n
      OBVIOUS
    <3> DEFINE j == i + 1
    <3>1. j \in 1..n
      <4> HIDE DEF n, on
      <4> QED
        BY <1>a
    <3> HIDE DEF j
    <3>2. SubSeq(segs, j, n)[1] = segs[j]
      BY <1>0, <3>1
    <3>3. QED
      BY <3>1, <3>2 DEF j
  <2>5. i + 1 \in 1..K /\ i < i + 1
    BY <1>1
  <2> HIDE DEF on, n, K
  <2>6. QED
    BY <2>1, <2>2, <2>3, <2>4, <2>5
<1>3. ASSUME NEW i \in 1..K, \A j \in 1..K : i < j => j \in T PROVE i \in T
  <2>1. CASE i = K
    BY <1>1, <2>1, AgreeingNone
  <2>2. CASE i # K
    <3> DEFINE y == segs[i]
               rest == on(i + 1)
    <3>1. i \in 1..n
      BY <1>1, <2>2
    <3>2. i + 1 \in T
      BY <1>2, <1>3, <3>1
    <3>3. /\ rest \in Seq(S) /\ on(i) = <<y>> \o rest /\ y \in S
          /\ Len(rest) = n - i
          /\ i # n => rest[1] = segs[i + 1] /\ i + 1 \in 1..n
      BY <1>2, <3>1
    <3>4. Agreeing(rest, x, p, C)
      BY <3>2
    <3>5. ~y.masked => Heads(rest)
      <4>1. CASE i = n
        <5>1. Len(rest) = 0
          BY <1>1, <3>3, <4>1
        <5> HIDE DEF rest
        <5>2. rest = <<>>
          BY <3>3, <5>1
        <5>3. QED
          BY <5>2 DEF Heads
      <4>2. CASE i # n
        BY <3>1, <3>3, <4>2 DEF Sep, Heads
      <4>3. QED
        BY <4>1, <4>2
    <3> HIDE DEF rest, y, on
    <3>6. CASE y.masked
      <4>1. Agreeing(<<y>> \o rest, x, p, C)
        BY <3>3, <3>4, <3>6, AgreeingMasked DEF S
      <4>2. QED
        BY <3>3, <4>1
    <3>7. CASE ~y.masked
      <4>1. Agreeing(<<y>> \o rest, x, p, C)
        BY <3>3, <3>4, <3>5, <3>7, AgreeingPlain DEF S
      <4>2. QED
        BY <3>3, <4>1
    <3>8. QED
      BY <3>6, <3>7
  <2>3. QED
    BY <2>1, <2>2
<1> HIDE DEF T, K
<1>4. 1 \in T
  BY <1>1, <1>3, FromTheEnd
<1>5. QED
  BY <1>1, <1>4 DEF T

-----------------------------------------------------------------------------
(* What the sidecar makes of the log line.                                 *)

SideCell == [sym : STRING \cup {"[REDACTED]"}, id : {0, 1} \X Nat]

Redacted == [sym |-> "[REDACTED]", id |-> <<0, 0>>]

Label == STRING \cup Name

Rule == [name : Label, pattern : Tool!Expression, field : {""}, replace : {"[REDACTED]"}]

LEMMA RedactedTyped == Redacted \in SideCell
<1> DEFINE i == <<0, 0>>
           D == {0, 1} \X Nat
           S == STRING \cup {"[REDACTED]"}
<1>1. i \in D /\ "[REDACTED]" \in S
  OBVIOUS
<1> HIDE DEF i, D, S
<1>2. [sym |-> "[REDACTED]", id |-> i] \in [sym : S, id : D]
  BY <1>1
<1>3. QED
  BY <1>2 DEF Redacted, SideCell, i, D, S

LEMMA SidecarMatch ==
  /\ \A t, i, re : Tool!Sidecar!MatchEnd(t, i, re) = MatchEnd(t, i, re)
  /\ \A t, i, re : Tool!Sidecar!MatchesAt(t, i, re) = MatchesAt(t, i, re)
<1>1. \A t, i, re : Tool!Sidecar!MatchEnd(t, i, re) = MatchEnd(t, i, re)
  BY DEF Tool!Sidecar!MatchEnd, MatchEnd, Tool!Sidecar!Ends, Ends,
         Tool!Sidecar!WordEdge, WordEdge, Tool!Sidecar!Max, Max
<1>2. QED
  BY <1>1 DEF Tool!Sidecar!MatchesAt, MatchesAt

\* What the sidecar adds at position i for a match of nothing.
Empty(t, re, x, i) == IF MatchEnd(t, i, re) = i THEN <<x>> ELSE <<>>

\* One position of its replacement.
PutAll(t, re, x, i, from) ==
    IF i > Len(t) THEN <<>>
    ELSE IF Consumes(t, i, re) THEN <<x>> \o from[MatchEnd(t, i, re)]
    ELSE <<t[i]>> \o Empty(t, re, x, i + 1) \o from[i + 1]

ReplacedAll(t, re, x) ==
    LET from[i \in 1..(Len(t) + 1)] == PutAll(t, re, x, i, from) IN Empty(t, re, x, 1) \o from[1]

\* An expression that takes something wherever it matches adds nothing else.
LEMMA UsablePut ==
  ASSUME NEW C, NEW t \in Seq(C), NEW re, Usable(re), NEW x
  PROVE  /\ \A i \in 1..(Len(t) + 1) : Empty(t, re, x, i) = <<>>
         /\ \A i \in 1..(Len(t) + 1) : \A from : PutAll(t, re, x, i, from) = Put(t, re, x, i, from)
<1>1. ASSUME NEW i \in 1..(Len(t) + 1)
      PROVE  Empty(t, re, x, i) = <<>> /\ (Consumes(t, i, re) <=> MatchesAt(t, i, re))
  <2> DEFINE e == MatchEnd(t, i, re)
  <2>1. e # 0 => i < e /\ e \in 1..(Len(t) + 1)
    BY Beyond
  <2>2. i \in Nat /\ i # 0
    OBVIOUS
  <2> HIDE DEF e
  <2>3. e # i /\ (e > i <=> e # 0)
    BY <2>1, <2>2
  <2>4. QED
    BY <2>3 DEF Empty, Consumes, MatchesAt, e
<1>2. ASSUME NEW i \in 1..(Len(t) + 1), NEW from
      PROVE  PutAll(t, re, x, i, from) = Put(t, re, x, i, from)
  <2>1. CASE i > Len(t)
    BY <2>1 DEF PutAll, Put
  <2>2. CASE ~(i > Len(t))
    <3> DEFINE a == <<t[i]>>
    <3>1. i + 1 \in 1..(Len(t) + 1) /\ i \in 1..Len(t)
      BY <2>2
    <3>2. Empty(t, re, x, i + 1) = <<>> /\ (Consumes(t, i, re) <=> MatchesAt(t, i, re))
      BY <1>1, <3>1
    <3>3. a \in Seq(C)
      BY <3>1
    <3> HIDE DEF a
    <3>4. a \o <<>> = a
      BY <3>3
    <3>5. a \o Empty(t, re, x, i + 1) = a
      BY <3>2, <3>4
    <3>6. QED
      BY <2>2, <3>2, <3>5 DEF PutAll, Put, a
  <2>3. QED
    BY <2>1, <2>2
<1>3. QED
  BY <1>1, <1>2

LEMMA SidecarReplaces ==
  ASSUME NEW C, NEW t \in Seq(C), NEW re, Usable(re), Redacted \in C
  PROVE  Tool!Sidecar!ReplaceMatches(t, re, "[REDACTED]") = Replaced(t, re, Redacted)
<1> DEFINE x == Redacted
           P == 1..(Len(t) + 1)
           F(f) == f = [i \in P |-> Put(t, re, x, i, f)]
           G(f) == f = [i \in P |-> PutAll(t, re, x, i, f)]
           r == CHOOSE f : F(f)
           s == CHOOSE f : G(f)
<1>1. Tool!Sidecar!ReplaceMatches(t, re, "[REDACTED]") = ReplacedAll(t, re, x)
  <2>1. Tool!Sidecar!Cell("[REDACTED]") = x
    BY DEF Tool!Sidecar!Cell, Tool!Sidecar!Added, Redacted
  <2>2. \A i : Tool!Sidecar!Consumes(t, i, re) <=> Consumes(t, i, re)
    BY SidecarMatch DEF Tool!Sidecar!Consumes, Consumes
  <2> HIDE DEF x
  <2>3. QED
    BY <2>1, <2>2, SidecarMatch DEF Tool!Sidecar!ReplaceMatches, ReplacedAll, PutAll, Empty
<1>2. ReplacedAll(t, re, x) = Empty(t, re, x, 1) \o s[1] /\ Replaced(t, re, x) = r[1]
  BY DEF ReplacedAll, Replaced
<1>3. 1 \in P
  OBVIOUS
<1>4. \A i \in P : Empty(t, re, x, i) = <<>> /\ \A f : PutAll(t, re, x, i, f) = Put(t, re, x, i, f)
  BY UsablePut
<1>5. \A f : F(f) <=> G(f)
  <2> SUFFICES ASSUME NEW f PROVE [i \in P |-> Put(t, re, x, i, f)] = [i \in P |-> PutAll(t, re, x, i, f)]
    OBVIOUS
  <2> HIDE DEF P, x
  <2>1. QED
    BY <1>4
<1>6. r = s
  <2> HIDE DEF F, G
  <2>1. QED
    BY <1>5, Zenon
<1>7. Replaced(t, re, x) \in Seq(C)
  BY ReplacedTyped
<1> HIDE DEF r, s
<1>8. Empty(t, re, x, 1) = <<>>
  BY <1>3, <1>4
<1> HIDE DEF x, P
<1> DEFINE y == Replaced(t, re, x)
<1>9. <<>> \o y = y
  <2>1. y \in Seq(C)
    BY <1>7
  <2> HIDE DEF y
  <2>2. QED
    BY <2>1
<1>10. s[1] = y
  BY <1>2, <1>6
<1> HIDE DEF y
<1>11. ReplacedAll(t, re, x) = y
  BY <1>2, <1>8, <1>9, <1>10
<1>12. QED
  BY <1>1, <1>11 DEF x, y

Results == [text : Seq(SideCell), matched : SUBSET Label]

LEMMA SidecarApplies ==
  ASSUME NEW acc \in Results, NEW r \in Rule, Usable(r.pattern.tokens)
  PROVE  /\ Tool!Sidecar!Apply(acc, r) \in Results
         /\ Tool!Sidecar!Apply(acc, r).text = Replaced(acc.text, r.pattern.tokens, Redacted)
<1> DEFINE re == r.pattern.tokens
           t  == Replaced(acc.text, re, Redacted)
           W  == [e \in Tool!Expression |-> e.tokens]
           a  == Tool!Sidecar!Apply(acc, r)
<1>1. r.pattern \in Tool!Expression /\ r.replace = "[REDACTED]" /\ r.name \in Label
  BY DEF Rule
<1>2. W[r.pattern] = re
  BY <1>1
<1>3. acc.text \in Seq(SideCell) /\ acc.matched \in SUBSET Label
  BY DEF Results
<1>4. t \in Seq(SideCell)
  BY <1>3, RedactedTyped, ReplacedTyped
<1>5. Tool!Sidecar!ReplaceMatches(acc.text, W[r.pattern], r.replace) = t
  BY <1>1, <1>2, <1>3, RedactedTyped, SidecarReplaces
<1> HIDE DEF t
<1>6. a = [text |-> t, matched |-> IF t = acc.text THEN acc.matched ELSE acc.matched \cup {r.name}]
  BY <1>5 DEF Tool!Sidecar!Apply
<1>7. QED
  BY <1>1, <1>3, <1>4, <1>6 DEF Results, t

LEMMA AllRules ==
  ASSUME NEW rules \in Seq(Rule)
  PROVE  Tool!Sidecar!RegexRules(rules) = rules
<1> DEFINE n == Len(rules)
           S == {r \in Tool!Sidecar!ToSet(rules) : ~Tool!Sidecar!IsField(r)}
           s == [k \in 1..n |-> <<rules[k]>>]
<1>1. n \in Nat /\ DOMAIN rules = 1..n /\ \A k \in 1..n : rules[k] \in Rule
  OBVIOUS
<1>2. \A k \in 1..n : rules[k] \in S
  <2>1. \A r \in Rule : ~Tool!Sidecar!IsField(r)
    BY DEF Rule, Tool!Sidecar!IsField
  <2>2. QED
    BY <1>1, <2>1 DEF Tool!Sidecar!ToSet
<1>3. Tool!Sidecar!RegexRules(rules) = Tool!Sidecar!Kept(rules, S)
  BY DEF Tool!Sidecar!RegexRules
<1> HIDE DEF S
<1>4. Tool!Sidecar!Kept(rules, S) = Kept(rules, S)
  BY DEF Tool!Sidecar!Kept, Kept, Tool!Sidecar!FlattenSeq, FlattenSeq
<1>5. Kept(rules, S) = FlattenSeq(s)
  <2>1. [i \in DOMAIN rules |-> IF rules[i] \in S THEN <<rules[i]>> ELSE <<>>] = s
    BY <1>1, <1>2
  <2> HIDE DEF s
  <2>2. QED
    BY <2>1 DEF Kept
<1>6. FlattenSeq(s) = rules
  BY FlattenSingles
<1>7. QED
  BY <1>3, <1>4, <1>5, <1>6

\* The texts the sidecar has before any rule, and after the n-th.
Runs(rules, line, texts) ==
    /\ texts \in [0..Len(rules) -> Seq(SideCell)]
    /\ texts[0] = line
    /\ \A n \in 1..Len(rules) : texts[n] = Replaced(texts[n - 1], rules[n].pattern.tokens, Redacted)

LEMMA SidecarRun ==
  ASSUME NEW rules \in Seq(Rule), \A n \in 1..Len(rules) : Usable(rules[n].pattern.tokens),
         NEW original \in Seq(SideCell), original = Tool!Sidecar!Original(Tool!LogLine)
  PROVE  \E texts : /\ Runs(rules, original, texts)
                    /\ Tool!Sidecar!MaskLine(Tool!LogLine, rules).text = texts[Len(rules)]
<1> DEFINE N == Len(rules)
           X == Results
           first == [text |-> original, matched |-> {}]
           Solved(f) == f = [n \in 0..N |-> IF n = 0 THEN first ELSE Tool!Sidecar!Apply(f[n - 1], rules[n])]
           run == CHOOSE f : Solved(f)
           rank == [n \in 0..N |-> n]
           body == [n \in 0..N |-> [f \in [0..N -> X] |->
                       IF n = 0 THEN first ELSE Tool!Sidecar!Apply(f[n - 1], rules[n])]]
<1>1. N \in Nat /\ \A n \in 1..N : rules[n] \in Rule /\ Usable(rules[n].pattern.tokens)
  OBVIOUS
<1>2. Tool!Sidecar!MaskLine(Tool!LogLine, rules) = run[N]
  <2> DEFINE frs == Tool!Sidecar!FieldRules(rules)
  <2>1. Tool!Sidecar!MaskFields(Tool!LogLine, frs) = first
    <3>1. Tool!LogLine.object = FALSE
      BY DEF Tool!LogLine
    <3>2. QED
      BY <3>1 DEF Tool!Sidecar!MaskFields
  <2> HIDE DEF frs
  <2>2. Tool!Sidecar!MaskLine(Tool!LogLine, rules) = Tool!Sidecar!RunRules(Tool!LogLine, frs, rules)
    BY AllRules DEF Tool!Sidecar!MaskLine, frs
  <2> HIDE DEF first
  <2>3. Tool!Sidecar!RunRules(Tool!LogLine, frs, rules) = run[N]
    BY <2>1 DEF Tool!Sidecar!RunRules
  <2>4. QED
    BY <2>2, <2>3
<1>3. first \in X
  BY DEF Results
<1>4. \A n \in 1..N : \A acc \in X :
         /\ Tool!Sidecar!Apply(acc, rules[n]) \in X
         /\ Tool!Sidecar!Apply(acc, rules[n]).text = Replaced(acc.text, rules[n].pattern.tokens, Redacted)
  BY <1>1, SidecarApplies
<1>a. first.text = original
  OBVIOUS
<1>b. \A r \in X : r.text \in Seq(SideCell)
  BY DEF Results
<1> HIDE DEF N, X, first
<1>5. \A n \in 0..N : n # 0 => n \in 1..N /\ n - 1 \in 0..N /\ n - 1 < n
  BY <1>1
<1>6. \E f \in [0..N -> X] : \A n \in 0..N : f[n] = body[n][f]
  <2>1. rank \in [0..N -> 0..N]
    OBVIOUS
  <2>2. body \in [0..N -> [[0..N -> X] -> X]]
    <3>1. \A n \in 0..N : \A f \in [0..N -> X] :
             (IF n = 0 THEN first ELSE Tool!Sidecar!Apply(f[n - 1], rules[n])) \in X
      BY <1>3, <1>4, <1>5
    <3>2. QED
      BY <3>1
  <2>3. ASSUME NEW n \in 0..N, NEW g \in [0..N -> X], NEW h \in [0..N -> X],
               \A m \in 0..N : rank[m] < rank[n] => g[m] = h[m]
        PROVE  body[n][g] = body[n][h]
    <3>1. n # 0 => g[n - 1] = h[n - 1]
      BY <1>5, <2>3
    <3>2. QED
      BY <3>1
  <2>4. X # {}
    BY <1>3
  <2> HIDE DEF body, rank
  <2> DEFINE I == 0..N
  <2>5. Descends(I, X, N, rank, body)
    BY <2>1, <2>2, <2>3 DEF Descends
  <2> HIDE DEF I
  <2>6. \E f \in [I -> X] : \A n \in I : f[n] = body[n][f]
    BY <1>1, <2>4, <2>5, Recursion
  <2>7. QED
    BY <2>6 DEF I
<1>7. PICK f \in [0..N -> X] : \A n \in 0..N : f[n] = body[n][f]
  BY <1>6
<1>8. Solved(f)
  <2>1. \A n \in 0..N : f[n] = IF n = 0 THEN first ELSE Tool!Sidecar!Apply(f[n - 1], rules[n])
    BY <1>7
  <2>2. f = [n \in 0..N |-> f[n]]
    BY <1>7
  <2>3. QED
    BY <2>1, <2>2
<1>9. Solved(run)
  <2> HIDE DEF Solved
  <2> QED
    BY <1>8, Zenon
<1> HIDE DEF run
<1>10. run[0] = first /\ \A n \in 1..N : run[n] = Tool!Sidecar!Apply(run[n - 1], rules[n])
  <2>1. \A n \in 0..N : run[n] = IF n = 0 THEN first ELSE Tool!Sidecar!Apply(run[n - 1], rules[n])
    BY <1>9
  <2>2. 0 \in 0..N /\ \A n \in 1..N : n \in 0..N /\ n # 0
    BY <1>1
  <2>3. QED
    BY <2>1, <2>2
<1> DEFINE T == {n \in 0..N : run[n] \in X}
<1>11. 0 \in T
  BY <1>1, <1>3, <1>10
<1>12. ASSUME NEW n \in 0..N, n # N, n \in T PROVE n + 1 \in T
  <2> DEFINE m == n + 1
  <2>1. m \in 1..N /\ m \in 0..N /\ m - 1 = n
    BY <1>1, <1>12
  <2> HIDE DEF m
  <2>2. run[m] = Tool!Sidecar!Apply(run[n], rules[m]) /\ run[n] \in X
    BY <1>10, <1>12, <2>1
  <2>3. m \in T
    BY <1>4, <2>1, <2>2
  <2>4. QED
    BY <2>3 DEF m
<1>13. \A n \in 0..N : n \in T
  <2> HIDE DEF T
  <2> QED
    BY <1>1, <1>11, <1>12, Climb
<1> DEFINE texts == [n \in 0..N |-> run[n].text]
<1>14. texts \in [0..N -> Seq(SideCell)] /\ texts[0] = original
  BY <1>1, <1>a, <1>b, <1>10, <1>13
<1>15. ASSUME NEW n \in 1..N
       PROVE  texts[n] = Replaced(texts[n - 1], rules[n].pattern.tokens, Redacted)
  <2>1. n \in 0..N /\ n - 1 \in 0..N
    BY <1>1
  <2>2. texts[n] = run[n].text /\ texts[n - 1] = run[n - 1].text /\ run[n - 1] \in X
    BY <1>13, <2>1
  <2> HIDE DEF texts, T
  <2>3. QED
    BY <1>4, <1>10, <2>2
<1>16. N \in 0..N
  BY <1>1
<1>17. texts[N] = run[N].text
  BY <1>16
<1> HIDE DEF texts
<1>18. Runs(rules, original, texts)
  BY <1>14, <1>15 DEF Runs, N
<1>19. QED
  BY <1>2, <1>17, <1>18 DEF N

\* The preview reads as what the sidecar makes of the line.
LEMMA PreviewRender ==
  ASSUME NEW log \in Seq(SideCell), NEW Pattern, NEW active \in Seq(Pattern),
         NEW after, Turns(log, active, SideCell, after),
         NEW rules, Len(rules) = Len(active), NEW texts, Runs(rules, log, texts),
         \A n \in 1..Len(active) : /\ rules[n].pattern.tokens = active[n].pattern.tokens
                                   /\ Usable(active[n].pattern.tokens)
                                   /\ Strange("[REDACTED]", active[n].pattern.tokens)
  PROVE  Render(after[Len(active)], Redacted) = texts[Len(active)]
<1> DEFINE N == Len(active)
           C == SideCell
           x == Redacted
           T == {n \in 0..N : Sep(after[n]) /\ Render(after[n], x) = texts[n]}
<1>1. N \in Nat
  OBVIOUS
<1>2. x \in C /\ x.sym = "[REDACTED]"
  BY RedactedTyped DEF Redacted
<1>3. 0 \in T
  <2> DEFINE n == Len(log)
  <2>1. n \in Nat /\ 1 \in 1..(n + 1) /\ n + 1 \in 1..(n + 1) /\ (n + 1) - 1 = n
    OBVIOUS
  <2> DEFINE whole == Tool!Plain(log, 1, (n + 1) - 1)
  <2>2. Render(whole, x) = SubSeq(log, 1, (n + 1) - 1) /\ Sep(whole)
    <3> HIDE DEF C, x
    <3> QED
      BY <1>2, <2>1, PlainRender DEF C
  <2>3. SubSeq(log, 1, n) = log
    OBVIOUS
  <2>4. after[0] = whole /\ texts[0] = log
    BY <2>1 DEF Turns, Runs
  <2>5. 0 \in 0..N
    BY <1>1
  <2> HIDE DEF N, x
  <2>6. QED
    BY <2>1, <2>2, <2>3, <2>4, <2>5
<1>4. ASSUME NEW n \in 0..N, n # N, n \in T PROVE n + 1 \in T
  <2> DEFINE m == n + 1
             p == active[m]
             re == p.pattern.tokens
  <2>1. m \in 1..N /\ m \in 0..N /\ m - 1 = n
    BY <1>1, <1>4
  <2> HIDE DEF m
  <2>2. after[n] \in Seq(Segments(C)) /\ after[m] = Tool!Turn(after[n], p)
    BY <2>1 DEF Turns
  <2>3. texts[m] = Replaced(texts[n], re, x)
    <3>1. texts[m] = Replaced(texts[m - 1], rules[m].pattern.tokens, Redacted)
      BY <2>1 DEF Runs
    <3>2. QED
      BY <2>1, <3>1
  <2>4. Usable(re) /\ Strange(x.sym, re)
    BY <1>2, <2>1
  <2>5. Sep(after[n]) /\ Render(after[n], x) = texts[n]
    BY <1>4
  <2>6. Agreeing(after[n], x, p, C)
    <3> HIDE DEF C, x, p
    <3> QED
      BY <1>2, <2>2, <2>4, <2>5, TurnRender
  <2>7. Sep(after[m]) /\ Render(after[m], x) = texts[m]
    BY <2>2, <2>3, <2>5, <2>6 DEF Agreeing
  <2> HIDE DEF x, N
  <2>8. m \in T
    BY <2>1, <2>7
  <2>9. QED
    BY <2>8 DEF m
<1> HIDE DEF N, T
<1>5. \A n \in 0..N : n \in T
  BY <1>1, <1>3, <1>4, Climb
<1>6. N \in T
  BY <1>1, <1>5
<1>7. QED
  BY <1>6 DEF T, N

\* What one can read of the line in the segments and in the masked text.
LEMMA ShownIsRaw ==
  ASSUME NEW segs \in Seq(Segments(SideCell)), TextOf(segs) \in Seq(LogCell)
  PROVE  Tool!Shown(segs) = Tool!Sidecar!Raw(Render(segs, Redacted))
<1> DEFINE S == Segments(SideCell)
           x == Redacted
           m == Marked(segs, x)
           u == [k \in DOMAIN segs |-> segs[k].text]
           v == [k \in DOMAIN m |-> m[k].text]
           r == Render(segs, x)
           none == <<0, 0>>
<1>1. /\ Len(segs) \in Nat /\ DOMAIN segs = 1..Len(segs)
      /\ \A k \in 1..Len(segs) : segs[k] \in S
  <2>1. segs \in Seq(S)
    OBVIOUS
  <2> HIDE DEF S
  <2>2. QED
    BY <2>1
<1>2. x \in SideCell /\ x.id = none
  BY RedactedTyped DEF Redacted
<1>3. m \in Seq(S) /\ Marks(m, segs, x)
  BY <1>2, MarkedTyped
<1>4. /\ u \in Seq(Seq(SideCell)) /\ Len(u) = Len(segs) /\ FlattenSeq(u) = TextOf(segs)
      /\ \A k \in 1..Len(segs) : u[k] = segs[k].text
  <2>1. u \in Seq(Seq(SideCell)) /\ Len(u) = Len(segs)
    BY TextsOf
  <2>2. QED
    BY <1>1, <2>1 DEF TextOf
<1> HIDE DEF m, x
<1>5. /\ v \in Seq(Seq(SideCell)) /\ Len(v) = Len(segs) /\ FlattenSeq(v) = r
      /\ \A k \in 1..Len(segs) : v[k] = Mark(segs[k], x).text
  <2>1. Len(m) = Len(segs) /\ \A k \in 1..Len(segs) : m[k] = Mark(segs[k], x)
    BY <1>3 DEF Marks
  <2>2. v \in Seq(Seq(SideCell)) /\ Len(v) = Len(m)
    BY <1>3, TextsOf
  <2>3. DOMAIN m = 1..Len(segs)
    BY <1>3, <2>1
  <2>4. \A k \in 1..Len(segs) : v[k] = m[k].text
    BY <2>3
  <2>5. FlattenSeq(v) = r
    BY DEF Render, TextOf, m
  <2> HIDE DEF v
  <2>6. QED
    BY <2>1, <2>2, <2>4, <2>5
<1>6. r \in Seq(SideCell)
  BY <1>2, RenderTyped
<1> HIDE DEF u, v, r
<1>7. Tool!Sidecar!Raw(r) = {r[i].id : i \in DOMAIN r} \ {none}
  BY DEF Tool!Sidecar!Raw, Tool!Sidecar!Added
<1> DEFINE Readable(k) == {segs[k].text[i].id : i \in DOMAIN segs[k].text}
<1>8. Tool!Shown(segs) = UNION {Readable(k) : k \in {n \in DOMAIN segs : ~segs[n].masked}}
  BY DEF Tool!Shown
<1>9. ASSUME NEW k \in 1..Len(segs) PROVE segs[k].text \in Seq(SideCell) /\ segs[k].masked \in BOOLEAN
  BY <1>1, <1>9 DEF Segments
<1>10. \A y \in LogCell : y.id # none
  <2> SUFFICES ASSUME NEW y \in LogCell PROVE y.id # none
    OBVIOUS
  <2>1. y.id \in {1} \X Nat
    BY DEF LogCell
  <2>2. y.id[1] = 1
    BY <2>1
  <2>3. QED
    BY <2>2
<1>11. ASSUME NEW d \in Tool!Shown(segs) PROVE d \in Tool!Sidecar!Raw(r)
  <2>1. PICK k \in 1..Len(segs) : ~segs[k].masked /\ d \in Readable(k)
    BY <1>1, <1>8
  <2> DEFINE t == segs[k].text
  <2>2. PICK i \in DOMAIN t : d = t[i].id
    BY <2>1
  <2>3. t \in Seq(SideCell) /\ i \in 1..Len(t)
    <3>1. t \in Seq(SideCell)
      BY <1>9
    <3> HIDE DEF t
    <3>2. QED
      BY <3>1
  <2>4. v[k] = t /\ u[k] = t
    BY <1>4, <1>5, <2>1 DEF Mark
  <2>a. i \in 1..Len(v[k]) /\ i \in 1..Len(u[k])
    BY <2>3, <2>4
  <2>b. k \in 1..Len(v) /\ k \in 1..Len(u)
    BY <1>4, <1>5
  <2> HIDE DEF t
  <2>5. PICK j \in 1..Len(r) : r[j] = t[i]
    <3>1. \E j \in 1..Len(FlattenSeq(v)) : FlattenSeq(v)[j] = v[k][i]
      BY <1>5, <2>a, <2>b, FlattenHas
    <3>2. QED
      BY <1>5, <2>4, <3>1
  <2>6. PICK j2 \in 1..Len(TextOf(segs)) : TextOf(segs)[j2] = t[i]
    <3>1. \E j2 \in 1..Len(FlattenSeq(u)) : FlattenSeq(u)[j2] = u[k][i]
      BY <1>4, <2>a, <2>b, FlattenHas
    <3>2. QED
      BY <1>4, <2>4, <3>1
  <2>7. t[i] \in LogCell
    <3> DEFINE w == TextOf(segs)
    <3>1. w \in Seq(LogCell) /\ j2 \in 1..Len(w) /\ w[j2] = t[i]
      BY <2>6
    <3> HIDE DEF w
    <3>2. QED
      BY <3>1
  <2>8. d # none
    BY <1>10, <2>2, <2>7
  <2>9. DOMAIN r = 1..Len(r)
    BY <1>6
  <2>10. QED
    BY <1>7, <2>2, <2>5, <2>8, <2>9
<1>12. ASSUME NEW d \in Tool!Sidecar!Raw(r) PROVE d \in Tool!Shown(segs)
  <2>1. DOMAIN r = 1..Len(r)
    BY <1>6
  <2>2. PICK j \in 1..Len(r) : d = r[j].id /\ d # none
    BY <1>7, <2>1
  <2>3. PICK k \in 1..Len(segs) : \E p \in 1..Len(v[k]) : r[j] = v[k][p]
    <3>1. \E k \in 1..Len(v) : \E p \in 1..Len(v[k]) : FlattenSeq(v)[j] = v[k][p]
      BY <1>5, FlattenFrom
    <3>2. QED
      BY <1>5, <3>1
  <2>4. PICK p \in 1..Len(v[k]) : r[j] = v[k][p]
    BY <2>3
  <2>5. CASE segs[k].masked
    <3>1. v[k] = <<x>>
      BY <1>5, <2>5 DEF Mark
    <3>2. p = 1
      BY <2>4, <3>1
    <3>3. r[j] = x
      BY <2>4, <3>1, <3>2
    <3>4. QED
      BY <1>2, <2>2, <3>3
  <2>6. CASE ~segs[k].masked
    <3>1. v[k] = segs[k].text
      BY <1>5, <2>6 DEF Mark
    <3>2. p \in DOMAIN segs[k].text
      <4> DEFINE t == segs[k].text
      <4>1. t \in Seq(SideCell) /\ p \in 1..Len(t)
        BY <1>9, <2>4, <3>1
      <4> HIDE DEF t
      <4>2. p \in DOMAIN t
        BY <4>1
      <4>3. QED
        BY <4>2 DEF t
    <3>3. d \in Readable(k)
      BY <2>2, <2>4, <3>1, <3>2
    <3> HIDE DEF Readable
    <3>4. QED
      BY <1>1, <1>8, <2>6, <3>3
  <2>7. QED
    BY <2>5, <2>6
<1>13. QED
  BY <1>11, <1>12 DEF r, x

-----------------------------------------------------------------------------
(* The rules that are exported.                                            *)

\* A list without repetition is one of the orders in which its end can come.
LEMMA OneOrder ==
  ASSUME NEW S, NEW r \in Seq(S), \A i, j \in 1..Len(r) : r[i] = r[j] => i = j, NEW m \in 0..Len(r)
  PROVE  \E order \in Tool!SetToSeqs({r[i] : i \in (m + 1)..Len(r)}) : r = SubSeq(r, 1, m) \o order
<1> DEFINE n == Len(r)
           d == n - m
           U == {r[i] : i \in (m + 1)..n}
           D == 1..d
           o == [k \in D |-> r[m + k]]
           a == SubSeq(r, 1, m)
<1>1. n \in Nat /\ m \in Nat /\ d \in Nat /\ \A k \in D : m + k \in (m + 1)..n /\ m + k \in 1..n
  OBVIOUS
<1>2. \A i \in (m + 1)..n : i - m \in D /\ m + (i - m) = i /\ r[i] \in S
  OBVIOUS
<1>3. a \in Seq(S) /\ Len(a) = m /\ \A k \in 1..m : a[k] = r[k]
  OBVIOUS
<1> HIDE DEF n, d, a
<1>4. /\ o \in [D -> U] /\ \A k \in D : o[k] = r[m + k]
  BY <1>1
<1>5. \A i, j \in D : i # j => o[i] # o[j]
  <2> SUFFICES ASSUME NEW i \in D, NEW j \in D, i # j PROVE o[i] # o[j]
    OBVIOUS
  <2>1. m + i \in 1..n /\ m + j \in 1..n /\ m + i # m + j
    BY <1>1
  <2>2. QED
    BY <1>4, <2>1 DEF n
<1>6. \A u \in U : \E k \in D : o[k] = u
  <2> SUFFICES ASSUME NEW i \in (m + 1)..n PROVE \E k \in D : o[k] = r[i]
    OBVIOUS
  <2> DEFINE k == i - m
  <2>1. k \in D /\ m + k = i
    BY <1>2
  <2> HIDE DEF k
  <2>2. o[k] = r[i]
    BY <1>4, <2>1
  <2>3. QED
    BY <2>1, <2>2
<1>7. U \subseteq S
  BY <1>2
<1> HIDE DEF o, U
<1>8. Cardinality(U) = d
  <2>1. o \in Bijection(D, U)
    BY <1>4, <1>5, <1>6 DEF Bijection, Injection, Surjection, IsInjective
  <2>2. IsFiniteSet(D) /\ Cardinality(D) = d
    BY <1>1, FS_Interval
  <2> HIDE DEF D
  <2>3. QED
    BY <2>1, <2>2, FS_Bijection DEF ExistsBijection
<1>9. o \in Tool!SetToSeqs(U)
  <2>1. Tool!SetToSeqs(U) = {f \in [1..Cardinality(U) -> U] :
                               \A i, j \in 1..Cardinality(U) : i # j => f[i] # f[j]}
    BY DEF Tool!SetToSeqs, Tool!Cardinality, Cardinality
  <2> HIDE DEF D
  <2>2. 1..Cardinality(U) = D
    BY <1>8 DEF D
  <2>3. QED
    BY <1>4, <1>5, <2>1, <2>2
<1>10. o \in Seq(S) /\ Len(o) = d
  <2>1. o \in [1..d -> S]
    BY <1>4, <1>7
  <2>2. QED
    BY <1>1, <2>1, SequenceOf
<1>11. r = a \o o
  <2>1. Placed(a, o, S)
    BY <1>3, <1>10, JoinedPlaces
  <2> DEFINE c == a \o o
  <2>2. c \in Seq(S) /\ Len(c) = n
    BY <1>1, <1>3, <1>10, <2>1 DEF Placed, d
  <2>3. ASSUME NEW k \in 1..n PROVE r[k] = c[k]
    <3>1. CASE k \in 1..m
      BY <1>3, <2>1, <3>1 DEF Placed
    <3>2. CASE k \notin 1..m
      <4>1. PICK j \in D : k = m + j
        <5>1. k \in (m + 1)..n
          BY <1>1, <3>2
        <5>2. k - m \in D /\ k = m + (k - m)
          BY <1>2, <5>1
        <5>3. QED
          BY <5>2
      <4>2. c[m + j] = o[j]
        BY <1>3, <1>10, <2>1, <4>1 DEF Placed
      <4>3. QED
        BY <1>4, <4>1, <4>2
    <3>3. QED
      BY <3>1, <3>2
  <2> HIDE DEF c
  <2>4. r = c
    BY <2>2, <2>3, SeqEqual DEF n
  <2>5. QED
    BY <2>4 DEF c
<1>12. QED
  BY <1>9, <1>11 DEF a, U, n

RuleOf(p) == [name |-> p.name, pattern |-> Tool!Exported(p), field |-> "", replace |-> "[REDACTED]"]

\* The rules may come in the order of the patterns.
LEMMA InPatternOrder ==
  ASSUME RowsInv, Tool!TakenAsIs(Tool!activePatterns)
  PROVE  \E rules \in Tool!RuleOrders :
            /\ rules \in Seq(Rule) /\ Len(rules) = Len(Tool!activePatterns)
            /\ \A n \in 1..Len(rules) : rules[n].pattern = Tool!activePatterns[n].pattern
<1> DEFINE active == Tool!activePatterns
           N == Len(active)
           rules == [i \in DOMAIN active |-> RuleOf(active[i])]
           B == {p \in Tool!ToSet(active) : p.builtin}
           builtins == Tool!Kept(active, B)
           m == Len(builtins)
<1>1. active \in Seq(Active)
  BY ActiveTyped
<1>2. \A i, j \in DOMAIN active : active[i].name = active[j].name => i = j
  BY DEF Tool!TakenAsIs
<1>12. \A i \in DOMAIN active : Tool!Exported(active[i]) = active[i].pattern
  BY DEF Tool!TakenAsIs
<1>3. IF target = "policy" THEN Tool!RuleOrders = {rules}
      ELSE Tool!RuleOrders = {SubSeq(rules, 1, m) \o order :
                                order \in Tool!SetToSeqs({rules[i] : i \in (m + 1)..Len(rules)})}
  BY DEF Tool!RuleOrders, RuleOf
<1> HIDE DEF active, B
<1>4. N \in Nat /\ DOMAIN active = 1..N /\ \A n \in 1..N : active[n] \in Active
  BY <1>1
<1>5. m \in 0..N
  <2>1. Kept(active, B) \in Seq(Active \cap B) /\ TakenFrom(Kept(active, B), active, N)
    BY <1>1, KeptIsSeq, KeptInOrder
  <2>2. builtins = Kept(active, B)
    BY ToolKept
  <2> HIDE DEF builtins
  <2>3. Len(builtins) \in Nat /\ Len(builtins) <= N
    BY <2>1, <2>2 DEF TakenFrom
  <2> HIDE DEF N
  <2>4. QED
    BY <1>4, <2>3
<1> HIDE DEF N, m
<1>6. \A p \in Active : Tool!Exported(p) = p.pattern =>
         RuleOf(p) \in Rule /\ RuleOf(p).name = p.name /\ RuleOf(p).pattern = p.pattern
  BY DEF Active, Rule, RuleOf, Label
<1>7. rules \in [1..N -> Rule] /\ \A n \in 1..N : rules[n] = RuleOf(active[n])
  BY <1>4, <1>6, <1>12
<1> HIDE DEF rules
<1>8. rules \in Seq(Rule) /\ Len(rules) = N
  BY <1>4, <1>7, SequenceOf
<1>9. \A n \in 1..N : rules[n].pattern = active[n].pattern /\ rules[n].name = active[n].name
  BY <1>4, <1>6, <1>7, <1>12
<1>10. rules \in Tool!RuleOrders
  <2>1. CASE target = "policy"
    BY <1>3, <2>1
  <2>2. CASE target # "policy"
    <3>1. \A i, j \in 1..Len(rules) : rules[i] = rules[j] => i = j
      BY <1>2, <1>4, <1>8, <1>9
    <3>2. PICK order \in Tool!SetToSeqs({rules[i] : i \in (m + 1)..Len(rules)}) :
             rules = SubSeq(rules, 1, m) \o order
      BY <1>5, <1>8, <3>1, OneOrder
    <3>3. QED
      BY <1>3, <2>2, <3>2
  <2>3. QED
    BY <2>1, <2>2
<1>11. QED
  BY <1>8, <1>9, <1>10 DEF active, N

\* No expression takes the mark of what is masked for text of the line, or for
\* a part of a word.
RedactedStrange == \A r \in Tool!Expression : Strange("[REDACTED]", r.tokens)

(* What one can read of the log line in the preview is what the sidecar     *)
(* prints of it under the exported rules, for lines of any length, any      *)
(* number of patterns in any overlap, with \b or without, and either export, *)
(* when no two of them have one name, RE2 takes all of them, none matches   *)
(* nothing, and the library's pattern of a built-in name is the tool's      *)
(* (phone-us is not): masking segment by segment (previewMasked) hides what *)
(* masking the whole line by one rule after the other does (MaskLine).      *)
(* Assumes that no expression matches the replacement, or its parts: the    *)
(* preview never searches it.                                               *)
THEOREM PreviewAgreesWithSidecarHolds ==
  ASSUME RedactedStrange
  PROVE  Spec => []PreviewAgreesWithSidecar
<1>1. ASSUME RowsInv, FormInv PROVE PreviewAgreesWithSidecar
  <2> SUFFICES ASSUME Tool!TakenAsIs(Tool!activePatterns)
               PROVE  \E rules \in Tool!RuleOrders :
                         Tool!Shown(Tool!segments)
                            = Tool!Sidecar!Raw(Tool!Sidecar!MaskLine(Tool!LogLine, rules).text)
    BY DEF PreviewAgreesWithSidecar, Tool!PreviewAgreesWithSidecar
  <2> DEFINE log == Tool!Sidecar!Original(Tool!LogLine)
             active == Tool!activePatterns
             N == Len(active)
             x == Redacted
  <2>1. log \in Seq(LogCell)
    BY <1>1, OriginalTyped
  <2>2. active \in Seq(Active)
    BY <1>1, ActiveTyped
  <2>3. \A p \in Active : p.pattern \in Tool!Expression /\ p.pattern.tokens \in Seq(Token)
    BY ExpressionTyped DEF Active
  <2>4. \A n \in 1..N : ~MatchesEmpty(active[n].pattern.tokens)
    <3>1. DOMAIN active = 1..N
      BY <2>2
    <3>2. QED
      BY <3>1, ToolMatch DEF Tool!TakenAsIs
  <2>5. PICK rules \in Tool!RuleOrders :
           /\ rules \in Seq(Rule) /\ Len(rules) = N
           /\ \A n \in 1..Len(rules) : rules[n].pattern = active[n].pattern
    BY <1>1, InPatternOrder
  <2> HIDE DEF active
  <2>6. \A n \in 1..N : /\ rules[n].pattern.tokens = active[n].pattern.tokens
                        /\ Usable(active[n].pattern.tokens)
                        /\ Strange("[REDACTED]", active[n].pattern.tokens)
    <3>1. \A n \in 1..N : active[n] \in Active
      BY <2>2
    <3>2. QED
      BY <2>3, <2>4, <2>5, <3>1 DEF Usable, RedactedStrange
  <2> HIDE DEF log
  <2>7. log \in Seq(SideCell)
    <3>1. LogCell \subseteq SideCell
      <4>1. {1} \X Nat \subseteq {0, 1} \X Nat
        OBVIOUS
      <4>2. QED
        BY <4>1 DEF LogCell, SideCell
    <3>2. QED
      BY <2>1, <3>1
  <2>8. PICK after : /\ Turns(log, active, SideCell, after)
                     /\ Tool!previewMasked(log, active) = after[N]
                     /\ TextOf(after[N]) = log
    BY <2>2, <2>3, <2>7, PreviewTable
  <2>9. PICK texts : /\ Runs(rules, log, texts)
                     /\ Tool!Sidecar!MaskLine(Tool!LogLine, rules).text = texts[N]
    <3>1. \A n \in 1..Len(rules) : Usable(rules[n].pattern.tokens)
      BY <2>5, <2>6
    <3>2. \E texts : /\ Runs(rules, log, texts)
                     /\ Tool!Sidecar!MaskLine(Tool!LogLine, rules).text = texts[Len(rules)]
      BY <2>5, <2>7, <3>1, SidecarRun DEF log
    <3>3. QED
      BY <2>5, <3>2
  <2>10. Render(after[N], x) = texts[N]
    BY <2>2, <2>5, <2>6, <2>7, <2>8, <2>9, PreviewRender
  <2>11. after[N] \in Seq(Segments(SideCell))
    <3>1. N \in 0..N
      BY <2>2
    <3>2. QED
      BY <2>8, <3>1 DEF Turns
  <2>12. Tool!Shown(after[N]) = Tool!Sidecar!Raw(Render(after[N], x))
    BY <2>1, <2>8, <2>11, ShownIsRaw
  <2>13. Tool!segments = after[N]
    BY <2>8 DEF Tool!segments, log, active
  <2>14. QED
    BY <2>9, <2>10, <2>12, <2>13
<1>2. Init => FormInv
  BY DEF Init, Tool!Init, FormInv
<1>3. QED
  BY <1>1, <1>2, RowsInit, RowsStep, FormStep, PTL DEF Spec
=============================================================================
