----------------------------- MODULE Accordion -----------------------------
(***************************************************************************)
(* The accordion of the guide page (RbacFaq.tsx): Radix keeps which item   *)
(* is open, Accordion (primitives/radix/accordion.tsx) mirrors that value, *)
(* and every AccordionItem mirrors the mirror in an effect; its content is *)
(* mounted by the last of the three.  type="single", collapsible.  A       *)
(* component without a Next of its own: Site composes it.                  *)
(***************************************************************************)
EXTENDS FiniteSets

CONSTANTS
    Item,   \* values of the items; none is part of another, for which
    Closed  \*   value.includes would take it; Closed: no item is open

AccordionAssumption == Closed \notin Item

VARIABLES
    open,   \* Radix's own value
    value,  \* of useControlledState; undefined is Closed
    isOpen, \* of each item
    due     \* the items' effects have not run since value changed

accordion == <<open, value, isOpen, due>>

Init ==
    /\ open = Closed
    /\ value = Closed
    /\ isOpen = [i \in Item |-> FALSE]
    /\ due = FALSE

\* The trigger of an item is clicked; Radix calls onValueChange.
Toggle(i) ==
    /\ open' = IF open = i THEN Closed ELSE i
    /\ value' = open'
    /\ due' = TRUE
    /\ UNCHANGED isOpen

\* Mutant: items open in the effect and are never closed by it.
ItemEffectsOpenOnly ==
    /\ due
    /\ isOpen' = [i \in Item |-> isOpen[i] \/ value = i]
    /\ due' = FALSE
    /\ UNCHANGED <<open, value>>

ItemEffects ==
    /\ due
    /\ isOpen' = [i \in Item |-> value = i]
    /\ due' = FALSE
    /\ UNCHANGED <<open, value>>

ToggleSome == \E i \in Item : Toggle(i)

\* keepRendered is false: the content is mounted while the item is open.
Mounted == {i \in Item : isOpen[i]}

-----------------------------------------------------------------------------
AccordionOK ==
    /\ open \in Item \cup {Closed}
    /\ value \in Item \cup {Closed}
    /\ isOpen \in [Item -> BOOLEAN]
    /\ due \in BOOLEAN

(* Once the effects have run, the answer that is mounted is the one whose   *)
(* trigger Radix marks as open, and no other (AccordionItem).               *)
AnswerMatchesTrigger ==
    ~due => Mounted = {open} \ {Closed}
=============================================================================
