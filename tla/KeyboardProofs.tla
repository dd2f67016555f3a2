---------------------------- MODULE KeyboardProofs ----------------------------
(***************************************************************************)
(* The keys of the on-screen keyboard always go to the object that has the *)
(* focus and never to one that was destroyed, for any set of applications. *)
(* TypeOK and InputGoesToFocus are inductive together: an application that *)
(* dies takes the focus with it, and with the focus the input.             *)
(***************************************************************************)
EXTENDS Keyboard, TLAPS

KeyboardInv == TypeOK /\ InputGoesToFocus

(* setInputActive() leaves two truth values. *)
LEMMA SetInputActiveType ==
    ASSUME TypeOK, NEW active \in BOOLEAN, SetInputActive(active)
    PROVE  /\ inputActive' = active
           /\ hidden' \in BOOLEAN
BY DEF SetInputActive, TypeOK

(* Giving the focus to an object that exists. *)
LEMMA GiveFocusKeepsInv ==
    ASSUME KeyboardInv, NEW o \in Alive, GiveFocus(o),
           UNCHANGED <<app, webEditable, layoutVars>>
    PROVE  KeyboardInv'
<1>1. focus' = o /\ Alive' = Alive
  BY DEF GiveFocus, Alive, LoadedItems
<1>2. CASE o = focus
  BY <1>1, <1>2 DEF GiveFocus, KeyboardInv, TypeOK, InputGoesToFocus, layoutVars
<1>3. CASE o # focus /\ AcceptsInput(o)
  <2>1. target' = o /\ inputActive' = TRUE /\ hidden' \in BOOLEAN
    BY <1>3, SetInputActiveType DEF GiveFocus, HandleFocusObjectChanged, KeyboardInv
  <2> QED BY <1>1, <2>1 DEF KeyboardInv, TypeOK, InputGoesToFocus, layoutVars
<1>4. CASE o # focus /\ ~AcceptsInput(o)
  <2>1. target' = target /\ inputActive' = FALSE /\ hidden' \in BOOLEAN
    BY <1>4, SetInputActiveType DEF GiveFocus, HandleFocusObjectChanged, KeyboardInv
  <2> QED BY <1>1, <2>1 DEF KeyboardInv, TypeOK, InputGoesToFocus, layoutVars
<1> QED BY <1>2, <1>3, <1>4

(* Closing an application takes its objects out of focus and target. *)
LEMMA LoadAppKeepsInv ==
    ASSUME KeyboardInv, NEW a \in AppNames \cup {NoApp}, LoadApp(a)
    PROVE  KeyboardInv'
<1>1. /\ app' = a /\ webEditable' = FALSE /\ UNCHANGED layoutVars
      /\ target' = IF target \in Objects THEN Null ELSE target
      /\ {Window, KeyboardItem} \subseteq Alive'
  BY DEF LoadApp, Alive
<1>2. Alive \subseteq Objects \cup {Window, KeyboardItem}
  BY ObjectsAssumption DEF Alive, LoadedItems, KeyboardInv, TypeOK
<1>3. target' \in Alive' \cup {Null}
  BY <1>1, <1>2 DEF KeyboardInv, TypeOK
<1>4. CASE focus \in Objects
  <2>1. focus' = Window /\ inputActive' = FALSE /\ hidden' \in BOOLEAN
    BY <1>4, SetInputActiveType DEF LoadApp, KeyboardInv
  <2> QED BY <1>1, <1>3, <2>1 DEF KeyboardInv, TypeOK, InputGoesToFocus, layoutVars
<1>5. CASE focus \notin Objects
  <2>1. focus' = focus /\ inputActive' = inputActive /\ hidden' = hidden
    BY <1>5 DEF LoadApp
  <2>2. focus' \in Alive'
    BY <1>1, <1>2, <1>5, <2>1 DEF KeyboardInv, TypeOK
  <2>3. inputActive => target = focus /\ target' = target
    BY <1>1, <1>5 DEF KeyboardInv, InputGoesToFocus
  <2> QED BY <1>1, <1>3, <2>1, <2>2, <2>3
          DEF KeyboardInv, TypeOK, InputGoesToFocus, layoutVars
<1> QED BY <1>4, <1>5

(* A language key stays within the list of languages. *)
LEMMA LanguageInRange ==
    ASSUME KeyboardInv, NEW index \in 0 .. Len(Languages) - 1, ChooseLanguage(index)
    PROVE  KeyboardInv'
BY DEF ChooseLanguage, KeyboardInv, TypeOK, InputGoesToFocus, inputVars, Alive, LoadedItems

(* Every step of the keyboard keeps the invariant. *)
LEMMA NextKeyboardInv == KeyboardInv /\ [Next]_vars => KeyboardInv'
<1> SUFFICES ASSUME KeyboardInv, [Next]_vars PROVE KeyboardInv'
  OBVIOUS
<1> USE DEF KeyboardInv
<1>1. ASSUME NEW f \in Fields, TapField(f) PROVE KeyboardInv'
  <2>1. f \in Alive /\ GiveFocus(f) /\ UNCHANGED <<app, webEditable, layoutVars>>
    BY <1>1 DEF TapField, Alive
  <2> QED BY <2>1, GiveFocusKeepsInv
<1>2. CASE TapPage
  <2>1. Web \in Alive /\ GiveFocus(Web) /\ UNCHANGED <<app, webEditable, layoutVars>>
    BY <1>2 DEF TapPage, Alive, BrowserOpen
  <2> QED BY <2>1, GiveFocusKeepsInv
<1>3. CASE PageEditorChanges
  BY <1>3 DEF PageEditorChanges, TypeOK, InputGoesToFocus, layoutVars, Alive, LoadedItems
<1>4. CASE LoadAddress
  <2>1. Web \in Alive' /\ Alive' = Alive
    BY <1>4 DEF LoadAddress, Alive, BrowserOpen, LoadedItems
  <2>2. target' \in Alive' \cup {Null} /\ hidden' \in BOOLEAN
    BY <1>4, <2>1 DEF LoadAddress, TypeOK
  <2> QED BY <1>4, <2>1, <2>2 DEF LoadAddress, TypeOK, InputGoesToFocus, layoutVars
<1>5. CASE ShowButton
  <2>1. inputActive' = TRUE /\ hidden' \in BOOLEAN
    BY <1>5, SetInputActiveType DEF ShowButton
  <2> QED BY <1>5, <2>1
          DEF ShowButton, TypeOK, InputGoesToFocus, layoutVars, Alive, LoadedItems
<1>6. CASE CloseRequested
  BY <1>6 DEF CloseRequested, TypeOK, InputGoesToFocus, layoutVars, Alive, LoadedItems
<1>7. ASSUME NEW a \in AppNames \cup {NoApp}, LoadApp(a) PROVE KeyboardInv'
  BY <1>7, LoadAppKeepsInv
<1>8. CASE PreviousLanguage
  BY <1>8, LanguagesAssumption, LanguageInRange DEF PreviousLanguage, TypeOK
<1>9. CASE NextLanguage
  BY <1>9, LanguagesAssumption, LanguageInRange DEF NextLanguage, TypeOK
<1>10. CASE ToggleSymbols
  BY <1>10 DEF ToggleSymbols, TypeOK, InputGoesToFocus, inputVars, Alive, LoadedItems
<1>11. CASE ToggleShift
  BY <1>11 DEF ToggleShift, TypeOK, InputGoesToFocus, inputVars, Alive, LoadedItems
<1>12. CASE SendText
  BY <1>12 DEF SendText, TargetObject, TypeOK, InputGoesToFocus, Visible, Alive, LoadedItems
<1>13. CASE PressKey
  BY <1>13 DEF PressKey, TargetObject, layoutVars, TypeOK, InputGoesToFocus, Visible,
               Alive, LoadedItems
<1>14. CASE UNCHANGED vars
  BY <1>14 DEF vars, inputVars, layoutVars, TypeOK, InputGoesToFocus, Alive, LoadedItems
<1> QED BY <1>1, <1>2, <1>3, <1>4, <1>5, <1>6, <1>7, <1>8, <1>9, <1>10, <1>11,
           <1>12, <1>13, <1>14 DEF Next

(* Initially the window has the focus and there is no target. *)
LEMMA InitKeyboardInv == Init => KeyboardInv
<1>1. 0 \in 0 .. Len(Languages) - 1
  BY LanguagesAssumption
<1> QED BY <1>1 DEF Init, KeyboardInv, TypeOK, InputGoesToFocus, Alive

(* The invariant of the keyboard holds throughout. *)
THEOREM KeyboardInvHolds == Spec => []KeyboardInv
BY InitKeyboardInv, NextKeyboardInv, PTL DEF Spec

(* The focus and the text destination are objects that exist, whichever    *)
(* applications come and go.                                               *)
THEOREM TargetsExist == Spec => []TypeOK
<1>1. KeyboardInv => TypeOK
  BY DEF KeyboardInv
<1> QED BY <1>1, KeyboardInvHolds, PTL

(* While input is active every key goes to the focused object. *)
THEOREM KeysGoToFocus == Spec => []InputGoesToFocus
<1>1. KeyboardInv => InputGoesToFocus
  BY DEF KeyboardInv
<1> QED BY <1>1, KeyboardInvHolds, PTL
=============================================================================
