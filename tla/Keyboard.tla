------------------------------- MODULE Keyboard -------------------------------
(***************************************************************************)
(* The on-screen keyboard: InputBackend (exported to QML as LumaInput)     *)
(* follows Qt's focus object and remembers the text destination; Main.qml  *)
(* shows LumaKeyboard while input is active and the user has not hidden    *)
(* it; BrowserApp also shows and hides it by hand.                         *)
(*                                                                         *)
(* Qt's part: a change of the focus object is delivered synchronously, a   *)
(* second forceActiveFocus() on the object that has the focus changes      *)
(* nothing, an invisible item keeps the focus, a destroyed one gives it    *)
(* back to the window, and a QPointer becomes null when its object dies.   *)
(***************************************************************************)
EXTENDS Naturals, Sequences

CONSTANTS
    Objects,     \* the focusable objects of the applications
    Fields,      \* those that are text fields: they always accept input
    Address,     \* the address field of BrowserApp
    Web,         \* the web view of BrowserApp
    AppNames,    \* the applications AppSurface can load
    ItemsOf,     \* ItemsOf[a]: the objects application a creates
    Window,      \* the focus object when no item has the focus
    KeyboardItem,\* the LumaKeyboard item itself
    NoApp,       \* nothing is loaded
    Null,        \* a null QPointer
    Languages    \* the codes of LumaKeyboard's languages, a list

ASSUME ObjectsAssumption ==
    /\ Fields \subseteq Objects
    /\ Address \in Fields
    /\ Web \in Objects \ Fields
    /\ ItemsOf \in [AppNames -> SUBSET Objects]
    /\ \A a \in AppNames : Address \in ItemsOf[a] <=> Web \in ItemsOf[a]
    /\ {Window, KeyboardItem, Null} \cap Objects = {}
    /\ Window # KeyboardItem /\ Window # Null /\ KeyboardItem # Null
    /\ NoApp \notin AppNames

ASSUME LanguagesAssumption == Languages \in Seq(STRING) /\ Languages # <<>>

VARIABLES
    app,          \* the application AppSurface shows, or NoApp
    focus,        \* QGuiApplication::focusObject()
    webEditable,  \* the web view answers ImEnabled: the page has an editor
    target,       \* m_target
    inputActive,  \* m_inputActive
    hidden,       \* lumaKeyboard.manuallyHidden
    languageIndex, symbols, shifted   \* the key rows LumaKeyboard shows

inputVars == <<app, focus, webEditable, target, inputActive, hidden>>
layoutVars == <<languageIndex, symbols, shifted>>
vars == <<inputVars, layoutVars>>

-----------------------------------------------------------------------------
LoadedItems(a) == IF a = NoApp THEN {} ELSE ItemsOf[a]
BrowserOpen == Web \in LoadedItems(app)

(* visible: LumaInput.inputActive && manuallyHidden === false *)
Visible == inputActive /\ ~hidden

(* acceptsInput(): the object's answer to the ImEnabled query. *)
AcceptsInput(o) == o \in Fields \/ (o = Web /\ webEditable)

(* setInputActive() with Main.qml's onInputActiveChanged: the signal, and  *)
(* with it the reset of manuallyHidden, is sent only on a change.          *)
SetInputActive(active) ==
    /\ inputActive' = active
    /\ hidden' = IF active /\ ~inputActive THEN FALSE ELSE hidden

(* Fault: a focus change to an object without input is not acted on. *)
HandleFocusObjectChanged_IgnoresOthers(o) ==
    IF AcceptsInput(o)
    THEN target' = o /\ SetInputActive(TRUE)
    ELSE UNCHANGED <<target, inputActive, hidden>>

(* handleFocusObjectChanged(): an object that takes no text ends the input *)
(* but the previous target is kept.                                        *)
HandleFocusObjectChanged(o) ==
    IF AcceptsInput(o)
    THEN target' = o /\ SetInputActive(TRUE)
    ELSE SetInputActive(FALSE) /\ UNCHANGED target

(* forceActiveFocus(), or a tap on a focusable item. *)
GiveFocus(o) ==
    /\ focus' = o
    /\ IF o = focus THEN UNCHANGED <<target, inputActive, hidden>>
       ELSE HandleFocusObjectChanged(o)

-----------------------------------------------------------------------------
Init ==
    /\ app = NoApp
    /\ focus = Window
    /\ webEditable = FALSE
    /\ target = Null
    /\ inputActive = FALSE
    /\ hidden = FALSE
    /\ languageIndex = 0
    /\ symbols = FALSE
    /\ shifted = FALSE

(* The user taps a text field; the address field also calls show(), which  *)
(* finds the field focused and input active already.                       *)
TapField(f) ==
    /\ f \in Fields \cap LoadedItems(app)
    /\ GiveFocus(f)
    /\ UNCHANGED <<app, webEditable, layoutVars>>

(* The user taps the page: the web view gets the focus. *)
TapPage ==
    /\ BrowserOpen
    /\ GiveFocus(Web)
    /\ UNCHANGED <<app, webEditable, layoutVars>>

(* The page focuses or leaves a text box of its own: Qt's focus object     *)
(* stays the web view, so InputBackend is not told.                        *)
PageEditorChanges ==
    /\ BrowserOpen
    /\ webEditable' = ~webEditable
    /\ UNCHANGED <<app, focus, target, inputActive, hidden, layoutVars>>

(* BrowserApp.loadAddress(): focus to the page, then LumaInput.hide(). *)
LoadAddress ==
    /\ BrowserOpen
    /\ focus' = Web
    /\ inputActive' = FALSE
    /\ IF focus # Web /\ AcceptsInput(Web)
       THEN target' = Web /\ hidden' = (inputActive /\ hidden)
       ELSE UNCHANGED <<target, hidden>>
    /\ UNCHANGED <<app, webEditable, layoutVars>>

(* BrowserApp's keyboard button: LumaInput.show() takes whatever object    *)
(* has the focus as the target.                                            *)
ShowButton ==
    /\ BrowserOpen
    /\ target' = focus
    /\ SetInputActive(TRUE)
    /\ UNCHANGED <<app, focus, webEditable, layoutVars>>

(* The keyboard's own close key: Main.qml's onCloseRequested. *)
CloseRequested ==
    /\ Visible
    /\ focus' = KeyboardItem
    /\ inputActive' = (inputActive /\ focus = KeyboardItem)
    /\ hidden' = TRUE
    /\ UNCHANGED <<app, webEditable, target, layoutVars>>

(* Fault: m_target is a plain pointer. *)
LoadApp_RawPointer(a) ==
    /\ a # app
    /\ app' = a
    /\ IF focus \in Objects
       THEN focus' = Window /\ SetInputActive(FALSE)
       ELSE UNCHANGED <<focus, inputActive, hidden>>
    /\ webEditable' = FALSE
    /\ UNCHANGED <<target, layoutVars>>

(* AppSurface loads another application or unloads the current one: the    *)
(* old one's objects die.  A focused one gives the focus to the window.    *)
LoadApp(a) ==
    /\ a # app
    /\ app' = a
    /\ IF focus \in Objects
       THEN focus' = Window /\ SetInputActive(FALSE)
       ELSE UNCHANGED <<focus, inputActive, hidden>>
    /\ webEditable' = FALSE
    /\ target' = IF target \in Objects THEN Null ELSE target
    /\ UNCHANGED layoutVars

(* previousLanguage() and nextLanguage() wrap around and show the letters. *)
ChooseLanguage(index) ==
    /\ Visible
    /\ languageIndex' = index
    /\ symbols' = FALSE
    /\ shifted' = FALSE
    /\ UNCHANGED inputVars
PreviousLanguage ==
    ChooseLanguage(IF languageIndex = 0 THEN Len(Languages) - 1 ELSE languageIndex - 1)
NextLanguage ==
    ChooseLanguage(IF languageIndex + 1 = Len(Languages) THEN 0 ELSE languageIndex + 1)

(* The "123" and the shift key. *)
ToggleSymbols ==
    /\ Visible
    /\ symbols' = ~symbols
    /\ UNCHANGED <<inputVars, languageIndex, shifted>>
ToggleShift ==
    /\ Visible
    /\ shifted' = ~shifted
    /\ UNCHANGED <<inputVars, languageIndex, symbols>>

(* targetObject(): the focus object takes the place of a dead target. *)
TargetObject == IF target = Null THEN focus ELSE target

(* sendText(): in English a shift serves one key, a symbol key included.   *)
SendText ==
    /\ Visible
    /\ shifted' = (shifted /\ Languages[languageIndex + 1] # "EN")
    /\ target' = TargetObject
    /\ UNCHANGED <<app, focus, webEditable, inputActive, hidden, languageIndex, symbols>>

(* Space, backspace and enter: typeText() or sendKey(), and no shift. *)
PressKey ==
    /\ Visible
    /\ target' = TargetObject
    /\ UNCHANGED <<app, focus, webEditable, inputActive, hidden, layoutVars>>

Next ==
    \/ \E f \in Fields : TapField(f)
    \/ TapPage
    \/ PageEditorChanges
    \/ LoadAddress
    \/ ShowButton
    \/ CloseRequested
    \/ \E a \in AppNames \cup {NoApp} : LoadApp(a)
    \/ PreviousLanguage
    \/ NextLanguage
    \/ ToggleSymbols
    \/ ToggleShift
    \/ SendText
    \/ PressKey

Spec == Init /\ [][Next]_vars

-----------------------------------------------------------------------------
Alive == LoadedItems(app) \cup {Window, KeyboardItem}

(* Type invariant: the focus is on an object that exists, and a key press  *)
(* is never sent to an object of an application that was closed.           *)
TypeOK ==
    /\ app \in AppNames \cup {NoApp}
    /\ focus \in Alive
    /\ target \in Alive \cup {Null}
    /\ webEditable \in BOOLEAN
    /\ inputActive \in BOOLEAN
    /\ hidden \in BOOLEAN
    /\ languageIndex \in 0 .. Len(Languages) - 1
    /\ symbols \in BOOLEAN
    /\ shifted \in BOOLEAN

(* Keys go where the caret is: while input is active the destination of    *)
(* typeText() and sendKey() is the object that has the focus, however it   *)
(* got there, so no key can land in a field the user has left.             *)
InputGoesToFocus == inputActive => target = focus

(* Main.qml:531 "This lets tapping the field later auto-show again": a tap *)
(* that moves the focus to a text field brings the keyboard up.            *)
FieldTapShowsKeyboard ==
    [][ focus' \in Fields /\ focus' # focus => Visible' ]_vars
=============================================================================
