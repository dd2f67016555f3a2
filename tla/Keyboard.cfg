SPECIFICATION Spec
CONSTANTS
    browser = browser
    messages = messages
    recipient = recipient
    body = body
    files = files
    folderName = folderName
    Address = Address
    Web = Web
    Window = Window
    KeyboardItem = KeyboardItem
    NoApp = NoApp
    Null = Null
    Languages <- MCLanguages
    Objects <- MCObjects
    Fields <- MCFields
    AppNames <- MCAppNames
    ItemsOf <- MCItemsOf
INVARIANTS
    TypeOK
    InputGoesToFocus
