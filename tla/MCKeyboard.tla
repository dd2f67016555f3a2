------------------------------ MODULE MCKeyboard ------------------------------
(* The three applications with text fields, for TLC. *)
EXTENDS Keyboard, TLC

CONSTANTS browser, messages, files, recipient, body, folderName

MCObjects == {Address, Web, recipient, body, folderName}
MCFields == {Address, recipient, body, folderName}
MCLanguages == <<"EN", "TH", "ES">>
MCAppNames == {browser, messages, files}
MCItemsOf == (browser :> {Address, Web}) @@ (messages :> {recipient, body})
             @@ (files :> {folderName})
=============================================================================
