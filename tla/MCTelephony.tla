---------------------------- MODULE MCTelephony ----------------------------
(* Phone, Messages and an application with pages of its own, for TLC. *)
EXTENDS Telephony, TLC
CONSTANTS phone, messages, settings, call1, call2
MCAppIds == {phone, messages, settings}
MCCallIds == {call1, call2}
=============================================================================
