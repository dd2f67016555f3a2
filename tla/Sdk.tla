--------------------------------- MODULE Sdk ---------------------------------
(***************************************************************************)
(* What a call of the C++ SDK returns to the program: the connection of    *)
(* frameworkRequest() and lmsRequest() is the caller of module Services,   *)
(* and mapStatus() makes an ErrorCode of the status in the response.       *)
(*                                                                         *)
(* The SDK sends well-formed messages with commands that exist, so that of *)
(* the statuses of the two protocols those remain that a handler gives; no *)
(* program of lumad's is refused after connect(), which admits root only.  *)
(* "outcome" is what the service decided, under the name both protocols    *)
(* have for it; the numbers they give it differ.                           *)
(***************************************************************************)
EXTENDS Services

VARIABLES
    outcome,  \* history: what the service that took the request decided
    error     \* error[c]: the result of c's last call, None when it begins

sdkVars == <<vars, outcome, error>>

(* enum luma_status and enum lms_status. *)
LumaStatus ==
    [ok |-> 0, abi |-> -2, unknown |-> -4, permission |-> -5, internal |-> -6]
LmsStatus ==
    [ok |-> 0, abi |-> -2, internal |-> -4, unknown |-> -5, permission |-> -6,
     notFound |-> -7, invalid |-> -8, unavailable |-> -9]
Status(d, name) == IF d = Lumad THEN LumaStatus[name] ELSE LmsStatus[name]

(* The ErrorCode with the meaning of each name. *)
ErrorCode ==
    [ok |-> "None", abi |-> "AbiMismatch", internal |-> "Internal",
     unknown |-> "Unsupported", permission |-> "PermissionDenied",
     notFound |-> "NotFound", invalid |-> "InvalidArgument",
     unavailable |-> "NotAvailable"]

(* Fault: the numbers are those of lumad, for both protocols. *)
MapStatus_OfLumad(status) ==
    LET names == {n \in DOMAIN LumaStatus : LumaStatus[n] = status}
    IN  IF names = {} THEN "ProtocolError" ELSE ErrorCode[CHOOSE n \in names : TRUE]

(* mapStatus(): the numbers are those of LMS, for both protocols. *)
MapStatus(status) ==
    LET names == {n \in DOMAIN LmsStatus : LmsStatus[n] = status}
    IN  IF names = {} THEN "ProtocolError" ELSE ErrorCode[CHOOSE n \in names : TRUE]

(* What the handler of the request may decide: in lumad uname() and        *)
(* sysinfo() may fail; LMS refuses, does not find, rejects fields, and may *)
(* fail to write its files.                                                *)
LumadDecisions(kind) == IF kind = "power" THEN {"ok"} ELSE {"ok", "internal"}
LmsdDecisions(kind) ==
    IF kind = "health" THEN {"ok"}
    ELSE {"ok", "internal", "permission", "notFound", "invalid"}
Decisions(d, kind) == IF d = Lumad THEN LumadDecisions(kind) ELSE LmsdDecisions(kind)

SdkInit ==
    /\ Init
    /\ outcome = [c \in Apps |-> "none"]
    /\ error = [c \in Apps |-> "None"]

(* connect() fails: nobody listens, or the mode of the socket file does    *)
(* not admit the program.                                                  *)
ConnectFails(c, d) ==
    /\ phase[c] = "idle"
    /\ path[d] # "live" \/ c \notin Admitted[d]
    /\ error' = [error EXCEPT ![c] = "NotAvailable"]
    /\ UNCHANGED <<vars, outcome>>

(* What happens to the call of c in a step of Services: it begins, with a  *)
(* fresh result, a handler has its request, or recv() returns.             *)
Begins(c) == phase[c] = "idle" /\ phase'[c] = "open"
Handled(c, d) == c \in Served(d) /\ pc[d] = "recv" /\ pc'[d] \in {"reply", "pinging"}
Returns(c) == phase[c] \in {"open", "sent"} /\ phase'[c] = "idle"

(* The ErrorCode of a call that returns: of the response, if there is one. *)
Returned(c) ==
    IF sends'[c] > sends[c]
    THEN MapStatus(Status(CHOOSE d \in Daemons : c \in Served(d), outcome[c]))
    ELSE "ConnectionFailed"

(* A step of the services and of programs that send what the SDK sends. *)
WellFormed == \A i \in DOMAIN queue'[Lumad] : queue'[Lumad][i].kind # "refused"
Step ==
    /\ Next
    /\ WellFormed
    /\ error' = [c \in Apps |->
            IF Returns(c) THEN Returned(c) ELSE IF Begins(c) THEN "None" ELSE error[c]]
    /\ \E name \in DOMAIN ErrorCode \cup {"none"} :
        /\ IF \E c \in Apps, d \in Daemons : Handled(c, d)
           THEN \E c \in Apps, d \in Daemons :
                    Handled(c, d) /\ name \in Decisions(d, peer[d].kind)
           ELSE name = "none"
        /\ outcome' = [c \in Apps |->
                IF \E d \in Daemons : Handled(c, d) THEN name
                ELSE IF Begins(c) THEN "none" ELSE outcome[c]]

SdkNext ==
    \/ \E c \in Apps, d \in Daemons : ConnectFails(c, d)
    \/ Step

SdkSpec == SdkInit /\ [][SdkNext]_sdkVars /\ Fairness

-----------------------------------------------------------------------------
(* A program that gets a response is told what the service decided on this *)
(* request: success exactly when there was success, and of LMS, whose      *)
(* numbers the table has, the very error.                                  *)
ToldAsDecided ==
    [][ \A c \in Apps, d \in Daemons :
            Returns(c) /\ c \in Served(d) /\ sends'[c] > sends[c] =>
                /\ outcome[c] \in Decisions(d, peer[d].kind)
                /\ error'[c] = "None" <=> outcome[c] = "ok"
                /\ d = Lmsd => error'[c] = ErrorCode[outcome[c]] ]_sdkVars
===============================================================================
