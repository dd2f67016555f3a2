------------------------------- MODULE LmsStore -------------------------------
(***************************************************************************)
(* The two files of LMS: apps.tsv, the registered applications with their  *)
(* permissions, and notifications.tsv.  lmsd serves one request at a time, *)
(* so that a request is one step; what can come between its parts is the   *)
(* end of the process and a full disk.  No fprintf() or fclose() result is *)
(* looked at: a write cut short is answered like a complete one, and the   *)
(* line it leaves unfinished is continued by the next append.              *)
(*                                                                         *)
(* A line is a record: the application its first field names, the tokens   *)
(* of its permission field, and whether its newline is missing.  A token   *)
(* that lost its end, or has other text glued to it, is compared like any  *)
(* other, and is the token Scrap.  As in the repository, no token and no   *)
(* id is the beginning of another, and no id, name or version is a token:  *)
(* half an id, and an id glued to another, is none of any application (the *)
(* permissions beside it are left out), and Scrap is no permission anybody *)
(* asks for.                                                               *)
(***************************************************************************)
EXTENDS Integers, Sequences, FiniteSets

CONSTANTS
    Apps,       \* application ids
    Perms,      \* permission tokens
    Star,       \* the token "*"
    Post,       \* the token "lms.notifications.post"
    Junk,       \* any other text in the place of an id
    Scrap,      \* any other text in the place of a permission token
    PerSecond,  \* 1000: notification ids are seconds * 1000 + counter
    MaxRecords, MaxRuns, MaxClock   \* bounds of the checked instances

ASSUME StoreAssumption ==
    /\ Star \in Perms
    /\ Post \in Perms
    /\ Junk \notin Apps
    /\ Scrap \notin Perms
    /\ PerSecond \in Nat \ {0}
    /\ MaxRecords \in Nat /\ MaxRuns \in Nat /\ MaxClock \in Nat

Tokens == Perms \cup {Scrap}
Line == [app : Apps \cup {Junk}, perms : SUBSET Tokens, open : BOOLEAN]
Note == [id : Nat, app : Apps, run : Nat]

VARIABLES
    running,    \* lmsd is up
    appsDb,     \* the lines of apps.tsv
    notes,      \* the complete lines of notifications.tsv
    noteOpen,   \* its last line has no newline: the next one is glued to it
    clock,      \* time(NULL)
    counter,    \* notification_counter
    run,        \* history: the number of the process
    committed,  \* history: the permissions of each application's last rename()
    registered, \* history: applications whose registration was answered
    posted,     \* history: notifications answered "posted" since the last clear
    damaged     \* history: a write was cut short

store == <<appsDb, notes, noteOpen>>
history == <<run, committed, registered, posted, damaged>>
vars == <<running, store, clock, counter, history>>

-----------------------------------------------------------------------------
(* app_find(): the number of the first line with this id, if there is one. *)
First(db, a) ==
    {i \in DOMAIN db : db[i].app = a /\ \A j \in 1 .. i - 1 : db[j].app # a}
Found(db, a) == \E i \in DOMAIN db : db[i].app = a

(* app_has_permission() *)
HasPermission(a, p) ==
    \E i \in First(appsDb, a) : {p, Star} \cap appsDb[i].perms # {}

(* What an unfinished line becomes when the next one continues it: the     *)
(* token that ended the line, or the field that comes to be the fourth, is *)
(* scrap, and so is the id when nothing followed it.                       *)
Glued(line) ==
    {[app |-> line.app, perms |-> P \cup {Scrap}, open |-> FALSE] : P \in SUBSET line.perms}
    \cup {l \in {[app |-> Junk, perms |-> {}, open |-> FALSE]} : line.perms = {}}

(* The files that appending a line can make of db. *)
Added(db, line) ==
    IF db # <<>> /\ db[Len(db)].open
    THEN {[db EXCEPT ![Len(db)] = g] : g \in Glued(db[Len(db)])}
    ELSE {Append(db, line)}

(* Fault: permissions are only added. *)
Upserted_Merges(db, line) ==
    IF Found(db, line.app)
    THEN {[i \in DOMAIN db |->
            IF db[i].app = line.app THEN [line EXCEPT !.perms = @ \cup db[i].perms]
            ELSE db[i]]}
    ELSE Added(db, line)

(* app_upsert(): the content of apps.tmp. *)
Upserted(db, line) ==
    IF Found(db, line.app)
    THEN {[i \in DOMAIN db |-> IF db[i].app = line.app THEN line ELSE db[i]]}
    ELSE Added(db, line)

(* The permission fields a list of tokens can be cut to: some of them, and *)
(* perhaps half of another one.                                            *)
CutTokens(perms) ==
    (SUBSET perms) \cup {P \cup {Scrap} : P \in (SUBSET perms) \ {perms}}

(* What a write of db cut short leaves: some lines, the last one perhaps   *)
(* without its newline, with less in its permission field, or with half an *)
(* id.                                                                     *)
Cut(line) ==
    {[app |-> Junk, perms |-> {}, open |-> TRUE]}
    \cup {[app |-> line.app, perms |-> P, open |-> TRUE] : P \in CutTokens(line.perms)}
Torn(db) ==
    {SubSeq(db, 1, n) : n \in 0 .. Len(db)}
    \cup UNION {{Append(SubSeq(db, 1, n - 1), line) : line \in Cut(db[n])} :
                n \in DOMAIN db}

(* The line of an application in apps.tsv. *)
NewLine(a, P) == [app |-> a, perms |-> P, open |-> FALSE]

(* The bound on what the two files hold. *)
Room == Len(appsDb) + Len(notes) < MaxRecords

-----------------------------------------------------------------------------
Init ==
    /\ running = FALSE
    /\ appsDb = <<>>
    /\ notes = <<>>
    /\ noteOpen = FALSE
    /\ clock = 0
    /\ counter = 0
    /\ run = 0
    /\ committed = [a \in Apps |-> {}]
    /\ registered = {}
    /\ posted = {}
    /\ damaged = FALSE

Start ==
    /\ ~running
    /\ running' = TRUE
    /\ counter' = 0
    /\ run' = run + 1
    /\ UNCHANGED <<store, clock, committed, registered, posted, damaged>>

(* The process ends, at most MaxRuns - 1 times. *)
Ends ==
    /\ running
    /\ run < MaxRuns
    /\ running' = FALSE

(* It ends between two requests, or before a request has changed a file. *)
Kill ==
    /\ Ends
    /\ UNCHANGED <<store, clock, counter, history>>

(* The system clock does not step back. *)
Tick ==
    /\ clock < MaxClock
    /\ clock' = clock + 1
    /\ UNCHANGED <<running, store, counter, history>>

(* APP_REGISTER from root with valid fields, answered "registered".  One   *)
(* that is refused, or whose fopen() or rename() fails, changes nothing.   *)
Register(a, P) ==
    /\ running
    /\ Room \/ Found(appsDb, a)
    /\ appsDb' \in Upserted(appsDb, NewLine(a, P))
    /\ committed' = [committed EXCEPT ![a] = P]
    /\ registered' = registered \cup {a}
    /\ UNCHANGED <<running, notes, noteOpen, clock, counter, run, posted, damaged>>

(* The same on a full disk: apps.tmp is cut short, and still renamed and   *)
(* answered "registered".                                                  *)
RegisterFull(a, P) ==
    /\ running
    /\ Room \/ Found(appsDb, a)
    /\ \E db \in Upserted(appsDb, NewLine(a, P)) : appsDb' \in Torn(db)
    /\ committed' = [committed EXCEPT ![a] = P]
    /\ registered' = registered \cup {a}
    /\ damaged' = TRUE
    /\ UNCHANGED <<running, notes, noteOpen, clock, counter, run, posted>>

(* Fault: apps.tsv is written in place. *)
RegisterKilled_InPlace(a, P) ==
    /\ Ends
    /\ Room \/ Found(appsDb, a)
    /\ \E db \in Upserted(appsDb, NewLine(a, P)) : appsDb' \in Torn(db)
    /\ committed' = [committed EXCEPT ![a] = P]
    /\ UNCHANGED <<notes, noteOpen, clock, counter, run, registered, posted, damaged>>

(* The process ends after rename(), before the answer.  (Before rename()   *)
(* only apps.tmp has changed, which the next registration truncates.)      *)
RegisterKilled(a, P) ==
    /\ Ends
    /\ Room \/ Found(appsDb, a)
    /\ appsDb' \in Upserted(appsDb, NewLine(a, P))
    /\ committed' = [committed EXCEPT ![a] = P]
    /\ UNCHANGED <<notes, noteOpen, clock, counter, run, registered, posted, damaged>>

-----------------------------------------------------------------------------
(* NOTIFY_POST in the name of a, by root or with a's permission. *)
MayPost(a, root) == root \/ HasPermission(a, Post)

(* Fault: the counter is left out. *)
NextNote_NoCounter(a) == [id |-> clock * PerSecond + 1, app |-> a, run |-> run]

(* notification_append(): the id and the line. *)
NextNote(a) == [id |-> clock * PerSecond + counter + 1, app |-> a, run |-> run]

(* Fault: the file is opened with "w". *)
Appended_Truncates(a) == <<NextNote(a)>>

(* A line glued to an unfinished one is no line of its own. *)
Appended(a) == IF noteOpen THEN notes ELSE Append(notes, NextNote(a))

(* NOTIFY_POST that is answered "posted". *)
PostNote(a, root) ==
    /\ running
    /\ Room /\ counter < MaxRecords
    /\ MayPost(a, root)
    /\ counter' = counter + 1
    /\ notes' = Appended(a)
    /\ noteOpen' = FALSE
    /\ posted' = posted \cup {NextNote(a)}
    /\ UNCHANGED <<running, appsDb, clock, run, committed, registered, damaged>>

(* On a full disk the line is lost or unfinished, and "posted" is answered. *)
PostFull(a, root) ==
    /\ running
    /\ Room /\ counter < MaxRecords
    /\ MayPost(a, root)
    /\ counter' = counter + 1
    /\ noteOpen' \in {noteOpen, TRUE}
    /\ posted' = posted \cup {NextNote(a)}
    /\ damaged' = TRUE
    /\ UNCHANGED <<running, appsDb, notes, clock, run, committed, registered>>

(* The process ends after fclose(), before the answer. *)
PostKilled(a, root) ==
    /\ Ends
    /\ Room /\ counter < MaxRecords
    /\ MayPost(a, root)
    /\ notes' = Appended(a)
    /\ noteOpen' = FALSE
    /\ UNCHANGED <<appsDb, clock, counter, history>>

(* NOTIFY_CLEAR by root: unlink(). *)
Clear ==
    /\ running
    /\ notes' = <<>>
    /\ noteOpen' = FALSE
    /\ posted' = {}
    /\ UNCHANGED <<running, appsDb, clock, counter, run, committed, registered, damaged>>

-----------------------------------------------------------------------------
(* APP_LIST and the SDK's Applications::list().  A message has room for    *)
(* 4095 bytes: list_file() sends the lines that fit, and of a line longer  *)
(* than its buffer the pieces that fit.                                    *)
Entry == [app : Apps \cup {Junk}, fields : 1 .. 4, perms : SUBSET Tokens]

(* A line as a whole; a line of a damaged file may have fewer fields. *)
Whole(line) == [app |-> line.app, fields |-> 4, perms |-> line.perms]

(* The beginning of a line: half an id, or some of its fields, of which    *)
(* the last, be it a version or a list of tokens, may have lost its end.   *)
Pieces(line) ==
    {[app |-> Junk, fields |-> 1, perms |-> {}]}
    \cup {[app |-> line.app, fields |-> n, perms |-> {}] : n \in 1 .. 3}
    \cup {[app |-> line.app, fields |-> 4, perms |-> P] : P \in CutTokens(line.perms)}

(* What list_file() may send of db. *)
Listings(db) ==
    LET lines == [i \in DOMAIN db |-> Whole(db[i])] IN
    {SubSeq(lines, 1, n) : n \in 0 .. Len(db)}
    \cup UNION {{Append(SubSeq(lines, 1, n - 1), e) : e \in Pieces(db[n])} :
                n \in DOMAIN db}

(* Fault: an id is enough. *)
ParseApp_IdOnly(e) == e.fields >= 1

(* parseApp() takes an entry with three fields or more, as it is: with     *)
(* half a version, and with half a token among its permissions.            *)
ParseApp(e) == e.fields >= 3

(* The entries list() returns; it passes over the others. *)
Listed(listing) == {i \in DOMAIN listing : ParseApp(listing[i])}

Next ==
    \/ Start
    \/ Kill
    \/ Tick
    \/ \E a \in Apps, P \in SUBSET Perms :
        Register(a, P) \/ RegisterFull(a, P) \/ RegisterKilled(a, P)
    \/ \E a \in Apps, root \in BOOLEAN :
        PostNote(a, root) \/ PostFull(a, root) \/ PostKilled(a, root)
    \/ Clear

Spec == Init /\ [][Next]_vars

-----------------------------------------------------------------------------
(* Type invariant.  Unfinished lines come from writes cut short only. *)
TypeOK ==
    /\ running \in BOOLEAN
    /\ appsDb \in Seq(Line)
    /\ notes \in Seq(Note)
    /\ noteOpen \in BOOLEAN
    /\ clock \in Nat /\ counter \in Nat /\ run \in Nat
    /\ committed \in [Apps -> SUBSET Perms]
    /\ registered \in SUBSET Apps
    /\ posted \in SUBSET Note
    /\ damaged \in BOOLEAN
    /\ ~damaged => ~noteOpen /\ \A i \in DOMAIN appsDb : ~appsDb[i].open

(* PERMISSION_CHECK and NOTIFY_POST grant nothing but what the last        *)
(* registration of the application asked for: a permission it gave up      *)
(* stays revoked, whatever full disks, killed processes and glued lines    *)
(* did to the file.                                                        *)
GrantsAreCommitted ==
    \A a \in Apps, p \in Perms :
        HasPermission(a, p) => {p, Star} \cap committed[a] # {}

(* An application has one line, so that app_find()'s first is the only one. *)
OneLinePerApp ==
    \A i, j \in DOMAIN appsDb :
        appsDb[i].app = appsDb[j].app /\ appsDb[i].app \in Apps => i = j

(* The SDK lists no application twice and none with a permission it was    *)
(* not given, however much of the file the message had room for; a token   *)
(* cut in two is the one other thing it may show.  As long as no write was *)
(* cut short, it lists none that was never registered, and half a version, *)
(* half a token or a shorter list only in its last entry: the others are   *)
(* the registrations as they were made.                                    *)
ListingIsTrue ==
    \A listing \in Listings(appsDb) : \A i \in Listed(listing) :
        LET e == listing[i] IN
        /\ e.app \in Apps =>
            /\ e.perms \subseteq committed[e.app] \cup {Scrap}
            /\ \A j \in Listed(listing) : listing[j].app = e.app => i = j
        /\ ~damaged =>
            /\ e.app \in Apps
            /\ i # Len(listing) =>
                e = [app |-> e.app, fields |-> 4, perms |-> committed[e.app]]

(* As long as no write was cut short, what was answered "registered" is    *)
(* there, with the permissions of the last rename(), after every kill.     *)
RegistrationKept ==
    ~damaged => \A a \in registered :
        \E i \in First(appsDb, a) : appsDb[i].perms = committed[a]

(* As long as no write was cut short, what was answered "posted" is in the *)
(* file until the next clear.                                              *)
PostedKept == ~damaged => posted \subseteq {notes[i] : i \in DOMAIN notes}

(* The notifications of one process have increasing, hence different, ids. *)
(* (Two processes started within a second of each other share ids.)        *)
IdsIncreaseInRun ==
    \A i, j \in DOMAIN notes :
        i < j /\ notes[i].run = notes[j].run => notes[i].id < notes[j].id
===============================================================================
