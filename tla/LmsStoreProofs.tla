---------------------------- MODULE LmsStoreProofs ----------------------------
(***************************************************************************)
(* The files of LMS for every set of applications and permissions, and for *)
(* every bound: what the permission check grants, and the order of the     *)
(* notification ids.                                                       *)
(***************************************************************************)
EXTENDS LmsStore, TLAPS

(* No line of an application holds a permission its last rename() did not. *)
Covered(db, com) ==
    \A i \in DOMAIN db :
        db[i].app \in Apps => db[i].perms \subseteq com[db[i].app] \cup {Scrap}

(* The ids of the running process stay below the next one. *)
IdsBelow ==
    \A i \in DOMAIN notes :
        /\ notes[i].run <= run
        /\ running /\ notes[i].run = run => notes[i].id <= clock * PerSecond + counter

(* No line was ever cut short. *)
Closed(db) == \A i \in DOMAIN db : ~db[i].open /\ db[i].app \in Apps

(* OneLinePerApp, of any file. *)
Unique(db) ==
    \A i, j \in DOMAIN db : db[i].app = db[j].app /\ db[i].app \in Apps => i = j

(* TypeOK in three parts: the rest, the application file, the notifications. *)
BaseType ==
    /\ running \in BOOLEAN
    /\ clock \in Nat /\ counter \in Nat /\ run \in Nat
    /\ registered \in SUBSET Apps
    /\ damaged \in BOOLEAN
AppsInv ==
    /\ appsDb \in Seq(Line)
    /\ committed \in [Apps -> SUBSET Perms]
    /\ ~damaged => Closed(appsDb)
    /\ Covered(appsDb, committed)
    /\ Unique(appsDb)
NotesInv ==
    /\ notes \in Seq(Note)
    /\ noteOpen \in BOOLEAN
    /\ posted \in SUBSET Note
    /\ ~damaged => ~noteOpen
    /\ IdsBelow
    /\ IdsIncreaseInRun

StoreInv == BaseType /\ AppsInv /\ NotesInv

-----------------------------------------------------------------------------
(* A permission field cut short holds at most what it held, and scrap. *)
LEMMA CutTokensOnly ==
    ASSUME NEW perms \in SUBSET Tokens, NEW P \in CutTokens(perms)
    PROVE  P \in SUBSET Tokens /\ P \subseteq perms \cup {Scrap}
  BY DEF CutTokens, Tokens

(* A line glued to another keeps at most what it had, and scrap. *)
LEMMA GluedLine ==
    ASSUME NEW line \in Line, NEW g \in Glued(line)
    PROVE  /\ g \in Line /\ ~g.open
           /\ g.app \in Apps =>
                g.app = line.app /\ g.perms \subseteq line.perms \cup {Scrap}
  <1>1. CASE \E P \in SUBSET line.perms :
               g = [app |-> line.app, perms |-> P \cup {Scrap}, open |-> FALSE]
    BY <1>1 DEF Line, Tokens
  <1>2. CASE g = [app |-> Junk, perms |-> {}, open |-> FALSE]
    BY <1>2, StoreAssumption DEF Line
  <1> QED BY <1>1, <1>2 DEF Glued

(* What app_upsert() writes: the registered application has what it asked  *)
(* for and no more, the others what they had.                              *)
LEMMA UpsertedLines ==
    ASSUME NEW db \in Seq(Line), NEW com \in [Apps -> SUBSET Perms],
           NEW a \in Apps, NEW P \in SUBSET Perms,
           NEW new \in Upserted(db, NewLine(a, P)),
           Covered(db, com), Unique(db)
    PROVE  /\ new \in Seq(Line)
           /\ Covered(new, [com EXCEPT ![a] = P])
           /\ Closed(db) => Closed(new)
           /\ Unique(new)
  <1> DEFINE line == NewLine(a, P)
             com2 == [com EXCEPT ![a] = P]
  <1>0. /\ line \in Line /\ line.app = a /\ line.perms = P /\ ~line.open
        /\ com2[a] = P
        /\ \A b \in Apps : b # a => com2[b] = com[b]
    BY DEF NewLine, Line, Tokens
  <1> HIDE DEF line, com2
  <1>1. CASE Found(db, a)
    <2>1. new = [i \in DOMAIN db |-> IF db[i].app = a THEN line ELSE db[i]]
      BY <1>0, <1>1 DEF Upserted, line
    <2>2. DOMAIN new = 1 .. Len(db) /\ Len(db) \in Nat
      BY <2>1
    <2>3. \A i \in 1 .. Len(db) : new[i] = (IF db[i].app = a THEN line ELSE db[i])
      BY <2>1
    <2>4. new \in Seq(Line)
      BY <1>0, <2>1
    <2>5. Covered(new, com2)
      BY <1>0, <2>2, <2>3 DEF Covered
    <2>6. Closed(db) => Closed(new)
      BY <1>0, <2>2, <2>3 DEF Closed
    <2>7. Unique(new)
      BY <1>0, <2>2, <2>3 DEF Unique
    <2> QED BY <2>4, <2>5, <2>6, <2>7 DEF com2
  <1>2. CASE ~Found(db, a)
    <2>0. new \in Added(db, line)
      BY <1>0, <1>2 DEF Upserted, line
    <2>1. \A i \in 1 .. Len(db) : db[i] \in Line /\ db[i].app # a
      BY <1>2 DEF Found
    <2>2. CASE db # <<>> /\ db[Len(db)].open
      <3>1. PICK g \in Glued(db[Len(db)]) : new = [db EXCEPT ![Len(db)] = g]
        BY <2>0, <2>2 DEF Added
      <3>2. Len(db) \in 1 .. Len(db)
        BY <2>2
      <3>3. /\ g \in Line /\ ~g.open
            /\ g.app \in Apps =>
                /\ g.app = db[Len(db)].app
                /\ g.perms \subseteq db[Len(db)].perms \cup {Scrap}
        BY <2>1, <3>2, GluedLine
      <3>4. /\ new \in Seq(Line) /\ DOMAIN new = 1 .. Len(db)
            /\ \A i \in 1 .. Len(db) : new[i] = (IF i = Len(db) THEN g ELSE db[i])
        BY <3>1, <3>2, <3>3
      <3>5. Covered(new, com2)
        BY <1>0, <2>1, <3>2, <3>3, <3>4 DEF Covered
      <3>6. Closed(db) => Closed(new)
        BY <2>2, <3>2 DEF Closed
      <3>7. Unique(new)
        <4>1. \A i \in 1 .. Len(db) : new[i].app \in Apps => new[i].app = db[i].app
          BY <3>2, <3>3, <3>4
        <4> QED BY <3>4, <4>1 DEF Unique
      <3> QED BY <3>4, <3>5, <3>6, <3>7 DEF com2
    <2>3. CASE ~(db # <<>> /\ db[Len(db)].open)
      <3>1. new = Append(db, line)
        BY <2>0, <2>3 DEF Added
      <3>2. /\ new \in Seq(Line) /\ DOMAIN new = 1 .. Len(db) + 1
            /\ \A i \in 1 .. Len(db) : new[i] = db[i]
            /\ new[Len(db) + 1] = line
        BY <1>0, <3>1
      <3>3. Covered(new, com2)
        BY <1>0, <2>1, <3>2 DEF Covered
      <3>4. Closed(db) => Closed(new)
        BY <1>0, <3>2 DEF Closed
      <3>5. Unique(new)
        <4>1. Len(db) \in Nat
          OBVIOUS
        <4> QED BY <1>0, <2>1, <3>2, <4>1 DEF Unique
      <3> QED BY <3>2, <3>3, <3>4, <3>5 DEF com2
    <2> QED BY <2>2, <2>3
  <1> QED BY <1>1, <1>2

(* A file cut short grants no more than the whole file. *)
LEMMA TornLines ==
    ASSUME NEW db \in Seq(Line), NEW com, NEW torn \in Torn(db),
           Covered(db, com), Unique(db)
    PROVE  torn \in Seq(Line) /\ Covered(torn, com) /\ Unique(torn)
  <1>1. CASE \E n \in 0 .. Len(db) : torn = SubSeq(db, 1, n)
    <2>1. PICK n \in 0 .. Len(db) : torn = SubSeq(db, 1, n)
      BY <1>1
    <2>2. /\ torn \in Seq(Line) /\ DOMAIN torn = 1 .. n
          /\ \A i \in 1 .. n : torn[i] = db[i]
      BY <2>1
    <2>3. Covered(torn, com)
      BY <2>2 DEF Covered
    <2>4. Unique(torn)
      BY <2>2 DEF Unique
    <2> QED BY <2>2, <2>3, <2>4
  <1>2. CASE \E n \in DOMAIN db : \E line \in Cut(db[n]) :
               torn = Append(SubSeq(db, 1, n - 1), line)
    <2>0. PICK n \in DOMAIN db : \E line \in Cut(db[n]) :
              torn = Append(SubSeq(db, 1, n - 1), line)
      BY <1>2
    <2>1. PICK line \in Cut(db[n]) : torn = Append(SubSeq(db, 1, n - 1), line)
      BY <2>0
    <2>2. n \in 1 .. Len(db) /\ db[n] \in Line
      OBVIOUS
    <2>3. /\ line \in Line
          /\ line.app \in Apps =>
                line.app = db[n].app /\ line.perms \subseteq db[n].perms \cup {Scrap}
      <3>1. CASE line = [app |-> Junk, perms |-> {}, open |-> TRUE]
        BY <3>1, StoreAssumption DEF Line
      <3>2. CASE \E P \in CutTokens(db[n].perms) :
                   line = [app |-> db[n].app, perms |-> P, open |-> TRUE]
        <4>1. PICK P \in CutTokens(db[n].perms) :
                  line = [app |-> db[n].app, perms |-> P, open |-> TRUE]
          BY <3>2
        <4>2. db[n].perms \in SUBSET Tokens /\ db[n].app \in Apps \cup {Junk}
          BY <2>2 DEF Line
        <4>3. P \in SUBSET Tokens /\ P \subseteq db[n].perms \cup {Scrap}
          BY <4>2, CutTokensOnly
        <4> QED BY <4>1, <4>2, <4>3 DEF Line
      <3> QED BY <2>1, <3>1, <3>2 DEF Cut
    <2> DEFINE begin == SubSeq(db, 1, n - 1)
    <2>4. /\ begin \in Seq(Line) /\ Len(begin) = n - 1
          /\ \A i \in 1 .. n - 1 : begin[i] = db[i]
      BY <2>2
    <2>5. torn = Append(begin, line)
      BY <2>1
    <2> HIDE DEF begin
    <2>6. /\ torn \in Seq(Line) /\ DOMAIN torn = 1 .. n
          /\ \A i \in 1 .. n - 1 : torn[i] = db[i]
          /\ torn[n] = line
      BY <2>2, <2>3, <2>4, <2>5
    <2>7. Covered(torn, com)
      BY <2>2, <2>3, <2>6 DEF Covered
    <2>8. Unique(torn)
      <3>1. \A i \in 1 .. n : torn[i].app \in Apps => torn[i].app = db[i].app
        BY <2>2, <2>3, <2>6
      <3> QED BY <2>2, <2>6, <3>1 DEF Unique
    <2> QED BY <2>6, <2>7, <2>8
  <1> QED BY <1>1, <1>2 DEF Torn

-----------------------------------------------------------------------------
(* The next note's id is above those of the running process. *)
LEMMA NextNoteType ==
    ASSUME BaseType, NEW a \in Apps
    PROVE  /\ NextNote(a) \in Note
           /\ NextNote(a).run = run
           /\ NextNote(a).id = clock * PerSecond + counter + 1
           /\ clock * PerSecond + counter \in Nat
  <1>1. clock * PerSecond \in Nat
    BY StoreAssumption DEF BaseType
  <1> QED BY <1>1 DEF NextNote, Note, BaseType

(* Every note has a number for its id and its process. *)
LEMMA NoteFields ==
    ASSUME NotesInv
    PROVE  \A i \in 1 .. Len(notes) : notes[i].id \in Nat /\ notes[i].run \in Nat
  <1>1. \A i \in 1 .. Len(notes) : notes[i] \in Note
    BY DEF NotesInv
  <1> QED BY <1>1 DEF Note

(* Adding the note keeps the ids of the process increasing. *)
LEMMA NoteAdded ==
    ASSUME BaseType, NotesInv, running, NEW a \in Apps
    PROVE  /\ Appended(a) \in Seq(Note)
           /\ \A i, j \in DOMAIN Appended(a) :
                i < j /\ Appended(a)[i].run = Appended(a)[j].run
                    => Appended(a)[i].id < Appended(a)[j].id
           /\ \A i \in DOMAIN Appended(a) :
                /\ Appended(a)[i].run <= run
                /\ Appended(a)[i].run = run
                    => Appended(a)[i].id <= clock * PerSecond + counter + 1
  <1> DEFINE next == NextNote(a)
             last == clock * PerSecond + counter
             added == Appended(a)
  <1>1. next \in Note /\ next.run = run /\ next.id = last + 1 /\ last \in Nat
    BY NextNoteType
  <1>2. /\ notes \in Seq(Note) /\ run \in Nat
        /\ \A i \in 1 .. Len(notes) :
            /\ notes[i].run <= run
            /\ notes[i].run = run => notes[i].id <= last
        /\ \A i, j \in 1 .. Len(notes) :
            i < j /\ notes[i].run = notes[j].run => notes[i].id < notes[j].id
    BY DEF NotesInv, BaseType, IdsBelow, IdsIncreaseInRun
  <1>3. \A i \in 1 .. Len(notes) : notes[i].id \in Nat
    BY NoteFields
  <1>4. added = IF noteOpen THEN notes ELSE Append(notes, next)
    BY DEF Appended
  <1>5. last + 1 = clock * PerSecond + counter + 1
    BY <1>1
  <1> HIDE DEF next, last, added
  <1>6. CASE noteOpen
    <2>1. added = notes
      BY <1>4, <1>6
    <2> QED BY <1>1, <1>2, <1>3, <1>5, <2>1 DEF added
  <1>7. CASE ~noteOpen
    <2>1. /\ added \in Seq(Note) /\ DOMAIN added = 1 .. Len(notes) + 1
          /\ \A i \in 1 .. Len(notes) : added[i] = notes[i]
          /\ added[Len(notes) + 1] = next
      BY <1>1, <1>2, <1>4, <1>7
    <2>2. Len(notes) \in Nat
      BY <1>2
    <2>3. \A i \in 1 .. Len(notes) + 1 : i \in 1 .. Len(notes) \/ i = Len(notes) + 1
      BY <2>2
    <2>4. \A i, j \in DOMAIN added :
              i < j /\ added[i].run = added[j].run => added[i].id < added[j].id
      BY <1>1, <1>2, <1>3, <2>1, <2>2, <2>3
    <2>5. \A i \in DOMAIN added :
              added[i].run <= run /\ (added[i].run = run => added[i].id <= last + 1)
      BY <1>1, <1>2, <1>3, <2>1, <2>2, <2>3
    <2> QED BY <1>5, <2>1, <2>4, <2>5 DEF added
  <1> QED BY <1>6, <1>7

-----------------------------------------------------------------------------
(* Initially the files are empty. *)
LEMMA InitInv == Init => StoreInv
  <1> SUFFICES ASSUME Init PROVE StoreInv
    OBVIOUS
  <1>1. BaseType
    BY DEF Init, BaseType
  <1>2. appsDb = <<>> /\ notes = <<>> /\ Len(<<>>) = 0
    BY DEF Init
  <1>3. AppsInv
    BY <1>2 DEF Init, AppsInv, Covered, Closed, Unique
  <1>4. notes \in Seq(Note) /\ IdsBelow /\ IdsIncreaseInRun
    BY <1>2 DEF IdsBelow, IdsIncreaseInRun
  <1>5. noteOpen \in BOOLEAN /\ posted \in SUBSET Note /\ ~noteOpen
    BY DEF Init
  <1> QED BY <1>1, <1>3, <1>4, <1>5 DEF StoreInv, NotesInv

(* The scalar variables keep their types. *)
LEMMA BaseStep == StoreInv /\ [Next]_vars => BaseType'
  <1> SUFFICES ASSUME StoreInv, [Next]_vars PROVE BaseType'
    OBVIOUS
  <1>0. BaseType
    BY DEF StoreInv
  <1>1. running' \in BOOLEAN /\ damaged' \in BOOLEAN
    <2>1. CASE Start
      BY <1>0, <2>1 DEF Start, BaseType
    <2>2. CASE Kill
      BY <1>0, <2>2 DEF Kill, Ends, history, BaseType
    <2>3. CASE Tick
      BY <1>0, <2>3 DEF Tick, history, BaseType
    <2>4. CASE Clear
      BY <1>0, <2>4 DEF Clear, BaseType
    <2>5. ASSUME NEW a \in Apps, NEW P \in SUBSET Perms, Register(a, P)
          PROVE  running' \in BOOLEAN /\ damaged' \in BOOLEAN
      BY <1>0, <2>5 DEF Register, BaseType
    <2>6. ASSUME NEW a \in Apps, NEW P \in SUBSET Perms, RegisterFull(a, P)
          PROVE  running' \in BOOLEAN /\ damaged' \in BOOLEAN
      BY <1>0, <2>6 DEF RegisterFull, BaseType
    <2>7. ASSUME NEW a \in Apps, NEW P \in SUBSET Perms, RegisterKilled(a, P)
          PROVE  running' \in BOOLEAN /\ damaged' \in BOOLEAN
      BY <1>0, <2>7 DEF RegisterKilled, Ends, BaseType
    <2>8. ASSUME NEW a \in Apps, NEW root \in BOOLEAN, PostNote(a, root)
          PROVE  running' \in BOOLEAN /\ damaged' \in BOOLEAN
      BY <1>0, <2>8 DEF PostNote, BaseType
    <2>9. ASSUME NEW a \in Apps, NEW root \in BOOLEAN, PostFull(a, root)
          PROVE  running' \in BOOLEAN /\ damaged' \in BOOLEAN
      BY <1>0, <2>9 DEF PostFull, BaseType
    <2>10. ASSUME NEW a \in Apps, NEW root \in BOOLEAN, PostKilled(a, root)
           PROVE  running' \in BOOLEAN /\ damaged' \in BOOLEAN
      BY <1>0, <2>10 DEF PostKilled, Ends, history, BaseType
    <2>11. CASE UNCHANGED vars
      BY <1>0, <2>11 DEF vars, history, BaseType
    <2> QED BY <2>1, <2>2, <2>3, <2>4, <2>5, <2>6, <2>7, <2>8, <2>9, <2>10, <2>11
            DEF Next
  <1>2. clock' \in Nat /\ counter' \in Nat /\ run' \in Nat /\ registered' \in SUBSET Apps
    <2>1. /\ clock' \in {clock, clock + 1}
          /\ counter' \in {counter, counter + 1, 0}
          /\ run' \in {run, run + 1}
          /\ registered' = registered \/ \E a \in Apps : registered' = registered \cup {a}
      BY DEF Next, Start, Kill, Ends, Tick, Clear, Register, RegisterFull, RegisterKilled,
             PostNote, PostFull, PostKilled, vars, store, history
    <2> QED BY <1>0, <2>1 DEF BaseType
  <1> QED BY <1>1, <1>2 DEF BaseType

(* No step leaves a line with a permission its application gave up. *)
LEMMA AppsStep == StoreInv /\ [Next]_vars => AppsInv'
  <1> SUFFICES ASSUME StoreInv, [Next]_vars PROVE AppsInv'
    OBVIOUS
  <1>0. AppsInv
    BY DEF StoreInv
  <1>1. CASE UNCHANGED <<appsDb, committed>> /\ damaged' \in {damaged, TRUE}
    BY <1>0, <1>1 DEF AppsInv, Covered, Closed, Unique
  <1>2. ASSUME NEW a \in Apps, NEW P \in SUBSET Perms,
               Register(a, P) \/ RegisterFull(a, P) \/ RegisterKilled(a, P)
        PROVE  AppsInv'
    <2>1. PICK new \in Upserted(appsDb, NewLine(a, P)) :
              \/ appsDb' = new /\ damaged' = damaged
              \/ appsDb' \in Torn(new) /\ damaged' = TRUE
      BY <1>2 DEF Register, RegisterFull, RegisterKilled
    <2>2. committed' = [committed EXCEPT ![a] = P]
      BY <1>2 DEF Register, RegisterFull, RegisterKilled
    <2>3. /\ new \in Seq(Line) /\ Covered(new, committed')
          /\ Closed(appsDb) => Closed(new)
          /\ Unique(new)
      BY <1>0, <2>2, UpsertedLines DEF AppsInv
    <2>4. committed' \in [Apps -> SUBSET Perms]
      BY <1>0, <2>2 DEF AppsInv
    <2>5. CASE appsDb' = new /\ damaged' = damaged
      <3>1. Covered(appsDb, committed)' <=> Covered(new, committed')
        BY <2>5 DEF Covered
      <3>2. Closed(appsDb)' <=> Closed(new)
        BY <2>5 DEF Closed
      <3>3. Unique(appsDb)' <=> Unique(new)
        BY <2>5 DEF Unique
      <3> QED BY <1>0, <2>3, <2>4, <2>5, <3>1, <3>2, <3>3 DEF AppsInv
    <2>6. CASE appsDb' \in Torn(new) /\ damaged' = TRUE
      <3>1. appsDb' \in Seq(Line) /\ Covered(appsDb', committed') /\ Unique(appsDb')
        BY <2>3, <2>6, TornLines
      <3>2. Covered(appsDb, committed)' /\ Unique(appsDb)'
        BY <3>1 DEF Covered, Unique
      <3> QED BY <2>4, <2>6, <3>1, <3>2 DEF AppsInv
    <2> QED BY <2>1, <2>5, <2>6
  <1>3. CASE Start \/ Kill \/ Tick \/ Clear
    BY <1>1, <1>3 DEF Start, Kill, Ends, Tick, Clear, store, history
  <1>4. ASSUME NEW a \in Apps, NEW root \in BOOLEAN,
               PostNote(a, root) \/ PostFull(a, root) \/ PostKilled(a, root)
        PROVE  AppsInv'
    BY <1>1, <1>4 DEF PostNote, PostFull, PostKilled, history
  <1>5. CASE UNCHANGED vars
    BY <1>1, <1>5 DEF vars, store, history
  <1> QED BY <1>2, <1>3, <1>4, <1>5 DEF Next

(* Nor one with the ids of a process out of order. *)
LEMMA NotesStep == StoreInv /\ [Next]_vars => NotesInv'
  <1> SUFFICES ASSUME StoreInv, [Next]_vars PROVE NotesInv'
    OBVIOUS
  <1>0. BaseType /\ NotesInv
    BY DEF StoreInv
  <1>1. CASE UNCHANGED <<notes, noteOpen, posted, run, clock, counter>>
             /\ running' \in {running, FALSE} /\ damaged' \in {damaged, TRUE}
    <2>1. noteOpen' \in BOOLEAN /\ posted' \in SUBSET Note /\ (~damaged' => ~noteOpen')
      <3>1. noteOpen' = noteOpen /\ posted' = posted
        BY <1>1
      <3>2. damaged \/ ~noteOpen
        BY <1>0 DEF NotesInv
      <3>3. CASE damaged' = damaged
        BY <1>0, <3>1, <3>2, <3>3 DEF NotesInv
      <3>4. CASE damaged' = TRUE
        BY <1>0, <3>1, <3>4 DEF NotesInv
      <3> QED BY <1>1, <3>3, <3>4
    <2>2. running' => running
      BY <1>1
    <2>3. IdsBelow'
      BY <1>0, <1>1, <2>2 DEF NotesInv, IdsBelow
    <2>4. notes' \in Seq(Note) /\ IdsIncreaseInRun'
      BY <1>0, <1>1 DEF NotesInv, IdsIncreaseInRun
    <2> QED BY <2>1, <2>3, <2>4 DEF NotesInv
  <1>2. CASE Start
    <2>1. run' = run + 1 /\ UNCHANGED <<store, posted, damaged>>
      BY <1>2 DEF Start
    <2>2. \A i \in 1 .. Len(notes) : notes[i].run \in Nat /\ notes[i].run <= run
      BY <1>0, NoteFields DEF NotesInv, IdsBelow
    <2>3. IdsBelow'
      BY <1>0, <2>1, <2>2 DEF IdsBelow, store, BaseType, NotesInv
    <2> QED BY <1>0, <2>1, <2>3 DEF NotesInv, IdsIncreaseInRun, store
  <1>3. CASE Tick
    <2>1. clock' = clock + 1 /\ UNCHANGED <<running, store, counter, history>>
      BY <1>3 DEF Tick
    <2>2. /\ clock * PerSecond \in Nat
          /\ (clock + 1) * PerSecond = clock * PerSecond + PerSecond
      BY <1>0, StoreAssumption DEF BaseType
    <2>3. clock' * PerSecond + counter' >= clock * PerSecond + counter
      BY <1>0, <2>1, <2>2, StoreAssumption DEF BaseType
    <2>4. \A i \in 1 .. Len(notes) : notes[i].id \in Nat
      BY <1>0, NoteFields
    <2>5. clock' * PerSecond \in Nat
      BY <2>1, <2>2, StoreAssumption
    <2> DEFINE old == clock * PerSecond + counter
               new == clock' * PerSecond + counter'
    <2>6. old \in Nat /\ new \in Nat /\ new >= old
      BY <1>0, <2>1, <2>2, <2>3, <2>5 DEF BaseType
    <2>7. \A i \in 1 .. Len(notes) :
              running /\ notes[i].run = run => notes[i].id <= old
      BY <1>0 DEF NotesInv, IdsBelow
    <2>8. \A i \in 1 .. Len(notes) :
              running /\ notes[i].run = run => notes[i].id <= new
      <3> HIDE DEF old, new
      <3> QED BY <2>4, <2>6, <2>7
    <2>9. IdsBelow'
      BY <1>0, <2>1, <2>8 DEF IdsBelow, NotesInv, store, history
    <2> QED BY <1>0, <2>1, <2>9 DEF NotesInv, IdsIncreaseInRun, store, history
  <1>4. CASE Clear
    <2>1. notes' = <<>> /\ Len(notes') = 0
      BY <1>4 DEF Clear
    <2>2. notes' \in Seq(Note) /\ IdsBelow' /\ IdsIncreaseInRun'
      BY <2>1 DEF IdsBelow, IdsIncreaseInRun
    <2>3. noteOpen' \in BOOLEAN /\ posted' \in SUBSET Note /\ ~noteOpen'
      BY <1>4 DEF Clear
    <2> QED BY <2>2, <2>3 DEF NotesInv
  <1>5. ASSUME NEW a \in Apps, NEW root \in BOOLEAN,
               PostNote(a, root) \/ PostKilled(a, root)
        PROVE  NotesInv'
    <2>1. /\ running /\ notes' = Appended(a) /\ noteOpen' = FALSE
          /\ posted' \in {posted, posted \cup {NextNote(a)}}
          /\ \/ counter' = counter + 1
             \/ running' = FALSE
          /\ UNCHANGED <<clock, run, damaged>>
      BY <1>5 DEF PostNote, PostKilled, Ends, history
    <2>2. NextNote(a) \in Note /\ clock * PerSecond + counter \in Nat
      BY <1>0, NextNoteType
    <2>3. posted' \in SUBSET Note
      BY <1>0, <2>1, <2>2 DEF NotesInv
    <2>4. /\ notes' \in Seq(Note)
          /\ \A i, j \in DOMAIN notes' :
                i < j /\ notes'[i].run = notes'[j].run => notes'[i].id < notes'[j].id
          /\ \A i \in DOMAIN notes' :
                /\ notes'[i].run <= run
                /\ notes'[i].run = run => notes'[i].id <= clock * PerSecond + counter + 1
      BY <1>0, <2>1, NoteAdded
    <2>5. clock * PerSecond \in Nat /\ counter \in Nat
      BY <1>0, StoreAssumption DEF BaseType
    <2>6. clock * PerSecond + counter + 1 = clock * PerSecond + (counter + 1)
      BY <2>5
    <2>7. IdsBelow'
      BY <2>1, <2>4, <2>6 DEF IdsBelow
    <2> QED BY <1>0, <2>1, <2>3, <2>4, <2>7 DEF NotesInv, IdsIncreaseInRun
  <1>6. ASSUME NEW a \in Apps, NEW root \in BOOLEAN, PostFull(a, root)
        PROVE  NotesInv'
    <2>1. /\ notes' = notes /\ noteOpen' \in BOOLEAN /\ damaged' = TRUE
          /\ posted' = posted \cup {NextNote(a)}
          /\ counter' = counter + 1
          /\ UNCHANGED <<running, clock, run>>
      BY <1>0, <1>6 DEF PostFull, NotesInv
    <2>2. NextNote(a) \in Note
      BY <1>0, NextNoteType
    <2>3. \A i \in 1 .. Len(notes) : notes[i].id \in Nat
      BY <1>0, NoteFields
    <2>4. clock * PerSecond \in Nat /\ counter \in Nat
      BY <1>0, StoreAssumption DEF BaseType
    <2> DEFINE base == clock * PerSecond
    <2>5. \A i \in 1 .. Len(notes) :
              running /\ notes[i].run = run => notes[i].id <= base + counter
      BY <1>0 DEF NotesInv, IdsBelow
    <2>6. \A i \in 1 .. Len(notes) :
              running /\ notes[i].run = run => notes[i].id <= base + (counter + 1)
      <3> HIDE DEF base
      <3> QED BY <2>3, <2>4, <2>5 DEF base
    <2>7. IdsBelow'
      BY <1>0, <2>1, <2>6 DEF IdsBelow, NotesInv
    <2> QED BY <1>0, <2>1, <2>2, <2>7 DEF NotesInv, IdsIncreaseInRun
  <1>7. CASE Kill
    BY <1>1, <1>7 DEF Kill, Ends, store, history
  <1>8. ASSUME NEW a \in Apps, NEW P \in SUBSET Perms,
               Register(a, P) \/ RegisterFull(a, P) \/ RegisterKilled(a, P)
        PROVE  NotesInv'
    BY <1>1, <1>8 DEF Register, RegisterFull, RegisterKilled, Ends
  <1>9. CASE UNCHANGED vars
    BY <1>1, <1>9 DEF vars, store, history
  <1> QED BY <1>2, <1>3, <1>4, <1>5, <1>6, <1>7, <1>8, <1>9 DEF Next

(* The three parts hold always. *)
THEOREM StoreInvHolds == Spec => []StoreInv
  <1>1. StoreInv /\ [Next]_vars => StoreInv'
    BY BaseStep, AppsStep, NotesStep DEF StoreInv
  <1> QED BY InitInv, <1>1, PTL DEF Spec

-----------------------------------------------------------------------------
(* Every variable of the store keeps its type, and lines are unfinished    *)
(* only after a write was cut short.                                       *)
THEOREM StoreTyped == Spec => []TypeOK
  <1>1. StoreInv => TypeOK
    BY DEF StoreInv, BaseType, AppsInv, NotesInv, Closed, TypeOK
  <1> QED BY <1>1, StoreInvHolds, PTL

(* The permission check grants nothing but what the last registration of   *)
(* the application asked for, on files of any length.                      *)
THEOREM NothingElseGranted == Spec => []GrantsAreCommitted
  <1>1. StoreInv => GrantsAreCommitted
    <2> SUFFICES ASSUME StoreInv, NEW a \in Apps, NEW p \in Perms, HasPermission(a, p)
                 PROVE  {p, Star} \cap committed[a] # {}
      BY DEF GrantsAreCommitted
    <2>1. PICK i \in DOMAIN appsDb :
              appsDb[i].app = a /\ {p, Star} \cap appsDb[i].perms # {}
      BY DEF HasPermission, First
    <2>2. appsDb[i].perms \subseteq committed[a] \cup {Scrap}
      BY <2>1 DEF StoreInv, AppsInv, Covered
    <2>3. p # Scrap /\ Star # Scrap
      BY StoreAssumption
    <2> QED BY <2>1, <2>2, <2>3
  <1> QED BY <1>1, StoreInvHolds, PTL

(* An application never has a second line, so that the first one, which    *)
(* app_find() takes, is the only one: also with lines glued and cut.       *)
THEOREM OneLineEach == Spec => []OneLinePerApp
  <1>1. StoreInv => OneLinePerApp
    BY DEF StoreInv, AppsInv, Unique, OneLinePerApp
  <1> QED BY <1>1, StoreInvHolds, PTL

(* The ids of the notifications one process writes increase, whatever the  *)
(* rate, the clears and the seconds that pass.                             *)
THEOREM IdsIncrease == Spec => []IdsIncreaseInRun
  <1>1. StoreInv => IdsIncreaseInRun
    BY DEF StoreInv, NotesInv
  <1> QED BY <1>1, StoreInvHolds, PTL

-----------------------------------------------------------------------------
(* While every write was complete, the file holds each registration whole. *)
AllWhole(db, com, reg) ==
    /\ \A i \in DOMAIN db : db[i].app \in Apps => db[i].perms = com[db[i].app]
    /\ \A a \in reg : Found(db, a)
Complete == ~damaged => AllWhole(appsDb, committed, registered)

(* app_upsert() keeps the other registrations and holds the new one. *)
LEMMA UpsertedWhole ==
    ASSUME NEW db \in Seq(Line), NEW com \in [Apps -> SUBSET Perms], NEW reg \in SUBSET Apps,
           NEW a \in Apps, NEW P \in SUBSET Perms,
           NEW new \in Upserted(db, NewLine(a, P)),
           Closed(db), AllWhole(db, com, reg)
    PROVE  AllWhole(new, [com EXCEPT ![a] = P], reg \cup {a})
  <1> DEFINE line == NewLine(a, P)
             com2 == [com EXCEPT ![a] = P]
  <1>0. /\ line \in Line /\ line.app = a /\ line.perms = P
        /\ com2[a] = P
        /\ \A b \in Apps : b # a => com2[b] = com[b]
    BY DEF NewLine, Line, Tokens
  <1> HIDE DEF line, com2
  <1>1. CASE Found(db, a)
    <2>1. new = [i \in DOMAIN db |-> IF db[i].app = a THEN line ELSE db[i]]
      BY <1>0, <1>1 DEF Upserted, line
    <2>2. DOMAIN new = DOMAIN db
      BY <2>1
    <2>3. \A i \in DOMAIN db : new[i] = (IF db[i].app = a THEN line ELSE db[i])
      BY <2>1
    <2>4. \A i \in DOMAIN db : new[i].app = db[i].app
      BY <1>0, <2>3
    <2>5. \A i \in DOMAIN new : new[i].app \in Apps => new[i].perms = com2[new[i].app]
      BY <1>0, <2>2, <2>3 DEF AllWhole
    <2>6. \A b \in reg \cup {a} : Found(new, b)
      BY <1>1, <2>2, <2>4 DEF AllWhole, Found
    <2> QED BY <2>5, <2>6 DEF AllWhole, com2
  <1>2. CASE ~Found(db, a)
    <2>0. new \in Added(db, line)
      BY <1>0, <1>2 DEF Upserted, line
    <2>1. db # <<>> => ~db[Len(db)].open
      BY DEF Closed
    <2>2. new = Append(db, line)
      BY <2>0, <2>1 DEF Added
    <2>3. /\ DOMAIN db = 1 .. Len(db) /\ Len(db) \in Nat
          /\ DOMAIN new = 1 .. Len(db) + 1
          /\ \A i \in 1 .. Len(db) : new[i] = db[i]
          /\ new[Len(db) + 1] = line
      BY <1>0, <2>2
    <2>4. \A i \in 1 .. Len(db) : db[i].app # a
      BY <1>2, <2>3 DEF Found
    <2>5. \A i \in DOMAIN new : new[i].app \in Apps => new[i].perms = com2[new[i].app]
      BY <1>0, <2>3, <2>4 DEF AllWhole
    <2>6. \A b \in reg : Found(new, b)
      <3>1. \A b \in reg : \E i \in 1 .. Len(db) : db[i].app = b
        BY <2>3 DEF AllWhole, Found
      <3> QED BY <2>3, <3>1 DEF Found
    <2>7. Found(new, a)
      BY <1>0, <2>3 DEF Found
    <2> QED BY <2>5, <2>6, <2>7 DEF AllWhole, com2
  <1> QED BY <1>1, <1>2

(* Only a write cut short loses a registration. *)
LEMMA CompleteStep == StoreInv /\ Complete /\ [Next]_vars => Complete'
  <1> SUFFICES ASSUME StoreInv, Complete, [Next]_vars, ~damaged' PROVE Complete'
    BY DEF Complete
  <1>0. /\ damaged \in BOOLEAN /\ registered \in SUBSET Apps
        /\ appsDb \in Seq(Line) /\ committed \in [Apps -> SUBSET Perms]
        /\ ~damaged => Closed(appsDb)
    BY DEF StoreInv, BaseType, AppsInv
  <1>1. CASE UNCHANGED <<appsDb, committed, registered, damaged>>
    BY <1>1 DEF Complete, AllWhole, Found
  <1>2. ASSUME NEW a \in Apps, NEW P \in SUBSET Perms,
               Register(a, P) \/ RegisterKilled(a, P)
        PROVE  Complete'
    <2>1. PICK new \in Upserted(appsDb, NewLine(a, P)) : appsDb' = new
      BY <1>2 DEF Register, RegisterKilled
    <2>2. /\ committed' = [committed EXCEPT ![a] = P]
          /\ registered' \in {registered, registered \cup {a}}
          /\ damaged' = damaged
      BY <1>2 DEF Register, RegisterKilled
    <2>3. Closed(appsDb) /\ AllWhole(appsDb, committed, registered)
      BY <1>0, <2>2 DEF Complete
    <2>4. AllWhole(new, [committed EXCEPT ![a] = P], registered \cup {a})
      BY <1>0, <2>3, UpsertedWhole
    <2>5. AllWhole(appsDb', committed', registered')
      BY <2>1, <2>2, <2>4 DEF AllWhole
    <2> QED BY <2>5 DEF Complete, AllWhole, Found
  <1>3. ASSUME NEW a \in Apps, NEW P \in SUBSET Perms, RegisterFull(a, P)
        PROVE  FALSE
    BY <1>3 DEF RegisterFull
  <1>4. CASE Start \/ Kill \/ Tick \/ Clear
    BY <1>1, <1>4 DEF Start, Kill, Tick, Clear, store, history
  <1>5. ASSUME NEW a \in Apps, NEW root \in BOOLEAN,
               PostNote(a, root) \/ PostFull(a, root) \/ PostKilled(a, root)
        PROVE  Complete'
    BY <1>1, <1>5 DEF PostNote, PostFull, PostKilled, history
  <1>6. CASE UNCHANGED vars
    BY <1>1, <1>6 DEF vars, store, history
  <1> QED BY <1>2, <1>3, <1>4, <1>5, <1>6 DEF Next

(* What was answered "registered" is in the file with the permissions of   *)
(* the last rename(), through kills at every point of a registration.      *)
THEOREM RegistrationsSurvive == Spec => []RegistrationKept
  <1>1. Init => Complete
    BY DEF Init, Complete, AllWhole
  <1>2. StoreInv /\ Complete => RegistrationKept
    <2> SUFFICES ASSUME StoreInv, Complete, ~damaged, NEW a \in registered
                 PROVE  \E i \in First(appsDb, a) : appsDb[i].perms = committed[a]
      BY DEF RegistrationKept
    <2>1. a \in Apps /\ Unique(appsDb) /\ appsDb \in Seq(Line)
      BY DEF StoreInv, BaseType, AppsInv
    <2>2. PICK i \in DOMAIN appsDb : appsDb[i].app = a
      BY DEF Complete, AllWhole, Found
    <2>3. appsDb[i].perms = committed[a]
      BY <2>1, <2>2 DEF Complete, AllWhole
    <2>4. \A j \in 1 .. i - 1 : appsDb[j].app # a
      <3>1. DOMAIN appsDb = 1 .. Len(appsDb)
        BY <2>1
      <3>2. \A j \in 1 .. i - 1 : j \in DOMAIN appsDb /\ j # i
        BY <2>2, <3>1
      <3> QED BY <2>1, <2>2, <3>2 DEF Unique
    <2> QED BY <2>2, <2>3, <2>4 DEF First
  <1> QED BY <1>1, <1>2, StoreInvHolds, CompleteStep, PTL DEF Spec

(* An entry that parseApp() takes has the id of its line, at most its      *)
(* permissions and scrap, and is the line as a whole unless it is the last.*)
LEMMA ListingEntries ==
    ASSUME NEW db \in Seq(Line), NEW listing \in Listings(db), NEW i \in Listed(listing)
    PROVE  /\ i \in DOMAIN db
           /\ listing[i].app = db[i].app
           /\ listing[i].perms \subseteq db[i].perms \cup {Scrap}
           /\ i # Len(listing) => listing[i] = Whole(db[i])
  <1> DEFINE lines == [k \in DOMAIN db |-> Whole(db[k])]
  <1>0. /\ lines \in Seq(Entry) /\ Len(lines) = Len(db)
        /\ \A k \in 1 .. Len(db) :
            /\ lines[k] = Whole(db[k])
            /\ lines[k].app = db[k].app /\ lines[k].perms = db[k].perms
    <2>1. \A k \in 1 .. Len(db) : db[k] \in Line
      OBVIOUS
    <2>2. \A k \in 1 .. Len(db) : Whole(db[k]) \in Entry
      BY <2>1 DEF Whole, Line, Entry
    <2> QED BY <2>2 DEF Whole
  <1>1. i \in DOMAIN listing /\ ParseApp(listing[i])
    BY DEF Listed
  <1>2. CASE \E n \in 0 .. Len(db) : listing = SubSeq(lines, 1, n)
    <2> HIDE DEF lines
    <2>1. PICK n \in 0 .. Len(db) : listing = SubSeq(lines, 1, n)
      BY <1>2
    <2>2. DOMAIN listing = 1 .. n /\ \A k \in 1 .. n : listing[k] = lines[k]
      BY <1>0, <2>1
    <2> QED BY <1>0, <1>1, <2>2
  <1>3. CASE \E n \in DOMAIN db : \E e \in Pieces(db[n]) :
               listing = Append(SubSeq(lines, 1, n - 1), e)
    <2> HIDE DEF lines
    <2>0. PICK n \in DOMAIN db : \E e \in Pieces(db[n]) :
              listing = Append(SubSeq(lines, 1, n - 1), e)
      BY <1>3
    <2>1. PICK e \in Pieces(db[n]) : listing = Append(SubSeq(lines, 1, n - 1), e)
      BY <2>0
    <2>2. n \in 1 .. Len(db) /\ db[n] \in Line
      OBVIOUS
    <2>3. ParseApp(e) => e.app = db[n].app /\ e.perms \subseteq db[n].perms \cup {Scrap}
      <3>1. db[n].perms \in SUBSET Tokens
        BY <2>2 DEF Line
      <3>2. \A P \in CutTokens(db[n].perms) : P \subseteq db[n].perms \cup {Scrap}
        BY <3>1, CutTokensOnly
      <3> QED BY <3>2 DEF Pieces, ParseApp
    <2> DEFINE begin == SubSeq(lines, 1, n - 1)
    <2>4. /\ begin \in Seq(Entry) /\ Len(begin) = n - 1
          /\ \A k \in 1 .. n - 1 : begin[k] = lines[k]
      BY <1>0, <2>2
    <2>5. listing = Append(begin, e)
      BY <2>1
    <2> HIDE DEF begin
    <2>6. /\ DOMAIN listing = 1 .. n /\ Len(listing) = n
          /\ \A k \in 1 .. n - 1 : listing[k] = lines[k]
          /\ listing[n] = e
      BY <2>2, <2>4, <2>5
    <2> QED BY <1>0, <1>1, <2>2, <2>3, <2>6
  <1> QED BY <1>2, <1>3 DEF Listings

(* What the SDK lists is true of the registrations, wherever the message   *)
(* was full: no application twice, none with a permission it was not       *)
(* given, and with complete writes nothing but the last entry differs from *)
(* the registrations, by what was cut off it.                              *)
THEOREM ListingsAreTrue == Spec => []ListingIsTrue
  <1>1. Init => Complete
    BY DEF Init, Complete, AllWhole
  <1>2. StoreInv /\ Complete => ListingIsTrue
    <2> SUFFICES ASSUME StoreInv, Complete, NEW listing \in Listings(appsDb),
                        NEW i \in Listed(listing)
                 PROVE  LET e == listing[i] IN
                        /\ e.app \in Apps =>
                            /\ e.perms \subseteq committed[e.app] \cup {Scrap}
                            /\ \A j \in Listed(listing) :
                                listing[j].app = e.app => i = j
                        /\ ~damaged =>
                            /\ e.app \in Apps
                            /\ i # Len(listing) =>
                                e = [app |-> e.app, fields |-> 4,
                                     perms |-> committed[e.app]]
      BY DEF ListingIsTrue
    <2>1. AppsInv /\ appsDb \in Seq(Line)
      BY DEF StoreInv, AppsInv
    <2>2. \A k \in Listed(listing) :
            /\ k \in DOMAIN appsDb
            /\ listing[k].app = appsDb[k].app
            /\ listing[k].perms \subseteq appsDb[k].perms \cup {Scrap}
            /\ k # Len(listing) => listing[k] = Whole(appsDb[k])
      BY <2>1, ListingEntries
    <2>3. listing[i].app \in Apps =>
            /\ listing[i].perms \subseteq committed[listing[i].app] \cup {Scrap}
            /\ \A j \in Listed(listing) : listing[j].app = listing[i].app => i = j
      BY <2>1, <2>2 DEF AppsInv, Covered, Unique
    <2>4. ~damaged => listing[i].app \in Apps
      BY <2>1, <2>2 DEF AppsInv, Closed
    <2>5. ASSUME ~damaged, i # Len(listing)
          PROVE  listing[i] = [app |-> listing[i].app, fields |-> 4,
                               perms |-> committed[listing[i].app]]
      <3>1. listing[i] = Whole(appsDb[i]) /\ listing[i].app = appsDb[i].app
        BY <2>2, <2>5
      <3>2. appsDb[i].perms = committed[appsDb[i].app]
        BY <2>2, <2>4, <2>5 DEF Complete, AllWhole
      <3> QED BY <3>1, <3>2 DEF Whole
    <2> QED BY <2>3, <2>4, <2>5
  <1> QED BY <1>1, <1>2, StoreInvHolds, CompleteStep, PTL DEF Spec

(* Only a write cut short, or a clear, loses a notification. *)
LEMMA PostedStep == StoreInv /\ PostedKept /\ [Next]_vars => PostedKept'
  <1> SUFFICES ASSUME StoreInv, PostedKept, [Next]_vars, ~damaged' PROVE PostedKept'
    BY DEF PostedKept
  <1>0. BaseType /\ notes \in Seq(Note) /\ (~damaged => ~noteOpen)
    BY DEF StoreInv, NotesInv
  <1>1. CASE UNCHANGED <<notes, posted, damaged>>
    BY <1>1 DEF PostedKept
  <1>2. ASSUME NEW a \in Apps, NEW root \in BOOLEAN,
               PostNote(a, root) \/ PostKilled(a, root)
        PROVE  PostedKept'
    <2>1. /\ notes' = Appended(a) /\ damaged' = damaged
          /\ posted' \in {posted, posted \cup {NextNote(a)}}
      BY <1>2 DEF PostNote, PostKilled, history
    <2> DEFINE next == NextNote(a)
    <2>2. next \in Note
      BY <1>0, NextNoteType
    <2>3. notes' = Append(notes, next)
      BY <1>0, <2>1 DEF Appended
    <2>4. posted' \subseteq posted \cup {next}
      BY <2>1
    <2> HIDE DEF next
    <2>5. /\ \A i \in DOMAIN notes : i \in DOMAIN notes' /\ notes'[i] = notes[i]
          /\ Len(notes) + 1 \in DOMAIN notes' /\ notes'[Len(notes) + 1] = next
      BY <1>0, <2>2, <2>3
    <2>6. posted \subseteq {notes[i] : i \in DOMAIN notes}
      BY <2>1 DEF PostedKept
    <2>7. posted' \subseteq {notes'[i] : i \in DOMAIN notes'}
      BY <2>4, <2>5, <2>6
    <2> QED BY <2>7 DEF PostedKept
  <1>3. ASSUME NEW a \in Apps, NEW root \in BOOLEAN, PostFull(a, root)
        PROVE  FALSE
    BY <1>3 DEF PostFull
  <1>4. CASE Clear
    BY <1>4 DEF Clear, PostedKept
  <1>5. CASE Start \/ Kill \/ Tick
    BY <1>1, <1>5 DEF Start, Kill, Tick, store, history
  <1>6. ASSUME NEW a \in Apps, NEW P \in SUBSET Perms,
               Register(a, P) \/ RegisterFull(a, P) \/ RegisterKilled(a, P)
        PROVE  PostedKept'
    BY <1>1, <1>6 DEF Register, RegisterFull, RegisterKilled
  <1>7. CASE UNCHANGED vars
    BY <1>1, <1>7 DEF vars, store, history
  <1> QED BY <1>2, <1>3, <1>4, <1>5, <1>6, <1>7 DEF Next

(* What was answered "posted" stays until the next clear, through every    *)
(* kill and restart.                                                       *)
THEOREM PostsSurvive == Spec => []PostedKept
  <1>1. Init => PostedKept
    BY DEF Init, PostedKept
  <1> QED BY <1>1, StoreInvHolds, PostedStep, PTL DEF Spec
===============================================================================
