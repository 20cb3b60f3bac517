-------------------------- MODULE DocumentsProofs --------------------------
(***************************************************************************)
(* A user who waits for a save to end loses no edit, and no save removes    *)
(* what another process wrote unseen: `EditsKept` and `OutsideKept` of      *)
(* module Documents, for any documents, any number of reads in flight and   *)
(* any number of edits and writes.                                          *)
(*                                                                         *)
(* The argument has three parts, the three groups of `JobInv` and           *)
(* `OpenInv`.  A read and what it opens have seen every mark of the user    *)
(* that is in the file, and of the others' as far as their time tells       *)
(* (Sees).  A save under way is alone and saves what is open (Own).  From   *)
(* its check on, it holds everything of the others that it will replace     *)
(* (Past), and once renamed, what it holds is in the file (Done).           *)
(*                                                                         *)
(* `TypeOK` needs no patience and is proved last, from an invariant of its  *)
(* own.                                                                    *)
(***************************************************************************)
EXTENDS Documents, TLAPS

Known == 1 .. clock
Past == 0 .. clock
Files == [text : SUBSET Known, time : Past]
Opens == [doc : Docs, text : SUBSET Known, base : Past \cup {NoTime}, dirty : BOOLEAN]
ReadSteps == {"content", "mtime", "loaded"}
SaveSteps == {"check", "truncate", "fill", "rename", "stat", "saved", "refused"}
Reads == [kind : {"read"}, pc : ReadSteps, doc : Docs, text : SUBSET Known,
          base : Past \cup {NoTime}]
Saves == [kind : {"save"}, pc : SaveSteps, doc : Docs, text : SUBSET Known,
          base : Past \cup {NoTime}]

Typed ==
  /\ disk \in [Docs -> Files \cup {None}]
  /\ temp \in [Docs -> Files \cup {None}]
  /\ open \in Opens \cup {None}
  /\ jobs \in [Jobs -> Reads \cup Saves \cup {None}]
  /\ clock \in 0 .. MaxClock
  /\ typed \subseteq Known /\ theirs \subseteq Known
  /\ asking \in Docs \cup {"close", None}
  /\ asking # None => open # None

\* The read has seen what was in the file when it read it, and nothing came since
\* that a save must not remove.
ReadInv(r) == r.pc # "content" => (typed \cup theirs) \cap TextOf(r.doc) \subseteq r.text

OpenInv ==
  open # None =>
    /\ typed \cap TextOf(open.doc) \subseteq open.text
    /\ open.base = NoTime \/ mtime(open.doc) <= open.base =>
         theirs \cap TextOf(open.doc) \subseteq open.text

Own(r) ==
  /\ asking = None /\ ~quitting
  /\ open # None /\ open.dirty /\ open.doc = r.doc /\ open.text = r.text
SaveInv(r) ==
  /\ Own(r)
  /\ r.pc = "check" => open.base = r.base
  /\ r.pc \notin {"check", "refused"} => theirs \cap TextOf(r.doc) \subseteq r.text
  /\ r.pc = "rename" => temp[r.doc] # None /\ temp[r.doc].text = r.text
  /\ r.pc \in {"stat", "saved"} => typed \cap r.text \subseteq TextOf(r.doc)

IsA(kind, j) == jobs[j] # None /\ jobs[j].kind = kind
JobInv(j) ==
  /\ IsA("read", j) => ReadInv(jobs[j])
  /\ IsA("save", j) => SaveInv(jobs[j]) /\ \A k \in Jobs \ {j} : jobs[k] = None

Inv ==
  /\ Typed
  /\ OpenInv
  /\ \A j \in Jobs : JobInv(j)
  /\ EditsKept /\ OutsideKept

-----------------------------------------------------------------------------
LEMMA OpensTyped ==
  ASSUME Typed
  PROVE  Opens \subseteq OpenDoc /\ Files \subseteq File
<1>1. Known \subseteq Marks /\ Past \subseteq Time
  BY DocumentsAssumption DEF Typed, Known, Past, Marks, Time
<1> QED
  BY <1>1 DEF Opens, OpenDoc, Files, File

LEMMA NotNone ==
  ASSUME Typed
  PROVE  None \notin Opens /\ None \notin Files /\ None # "close" /\ None \notin Docs
BY OpensTyped, DocumentsAssumption

LEMMA InitInv ==
  ASSUME Init
  PROVE  Inv
<1>1. /\ clock = 0 /\ typed = {} /\ theirs = {} /\ open = None /\ asking = None
      /\ jobs = [j \in Jobs |-> None]
      /\ temp = [d \in Docs |-> None]
      /\ disk = [d \in Docs |-> [text |-> {}, time |-> 0]]
  BY DEF Init
<1>2. [text |-> {}, time |-> 0] \in Files
  BY <1>1 DEF Files, Past
<1>3. Typed
  BY <1>1, <1>2, DocumentsAssumption DEF Typed
<1>4. \A j \in Jobs : JobInv(j)
  BY <1>1 DEF JobInv, IsA
<1>5. OpenInv
  BY <1>1 DEF OpenInv
<1> QED
  BY <1>1, <1>3, <1>4, <1>5 DEF Inv, EditsKept, OutsideKept
-----------------------------------------------------------------------------
(***************************************************************************)
(* The user's steps.                                                        *)
(***************************************************************************)

(* What leaves the clock alone leaves what is known of it. *)
LEMMA SameClock ==
  ASSUME UNCHANGED clock
  PROVE  /\ Known' = Known /\ Past' = Past
         /\ Files' = Files /\ Opens' = Opens /\ Reads' = Reads /\ Saves' = Saves
BY DEF Known, Past, Files, Opens, Reads, Saves

LEMMA SameDisk ==
  ASSUME UNCHANGED disk
  PROVE  /\ OnDisk' = OnDisk
         /\ \A d \in Docs : TextOf(d)' = TextOf(d) /\ mtime(d)' = mtime(d)
BY DEF OnDisk, TextOf, mtime

(* Steps that touch no file: the document stays or goes, reads start or all *)
(* is over.  No save is under way after them.                               *)
LEMMA EditorKeeps ==
  ASSUME Inv, UNCHANGED <<disk, temp, clock, theirs>>, typed' \subseteq typed,
         open' = open \/ open' = None, asking' # None => open' # None,
         asking' \in Docs \cup {"close", None},
         jobs' \in [Jobs -> Reads \cup {None}],
         \A j \in Jobs : jobs'[j] = None \/ jobs'[j] = jobs[j] \/ jobs'[j].pc = "content",
         EditsKept'
  PROVE  Inv'
<1>1. Typed'
  BY SameClock DEF Inv, Typed
<1>2. OpenInv'
  <2>1. open # None => open.doc \in Docs
    BY DEF Inv, Typed, Opens
  <2> QED
    BY <2>1, SameDisk DEF Inv, OpenInv
<1>3. ASSUME NEW j \in Jobs PROVE JobInv(j)'
  <2>1. jobs'[j] # None => jobs'[j] \in Reads
    OBVIOUS
  <2>2. jobs'[j] # None => jobs'[j].kind = "read" /\ jobs'[j].doc \in Docs
    BY <2>1 DEF Reads
  <2>3. jobs'[j] # None /\ jobs'[j].pc # "content" => jobs'[j] = jobs[j] /\ ReadInv(jobs[j])
    BY <2>2 DEF Inv, JobInv, IsA
  <2>4. jobs'[j] # None => ReadInv(jobs[j])'
    BY <2>3 DEF ReadInv, TextOf
  <2> QED
    BY <2>2, <2>4 DEF JobInv, IsA
<1>4. OutsideKept'
  BY SameDisk DEF Inv, OutsideKept
<1> QED
  BY <1>1, <1>2, <1>3, <1>4 DEF Inv

LEMMA NewRead ==
  ASSUME Typed, NEW d \in Docs
  PROVE  Read(d) \in Reads /\ Read(d).pc = "content"
BY DEF Read, Reads, ReadSteps

(* With no save under way every task is a read, and one more may start. *)
LEMMA ReadStarts ==
  ASSUME Typed, InFlight("save") = {}, NEW d \in Docs, Start(Read(d))
  PROVE  /\ jobs' \in [Jobs -> Reads \cup {None}]
         /\ \A j \in Jobs : jobs'[j] = None \/ jobs'[j] = jobs[j] \/ jobs'[j].pc = "content"
<1>1. PICK r : r = Read(d)
  OBVIOUS
<1>2. r \in Reads /\ r.pc = "content"
  BY <1>1, NewRead
<1>3. PICK j \in Jobs : jobs' = [jobs EXCEPT ![j] = r]
  BY <1>1 DEF Start
<1>4. \A k \in Jobs : jobs[k] \in Reads \cup {None}
  BY DEF Typed, InFlight, Saves
<1> QED
  BY <1>2, <1>3, <1>4 DEF Typed

LEMMA ReadsOnly ==
  ASSUME Typed, InFlight("save") = {}
  PROVE  jobs \in [Jobs -> Reads \cup {None}]
<1>1. \A k \in Jobs : jobs[k] \in Reads \cup {None}
  BY DEF Typed, InFlight, Saves
<1> QED
  BY <1>1 DEF Typed

LEMMA NoSave ==
  ASSUME Inv, asking # None \/ quitting
  PROVE  InFlight("save") = {}
BY DEF Inv, JobInv, IsA, SaveInv, Own, InFlight

LEMMA RequestKeeps ==
  ASSUME Patient, Inv, NEW d \in Docs, request_doc(d)
  PROVE  Inv'
<1>1. /\ UNCHANGED <<disk, temp, clock, theirs, typed, open, quitting>>
      /\ InFlight("save") = {}
      /\ asking' # None => open' # None
      /\ asking' \in Docs \cup {"close", None}
  BY DEF request_doc, NoSaveAwaited, unsaved_doc, Inv, Typed
<1>2. jobs' = jobs \/ Start(Read(d))
  BY DEF request_doc
<1>3. /\ jobs' \in [Jobs -> Reads \cup {None}]
      /\ \A j \in Jobs : jobs'[j] = None \/ jobs'[j] = jobs[j] \/ jobs'[j].pc = "content"
  BY <1>1, <1>2, ReadsOnly, ReadStarts DEF Inv
<1>4. EditsKept'
  BY <1>1, SameDisk DEF Inv, EditsKept, unsaved_doc
<1> QED
  BY <1>1, <1>3, <1>4, EditorKeeps

LEMMA CloseKeeps ==
  ASSUME Patient, Inv, close_doc \/ cancel_doc_discard \/ cancel_quit
  PROVE  Inv'
<1>1. /\ UNCHANGED <<disk, temp, clock, theirs, typed, jobs>>
      /\ InFlight("save") = {}
      /\ asking' # None => open' # None
      /\ asking' \in Docs \cup {"close", None}
      /\ open' = open \/ (open' = None /\ ~unsaved_doc)
  BY NoSave DEF close_doc, cancel_doc_discard, cancel_quit, NoSaveAwaited, doc_accepts_edits,
                unsaved_doc, Inv, Typed
<1>2. jobs' \in [Jobs -> Reads \cup {None}]
  BY <1>1, ReadsOnly DEF Inv
<1>3. EditsKept'
  BY <1>1, SameDisk DEF Inv, EditsKept, unsaved_doc
<1> QED
  BY <1>1, <1>2, <1>3, EditorKeeps

LEMMA DiscardKeeps ==
  ASSUME Inv, confirm_doc_discard
  PROVE  Inv'
<1>1. /\ UNCHANGED <<disk, temp, clock, theirs, quitting>>
      /\ asking # None /\ asking' = None /\ open' = None
      /\ typed' = typed \ open.text
  BY DEF confirm_doc_discard
<1>2. InFlight("save") = {}
  BY <1>1, NoSave
<1>3. jobs' = jobs \/ \E d \in Docs : Start(Read(d))
  BY DEF confirm_doc_discard, Inv, Typed
<1>4. /\ jobs' \in [Jobs -> Reads \cup {None}]
      /\ \A j \in Jobs : jobs'[j] = None \/ jobs'[j] = jobs[j] \/ jobs'[j].pc = "content"
  BY <1>2, <1>3, ReadsOnly, ReadStarts DEF Inv
<1>5. EditsKept'
  BY <1>1, SameDisk DEF Inv, EditsKept, unsaved_doc
<1> QED
  BY <1>1, <1>4, <1>5, EditorKeeps

(* The process ends, or the user asks to. *)
LEMMA GoneKeeps ==
  ASSUME Inv, Gone, typed' \subseteq typed \cap OnDisk
  PROVE  Inv'
<1>1. /\ UNCHANGED <<disk, temp, clock, theirs>>
      /\ open' = None /\ asking' = None
      /\ jobs' = [j \in Jobs |-> None]
  BY DEF Gone
<1>2. EditsKept'
  BY <1>1, SameDisk DEF EditsKept
<1> QED
  BY <1>1, <1>2, EditorKeeps

LEMMA QuitKeeps ==
  ASSUME Patient, Inv, request_quit \/ confirm_quit \/ Crash
  PROVE  Inv'
<1>1. CASE confirm_quit \/ Crash
  BY <1>1, GoneKeeps DEF confirm_quit, Crash
<1>2. CASE request_quit /\ quitting'
  <2>1. UNCHANGED <<disk, temp, open, asking, jobs, clock, typed, theirs>>
    BY <1>2 DEF request_quit, Gone
  <2>2. InFlight("save") = {}
    BY <1>2 DEF request_quit, NoSaveAwaited
  <2>3. jobs' \in [Jobs -> Reads \cup {None}]
    BY <2>1, <2>2, ReadsOnly DEF Inv
  <2>4. EditsKept'
    BY <2>1, SameDisk DEF Inv, EditsKept, unsaved_doc
  <2> QED
    BY <2>1, <2>3, <2>4, EditorKeeps DEF Inv, Typed
<1>3. CASE request_quit /\ ~quitting'
  <2>1. Gone /\ UNCHANGED typed /\ ~unsaved_doc
    BY <1>3 DEF request_quit
  <2>2. typed \subseteq OnDisk
    BY <2>1 DEF Inv, EditsKept
  <2> QED
    BY <2>1, <2>2, GoneKeeps
<1> QED
  BY <1>1, <1>2, <1>3

(***************************************************************************)
(* The clock: a new mark is in no text yet.                                 *)
(***************************************************************************)
LEMMA NewMark ==
  ASSUME Typed, clock' = clock + 1
  PROVE  /\ Known \subseteq Known' /\ clock' \in Known' /\ clock' \notin Known
         /\ Past \subseteq Past' /\ clock' \in Past' /\ \A t \in Past : ~(clock' <= t)
         /\ Files \subseteq Files' /\ Opens \subseteq Opens'
         /\ Reads \subseteq Reads' /\ Saves \subseteq Saves'
<1>1. clock \in Nat /\ clock' \in Nat
  BY DocumentsAssumption DEF Typed
<1>2. /\ Known \subseteq Known' /\ clock' \in Known' /\ clock' \notin Known
      /\ Past \subseteq Past' /\ clock' \in Past' /\ \A t \in Past : ~(clock' <= t)
  BY <1>1 DEF Known, Past
<1> QED
  BY <1>2 DEF Files, Opens, Reads, Saves

LEMMA TextKnown ==
  ASSUME Typed, NEW d \in Docs
  PROVE  TextOf(d) \subseteq Known /\ mtime(d) \in Past \cup {NoTime}
BY DEF Typed, TextOf, mtime, Files

LEMMA OnDiskIs ==
  ASSUME NEW m
  PROVE  m \in OnDisk <=> \E d \in Docs : m \in TextOf(d)
BY DEF OnDisk, TextOf

LEMMA EditKeeps ==
  ASSUME Patient, Inv, edit_doc
  PROVE  Inv'
<1>1. PICK o : o = open
  OBVIOUS
<1>2. PICK n : n = clock'
  OBVIOUS
<1>3. PICK e : e = [o EXCEPT !.text = o.text \cup {n}, !.dirty = TRUE]
  OBVIOUS
<1>4. /\ o # None /\ o \in Opens
      /\ InFlight("save") = {}
      /\ clock < MaxClock /\ clock' = clock + 1
      /\ open' = e
      /\ typed' = typed \cup {n}
      /\ UNCHANGED <<disk, temp, asking, quitting, jobs, theirs>>
  BY <1>1, <1>2, <1>3 DEF edit_doc, doc_accepts_edits, NoSaveAwaited, Inv, Typed
<1>5. /\ e.doc = o.doc /\ e.base = o.base /\ e.text = o.text \cup {n} /\ e.dirty
      /\ e \in Opens'
  <2>1. o.text \cup {n} \in SUBSET Known' /\ o.base \in Past' \cup {NoTime}
    BY <1>2, <1>4, NewMark DEF Inv, Opens
  <2>2. e.doc = o.doc /\ e.base = o.base /\ e.text = o.text \cup {n} /\ e.dirty
    BY <1>3, <1>4 DEF Opens
  <2> QED
    BY <1>3, <1>4, <2>1 DEF Opens
<1>6. clock' \in 0 .. MaxClock /\ open' # None
  <2>1. clock' \in 0 .. MaxClock
    BY <1>4, DocumentsAssumption DEF Inv, Typed
  <2>2. Known' \subseteq Marks /\ Past' \subseteq Time
    BY <2>1, DocumentsAssumption DEF Known, Past, Marks, Time
  <2>3. e \in OpenDoc
    BY <1>5, <2>2 DEF Opens, OpenDoc
  <2> QED
    BY <1>4, <2>1, <2>3, DocumentsAssumption
<1>12. Typed'
  <2>1. disk' \in [Docs -> Files' \cup {None}] /\ temp' \in [Docs -> Files' \cup {None}]
    BY <1>4, NewMark DEF Inv, Typed
  <2>2. jobs' \in [Jobs -> Reads' \cup Saves' \cup {None}]
    BY <1>4, NewMark DEF Inv, Typed
  <2>3. typed' \subseteq Known' /\ theirs' \subseteq Known'
    BY <1>2, <1>4, NewMark DEF Inv, Typed
  <2> QED
    BY <1>4, <1>5, <1>6, <2>1, <2>2, <2>3 DEF Inv, Typed
<1>7. \A d \in Docs : /\ n \notin TextOf(d)
                      /\ TextOf(d)' = TextOf(d) /\ mtime(d)' = mtime(d)
  BY <1>2, <1>4, NewMark, TextKnown, SameDisk DEF Inv
<1>8. OpenInv'
  <2>1. o.doc \in Docs
    BY <1>4 DEF Opens
  <2> QED
    BY <1>1, <1>4, <1>5, <1>7, <2>1 DEF Inv, OpenInv
<1>9. ASSUME NEW j \in Jobs PROVE JobInv(j)'
  <2>1. ~IsA("save", j)
    BY <1>4 DEF IsA, InFlight
  <2>2. jobs[j] # None => jobs[j].doc \in Docs
    BY DEF Inv, Typed, Reads, Saves
  <2>3. IsA("read", j) => ReadInv(jobs[j])
    BY DEF Inv, JobInv
  <2> QED
    BY <1>4, <1>7, <2>1, <2>2, <2>3 DEF JobInv, IsA, ReadInv, TextOf
<1>10. EditsKept'
  <2>1. unsaved_doc'
    BY <1>4, <1>5, <1>6 DEF unsaved_doc
  <2>2. OnDisk' = OnDisk
    BY <1>4, SameDisk
  <2> QED
    BY <1>1, <1>4, <1>5, <2>1, <2>2 DEF Inv, EditsKept, unsaved_doc
<1>11. OutsideKept'
  BY <1>4, SameDisk DEF Inv, OutsideKept
<1> QED
  BY <1>12, <1>8, <1>9, <1>10, <1>11 DEF Inv

LEMMA SaveStarts ==
  ASSUME Patient, Inv, save_open_doc
  PROVE  Inv'
<1>1. PICK s : s = Save(open)
  OBVIOUS
<1>2. /\ open # None /\ asking = None /\ ~quitting /\ open.dirty
      /\ InFlight("save") = {} /\ InFlight("read") = {}
      /\ UNCHANGED <<disk, temp, open, asking, quitting, clock, typed, theirs>>
  BY DEF save_open_doc, doc_accepts_edits, NothingAwaited, editor
<1>3. PICK j \in Jobs : jobs' = [jobs EXCEPT ![j] = s]
  BY <1>1 DEF save_open_doc, Start
<1>4. /\ s \in Saves /\ s.doc = open.doc /\ s.text = open.text /\ s.base = open.base
      /\ s.pc = "check" /\ s.kind = "save"
  BY <1>1, <1>2 DEF Inv, Typed, Opens, Save, Saves, SaveSteps
<1>5. \A k \in Jobs : jobs[k] = None
  BY <1>2 DEF Inv, Typed, InFlight, Reads, Saves
<1>6. Typed'
  BY <1>2, <1>3, <1>4, SameClock DEF Inv, Typed
<1>7. ASSUME NEW k \in Jobs PROVE JobInv(k)'
  <2>1. CASE k # j
    BY <1>3, <1>5, <2>1 DEF JobInv, IsA
  <2>2. CASE k = j
    <3>1. jobs'[k] = s
      BY <1>3, <2>2 DEF Inv, Typed
    <3>2. SaveInv(s)'
      BY <1>2, <1>4 DEF SaveInv, Own
    <3> QED
      BY <1>3, <1>4, <1>5, <2>2, <3>1, <3>2 DEF JobInv, IsA, SaveInv, Own, TextOf
  <2> QED
    BY <2>1, <2>2
<1>8. OpenInv' /\ EditsKept' /\ OutsideKept'
  BY <1>2 DEF Inv, OpenInv, TextOf, mtime, EditsKept, OutsideKept, OnDisk, unsaved_doc
<1> QED
  BY <1>6, <1>7, <1>8 DEF Inv

-----------------------------------------------------------------------------
(***************************************************************************)
(* Other processes.                                                         *)
(***************************************************************************)

(* What they leave in a file of the user's marks stays the user's, and they *)
(* bring nothing to a file a task is at that a save must not remove.        *)
LEMMA OutsideSteady ==
  ASSUME Inv, Typed', UNCHANGED <<temp, editor, jobs>>, typed' \subseteq typed,
         \A e \in Docs : typed' \cap TextOf(e)' \subseteq TextOf(e),
         \A e \in Docs : typed' \cap TextOf(e) \subseteq TextOf(e)',
         \A e \in Docs : Unwatched(e) =>
           theirs' \cap TextOf(e)' \subseteq theirs \cap TextOf(e),
         OpenInv', OutsideKept'
  PROVE  Inv'
<1>1. UNCHANGED <<open, asking, quitting, jobs, temp>>
  BY DEF editor
<1>2. ASSUME NEW j \in Jobs PROVE JobInv(j)'
  <2>1. PICK r : r = jobs[j]
    OBVIOUS
  <2>2. CASE r = None
    BY <1>1, <2>1, <2>2 DEF JobInv, IsA
  <2>3. CASE r # None
    <3>1. r.doc \in Docs /\ Unwatched(r.doc)
      BY <2>1, <2>3 DEF Inv, Typed, Reads, Saves, Unwatched
    <3>2. ReadInv(r) => ReadInv(r)'
      BY <3>1 DEF ReadInv
    <3>3. SaveInv(r) => SaveInv(r)'
      <4>1. Own(r) => Own(r)'
        BY <1>1 DEF Own
      <4> QED
        BY <1>1, <3>1, <4>1 DEF SaveInv
    <3>4. JobInv(j)
      BY DEF Inv
    <3> QED
      BY <1>1, <2>1, <3>2, <3>3, <3>4 DEF JobInv, IsA, ReadInv, SaveInv, Own, TextOf
  <2> QED
    BY <2>2, <2>3
<1>3. EditsKept'
  <2>1. SUFFICES ASSUME NEW m \in typed', m \in OnDisk PROVE m \in OnDisk'
    BY <1>1 DEF Inv, EditsKept, unsaved_doc
  <2>2. PICK e \in Docs : m \in TextOf(e)
    BY <2>1, OnDiskIs
  <2>3. m \in TextOf(e)'
    BY <2>1, <2>2
  <2> QED
    BY <2>3 DEF OnDisk, TextOf
<1> QED
  BY <1>2, <1>3 DEF Inv

LEMMA OutsideWriteKeeps ==
  ASSUME Inv, NEW d \in Docs, OutsideWrite(d)
  PROVE  Inv'
<1>1. PICK n : n = clock'
  OBVIOUS
<1>2. PICK kept \in {{}, TextOf(d)} :
        /\ disk' = [disk EXCEPT ![d] = [text |-> kept \cup {n}, time |-> n]]
        /\ typed' = typed \ (TextOf(d) \ kept)
        /\ theirs' = (theirs \ (TextOf(d) \ kept)) \cup (IF Unwatched(d) THEN {} ELSE {n})
  BY <1>1 DEF OutsideWrite
<1>3. /\ clock < MaxClock /\ clock' = clock + 1
      /\ UNCHANGED <<temp, open, asking, quitting, jobs>>
  BY DEF OutsideWrite, editor
<1>4. /\ n \in Known' /\ n \in Past' /\ n \notin Known /\ kept \subseteq Known
      /\ \A t \in Past : ~(n <= t)
      /\ typed \subseteq Known /\ theirs \subseteq Known /\ Known \subseteq Known'
  BY <1>1, <1>2, <1>3, NewMark, TextKnown DEF Inv, Typed
<1>5. PICK f : f = [text |-> kept \cup {n}, time |-> n]
  OBVIOUS
<1>6. f \in Files' /\ f.text = kept \cup {n} /\ f.time = n
  BY <1>4, <1>5 DEF Files
<1>7. clock' \in 0 .. MaxClock
  BY <1>3, DocumentsAssumption DEF Inv, Typed
<1>8. f # None
  <2>1. Known' \subseteq Marks /\ Past' \subseteq Time
    BY <1>7, DocumentsAssumption DEF Known, Past, Marks, Time
  <2>2. f \in File
    BY <1>6, <2>1 DEF Files, File
  <2> QED
    BY <2>2, DocumentsAssumption
<1>9. disk' = [disk EXCEPT ![d] = f]
  BY <1>2, <1>5
<1>10. /\ TextOf(d)' = kept \cup {n} /\ mtime(d)' = n
       /\ \A e \in Docs \ {d} : TextOf(e)' = TextOf(e) /\ mtime(e)' = mtime(e)
  BY <1>6, <1>8, <1>9 DEF Inv, Typed, TextOf, mtime
<1>11. Typed'
  <2>1. disk' \in [Docs -> Files' \cup {None}]
    BY <1>3, <1>6, <1>9, NewMark DEF Inv, Typed
  <2>2. temp' \in [Docs -> Files' \cup {None}] /\ open' \in Opens' \cup {None}
    BY <1>3, NewMark DEF Inv, Typed
  <2>3. jobs' \in [Jobs -> Reads' \cup Saves' \cup {None}]
    BY <1>3, NewMark DEF Inv, Typed
  <2>4. typed' \subseteq Known' /\ theirs' \subseteq Known'
    BY <1>2, <1>4
  <2> QED
    BY <1>3, <1>7, <2>1, <2>2, <2>3, <2>4 DEF Inv, Typed
<1>12. \A e \in Docs : TextOf(e) \subseteq Known
  BY TextKnown DEF Inv
<1>13. \A e \in Docs : typed' \cap TextOf(e)' \subseteq TextOf(e)
  BY <1>2, <1>4, <1>10
<1>14. \A e \in Docs : typed' \cap TextOf(e) \subseteq TextOf(e)'
  BY <1>2, <1>10
<1>15. \A e \in Docs : Unwatched(e) => theirs' \cap TextOf(e)' \subseteq theirs \cap TextOf(e)
  BY <1>2, <1>4, <1>10, <1>12
<1>16. OpenInv'
  <2>1. PICK o, D : o = open /\ D = o.doc
    OBVIOUS
  <2>2. SUFFICES ASSUME o # None
                 PROVE  /\ typed' \cap TextOf(D)' \subseteq o.text
                        /\ o.base = NoTime \/ mtime(D)' <= o.base =>
                             theirs' \cap TextOf(D)' \subseteq o.text
    BY <1>3, <2>1 DEF OpenInv, TextOf, mtime
  <2>3. D \in Docs /\ o.base \in Past \cup {NoTime}
    BY <2>1, <2>2 DEF Inv, Typed, Opens
  <2>4. /\ typed \cap TextOf(D) \subseteq o.text
        /\ o.base = NoTime \/ mtime(D) <= o.base => theirs \cap TextOf(D) \subseteq o.text
    BY <2>1, <2>2 DEF Inv, OpenInv
  <2>5. typed' \cap TextOf(D)' \subseteq o.text
    BY <1>2, <1>13, <2>3, <2>4
  <2>6. CASE D = d /\ o.base # NoTime
    BY <1>4, <1>10, <2>3, <2>5, <2>6
  <2>7. CASE D = d /\ o.base = NoTime
    <3>1. Unwatched(D)
      BY <2>1, <2>2, <2>7 DEF Unwatched
    <3> QED
      BY <1>15, <2>3, <2>4, <2>5, <2>7, <3>1
  <2>8. CASE D # d
    <3>1. mtime(D)' = mtime(D) /\ theirs' \cap TextOf(D)' \subseteq theirs \cap TextOf(D)
      BY <1>2, <1>4, <1>10, <1>12, <2>3, <2>8
    <3> QED
      BY <2>4, <2>5, <3>1
  <2> QED
    BY <2>6, <2>7, <2>8
<1>17. OutsideKept'
  <2>1. SUFFICES ASSUME NEW m \in theirs' PROVE m \in OnDisk'
    BY DEF OutsideKept
  <2>2. CASE m = n
    BY <1>10, <2>2 DEF OnDisk, TextOf
  <2>3. CASE m # n
    <3>1. m \in theirs /\ m \notin TextOf(d) \ kept
      BY <1>2, <2>1, <2>3
    <3>2. PICK e \in Docs : m \in TextOf(e)
      BY <3>1, OnDiskIs DEF Inv, OutsideKept
    <3>3. m \in TextOf(e)'
      BY <1>10, <3>1, <3>2
    <3> QED
      BY <3>3 DEF OnDisk, TextOf
  <2> QED
    BY <2>2, <2>3
<1>18. typed' \subseteq typed /\ UNCHANGED <<temp, editor, jobs>>
  BY <1>2, <1>3 DEF editor
<1> QED
  BY <1>11, <1>13, <1>14, <1>15, <1>16, <1>17, <1>18, OutsideSteady

LEMMA OutsideRemoveKeeps ==
  ASSUME Inv, NEW d \in Docs, OutsideRemove(d)
  PROVE  Inv'
<1>1. /\ disk' = [disk EXCEPT ![d] = None]
      /\ typed' = typed \ TextOf(d)
      /\ theirs' = theirs \ TextOf(d)
      /\ UNCHANGED <<temp, open, asking, quitting, jobs, clock>>
  BY DEF OutsideRemove, editor
<1>2. /\ TextOf(d)' = {} /\ mtime(d)' = NoTime
      /\ \A e \in Docs \ {d} : TextOf(e)' = TextOf(e) /\ mtime(e)' = mtime(e)
  BY <1>1 DEF Inv, Typed, TextOf, mtime
<1>3. Typed'
  BY <1>1, SameClock DEF Inv, Typed
<1>4. OpenInv'
  <2>1. open # None => open.doc \in Docs
    BY DEF Inv, Typed, Opens
  <2>2. OpenInv
    BY DEF Inv
  <2>3. open # None => /\ typed' \cap TextOf(open.doc)' \subseteq open.text
                       /\ open.doc = d => TextOf(open.doc)' = {}
    BY <1>1, <1>2, <2>1, <2>2 DEF OpenInv
  <2>4. open # None /\ open.doc # d =>
          /\ mtime(open.doc)' = mtime(open.doc)
          /\ theirs' \cap TextOf(open.doc)' \subseteq theirs \cap TextOf(open.doc)
    BY <1>1, <1>2, <2>1
  <2> QED
    BY <1>1, <2>2, <2>3, <2>4 DEF OpenInv, TextOf, mtime
<1>5. OutsideKept'
  <2>1. SUFFICES ASSUME NEW m \in theirs' PROVE m \in OnDisk'
    BY DEF OutsideKept
  <2>2. m \in theirs /\ m \notin TextOf(d)
    BY <1>1, <2>1
  <2>3. PICK e \in Docs : m \in TextOf(e)
    BY <2>2, OnDiskIs DEF Inv, OutsideKept
  <2>4. m \in TextOf(e)'
    BY <1>2, <2>2, <2>3
  <2> QED
    BY <2>4 DEF OnDisk, TextOf
<1>6. \A e \in Docs : /\ typed' \cap TextOf(e)' \subseteq TextOf(e)
                      /\ typed' \cap TextOf(e) \subseteq TextOf(e)'
                      /\ theirs' \cap TextOf(e)' \subseteq theirs \cap TextOf(e)
  BY <1>1, <1>2
<1>7. typed' \subseteq typed /\ UNCHANGED <<temp, editor, jobs>>
  BY <1>1 DEF editor
<1> QED
  BY <1>3, <1>4, <1>5, <1>6, <1>7, OutsideSteady

-----------------------------------------------------------------------------
(***************************************************************************)
(* The tasks.                                                               *)
(***************************************************************************)

LEMMA Kinds ==
  ASSUME Typed, NEW j \in Jobs, jobs[j] # None
  PROVE  /\ jobs[j].pc \in ReadSteps => jobs[j] \in Reads /\ jobs[j].kind = "read"
         /\ jobs[j].pc \in SaveSteps => jobs[j] \in Saves /\ jobs[j].kind = "save"
BY DEF Typed, Reads, Saves, ReadSteps, SaveSteps

(* A task moves on, or ends, and nothing else changes. *)
LEMMA TaskMoves ==
  ASSUME Inv, NEW j \in Jobs, NEW r, r = jobs[j], r # None,
         NEW s \in Reads \cup Saves \cup {None}, jobs' = [jobs EXCEPT ![j] = s],
         UNCHANGED <<disk, temp, editor, clock, typed, theirs>>,
         s # None => s.kind = r.kind,
         s # None /\ s.kind = "read" => ReadInv(s),
         s # None /\ s.kind = "save" => SaveInv(s)
  PROVE  Inv'
<1>1. UNCHANGED <<open, asking, quitting>>
  BY DEF editor
<1>2. Typed'
  BY <1>1, SameClock DEF Inv, Typed
<1>3. /\ jobs'[j] = s
      /\ \A k \in Jobs \ {j} : jobs'[k] = jobs[k]
  BY DEF Inv, Typed
<1>4. ASSUME NEW k \in Jobs PROVE JobInv(k)'
  <2>1. JobInv(k) /\ JobInv(j)
    BY DEF Inv
  <2>2. CASE k # j
    <3>1. ~IsA("save", k)
      BY <2>1, <2>2 DEF JobInv, IsA
    <3> QED
      BY <1>3, <2>1, <2>2, <3>1 DEF JobInv, IsA, ReadInv, TextOf
  <2>3. CASE k = j
    <3>1. s # None /\ s.kind = "save" => \A i \in Jobs \ {j} : jobs'[i] = None
      BY <1>3, <2>1 DEF JobInv, IsA
    <3> QED
      BY <1>1, <1>3, <2>3, <3>1 DEF JobInv, IsA, ReadInv, SaveInv, Own, TextOf
  <2> QED
    BY <2>2, <2>3
<1>5. OpenInv' /\ EditsKept' /\ OutsideKept'
  BY <1>1 DEF Inv, OpenInv, TextOf, mtime, EditsKept, OutsideKept, OnDisk, unsaved_doc
<1> QED
  BY <1>2, <1>4, <1>5 DEF Inv

LEMMA ReadContentKeeps ==
  ASSUME Inv, NEW j \in Jobs, ReadContent(j)
  PROVE  Inv'
<1>1. PICK r, t : r = jobs[j] /\ t = TextOf(r.doc)
  OBVIOUS
<1>2. PICK s : s = [r EXCEPT !.pc = "mtime", !.text = t]
  OBVIOUS
<1>3. /\ r # None /\ r.pc = "content" /\ jobs' = [jobs EXCEPT ![j] = s]
      /\ UNCHANGED <<disk, temp, editor, clock, typed, theirs>>
  BY <1>1, <1>2 DEF ReadContent, At, Advance
<1>4. r \in Reads
  BY <1>1, <1>3, Kinds DEF Inv, ReadSteps
<1>5. t \subseteq Known
  BY <1>1, <1>4, TextKnown DEF Inv, Reads
<1>6. s \in Reads /\ s.kind = "read" /\ r.kind = "read" /\ s.doc = r.doc /\ s.text = t
  BY <1>2, <1>4, <1>5 DEF Reads, ReadSteps
<1>7. ReadInv(s)
  BY <1>1, <1>6 DEF ReadInv
<1> QED
  BY <1>1, <1>3, <1>6, <1>7, TaskMoves

LEMMA ReadMtimeKeeps ==
  ASSUME Inv, NEW j \in Jobs, ReadMtime(j)
  PROVE  Inv'
<1>1. PICK r, t : r = jobs[j] /\ t = mtime(r.doc)
  OBVIOUS
<1>2. PICK s : s = [r EXCEPT !.pc = "loaded", !.base = t]
  OBVIOUS
<1>3. /\ r # None /\ r.pc = "mtime" /\ jobs' = [jobs EXCEPT ![j] = s]
      /\ UNCHANGED <<disk, temp, editor, clock, typed, theirs>>
  BY <1>1, <1>2 DEF ReadMtime, At, Advance
<1>4. r \in Reads /\ r.kind = "read"
  BY <1>1, <1>3, Kinds DEF Inv, ReadSteps
<1>5. t \in Past \cup {NoTime}
  BY <1>1, <1>4, TextKnown DEF Inv, Reads
<1>6. s \in Reads /\ s.kind = "read" /\ s.doc = r.doc /\ s.text = r.text
  BY <1>2, <1>4, <1>5 DEF Reads, ReadSteps
<1>7. ReadInv(r)
  BY <1>1, <1>3, <1>4 DEF Inv, JobInv, IsA
<1>8. ReadInv(s)
  BY <1>3, <1>6, <1>7 DEF ReadInv
<1> QED
  BY <1>1, <1>3, <1>4, <1>6, <1>8, TaskMoves

(* An answer is shown unless it would take an edit away. *)
LEMMA ShowKeeps ==
  ASSUME Inv, NEW j \in Jobs, show_doc(j)
  PROVE  Inv'
<1>1. PICK r : r = jobs[j]
  OBVIOUS
<1>2. /\ r # None /\ r.pc = "loaded" /\ jobs' = [jobs EXCEPT ![j] = None]
      /\ UNCHANGED <<disk, temp, asking, quitting, clock, typed, theirs>>
  BY <1>1 DEF show_doc, At, Advance
<1>3. r \in Reads /\ r.kind = "read" /\ ReadInv(r)
  BY <1>1, <1>2, Kinds DEF Inv, ReadSteps, JobInv, IsA
<1>4. CASE unsaved_doc
  <2>1. UNCHANGED editor
    BY <1>2, <1>4 DEF show_doc, editor
  <2> QED
    BY <1>1, <1>2, <2>1, TaskMoves
<1>5. CASE ~unsaved_doc
  <2>1. PICK o : o = [doc |-> r.doc, text |-> r.text, base |-> r.base, dirty |-> FALSE]
    OBVIOUS
  <2>2. open' = o
    BY <1>1, <1>5, <2>1 DEF show_doc
  <2>3. o \in Opens /\ o # None
    <3>1. o \in Opens
      BY <1>3, <2>1 DEF Reads, Opens
    <3> QED
      BY <3>1, NotNone DEF Inv
  <2>4. Typed'
    BY <1>2, <2>2, <2>3, SameClock DEF Inv, Typed
  <2>5. OpenInv'
    <3>1. (typed \cup theirs) \cap TextOf(r.doc) \subseteq r.text
      BY <1>2, <1>3 DEF ReadInv
    <3> QED
      BY <1>2, <2>1, <2>2, <3>1 DEF OpenInv, TextOf
  <2>6. ASSUME NEW k \in Jobs PROVE JobInv(k)'
    <3>1. JobInv(k)
      BY DEF Inv
    <3>2. k # j => ~IsA("save", k)
      BY <1>1, <1>2, <3>1 DEF JobInv, IsA
    <3>3. jobs'[k] = IF k = j THEN None ELSE jobs[k]
      BY <1>2 DEF Inv, Typed
    <3> QED
      BY <1>2, <3>1, <3>2, <3>3 DEF JobInv, IsA, ReadInv, TextOf
  <2>7. EditsKept' /\ OutsideKept'
    BY <1>2, <1>5, SameDisk DEF Inv, EditsKept, OutsideKept
  <2> QED
    BY <2>4, <2>5, <2>6, <2>7 DEF Inv
<1> QED
  BY <1>4, <1>5

LEMMA SaveCheckKeeps ==
  ASSUME Inv, NEW j \in Jobs, SaveCheck(j)
  PROVE  Inv'
<1>1. PICK r : r = jobs[j]
  OBVIOUS
<1>2. PICK pc : pc = IF r.base = NoTime \/ disk[r.doc] = None
                     THEN "truncate" ELSE decide_save(r.base, mtime(r.doc))
  OBVIOUS
<1>3. PICK s : s = [r EXCEPT !.pc = pc]
  OBVIOUS
<1>4. /\ r # None /\ r.pc = "check" /\ jobs' = [jobs EXCEPT ![j] = s]
      /\ UNCHANGED <<disk, temp, editor, clock, typed, theirs>>
  BY <1>1, <1>2, <1>3 DEF SaveCheck, At, Advance
<1>5. r \in Saves /\ r.kind = "save" /\ SaveInv(r)
  BY <1>1, <1>4, Kinds DEF Inv, SaveSteps, JobInv, IsA
<1>6. pc \in {"truncate", "refused"}
  BY <1>2 DEF decide_save
<1>7. /\ s \in Saves /\ s.kind = "save" /\ s.pc = pc
      /\ s.doc = r.doc /\ s.text = r.text
  BY <1>3, <1>5, <1>6 DEF Saves, SaveSteps
<1>8. pc = "truncate" => theirs \cap TextOf(r.doc) \subseteq r.text
  <2>1. r.doc \in Docs /\ r.base \in Past \cup {NoTime}
    BY <1>5 DEF Saves
  <2>2. open # None /\ open.doc = r.doc /\ open.text = r.text /\ open.base = r.base
    BY <1>4, <1>5 DEF SaveInv, Own
  <2>3. CASE disk[r.doc] = None
    BY <2>3 DEF TextOf
  <2>4. CASE r.base = NoTime
    BY <2>2, <2>4 DEF Inv, OpenInv
  <2>5. CASE pc = "truncate" /\ r.base # NoTime /\ disk[r.doc] # None
    <3>1. ~(mtime(r.doc) > r.base)
      BY <1>2, <2>5 DEF decide_save
    <3>2. mtime(r.doc) \in Int /\ r.base \in Int
      BY <2>1, TextKnown DEF Inv, Past, NoTime
    <3>3. mtime(r.doc) <= r.base
      BY <3>1, <3>2
    <3> QED
      BY <2>2, <3>3 DEF Inv, OpenInv
  <2> QED
    BY <2>3, <2>4, <2>5
<1>9. SaveInv(s)
  BY <1>5, <1>6, <1>7, <1>8 DEF SaveInv, Own
<1> QED
  BY <1>1, <1>4, <1>5, <1>7, <1>9, TaskMoves

(* A step of a save under way, which is alone. *)
LEMMA SaveMoves ==
  ASSUME Inv, NEW j \in Jobs, NEW r, r = jobs[j], r # None, r.kind = "save",
         NEW s \in Saves', jobs' = [jobs EXCEPT ![j] = s],
         UNCHANGED <<editor, typed, theirs>>,
         clock' = clock \/ (clock' = clock + 1 /\ clock < MaxClock),
         disk' \in [Docs -> Files' \cup {None}], temp' \in [Docs -> Files' \cup {None}],
         SaveInv(s)', OpenInv', EditsKept', OutsideKept'
  PROVE  Inv'
<1>1. UNCHANGED <<open, asking, quitting>>
  BY DEF editor
<1>2. /\ jobs'[j] = s
      /\ \A k \in Jobs \ {j} : jobs'[k] = None
  <2>1. \A k \in Jobs \ {j} : jobs[k] = None
    BY DEF Inv, JobInv, IsA
  <2> QED
    BY <2>1 DEF Inv, Typed
<1>3. Typed'
  <2>1. clock' \in 0 .. MaxClock
    BY DocumentsAssumption DEF Inv, Typed
  <2>2. Known \subseteq Known' /\ Opens \subseteq Opens'
    BY NewMark, SameClock DEF Inv
  <2>3. jobs' \in [Jobs -> Reads' \cup Saves' \cup {None}]
    <3>1. \A k \in Jobs : jobs'[k] \in Saves' \cup {None}
      BY <1>2
    <3>2. jobs' = [k \in Jobs |-> jobs'[k]]
      BY DEF Inv, Typed
    <3> QED
      BY <3>1, <3>2
  <2> QED
    BY <1>1, <2>1, <2>2, <2>3 DEF Inv, Typed
<1>4. ASSUME NEW k \in Jobs PROVE JobInv(k)'
  <2>1. s.kind = "save"
    BY DEF Saves
  <2>2. CASE k # j
    BY <1>2, <2>2 DEF JobInv, IsA
  <2>3. CASE k = j
    BY <1>1, <1>2, <2>1, <2>3 DEF JobInv, IsA, SaveInv, Own, TextOf
  <2> QED
    BY <2>2, <2>3
<1> QED
  BY <1>3, <1>4 DEF Inv

LEMMA SaveTruncateKeeps ==
  ASSUME Inv, NEW j \in Jobs, SaveTruncate(j)
  PROVE  Inv'
<1>1. PICK r : r = jobs[j]
  OBVIOUS
<1>2. PICK s, f : s = [r EXCEPT !.pc = "fill"] /\ f = [text |-> {}, time |-> clock]
  OBVIOUS
<1>3. /\ r # None /\ r.pc = "truncate" /\ jobs' = [jobs EXCEPT ![j] = s]
      /\ temp' = [temp EXCEPT ![r.doc] = f]
      /\ UNCHANGED <<disk, editor, clock, typed, theirs>>
  BY <1>1, <1>2 DEF SaveTruncate, At, Advance
<1>4. r \in Saves /\ r.kind = "save" /\ SaveInv(r)
  BY <1>1, <1>3, Kinds DEF Inv, SaveSteps, JobInv, IsA
<1>5. s \in Saves /\ s.pc = "fill" /\ s.doc = r.doc /\ s.text = r.text
  BY <1>2, <1>4 DEF Saves, SaveSteps
<1>6. f \in Files
  BY <1>2, DocumentsAssumption DEF Files, Past, Inv, Typed
<1>7. disk' \in [Docs -> Files' \cup {None}] /\ temp' \in [Docs -> Files' \cup {None}]
  BY <1>3, <1>6, SameClock DEF Inv, Typed
<1>8. s \in Saves'
  BY <1>3, <1>5, SameClock
<1>9. SaveInv(s)'
  BY <1>3, <1>4, <1>5 DEF SaveInv, Own, TextOf, editor
<1>10. OpenInv' /\ EditsKept' /\ OutsideKept'
  BY <1>3 DEF Inv, OpenInv, TextOf, mtime, EditsKept, OutsideKept, OnDisk, unsaved_doc, editor
<1> QED
  BY <1>1, <1>3, <1>4, <1>7, <1>8, <1>9, <1>10, SaveMoves

LEMMA SaveFillKeeps ==
  ASSUME Inv, NEW j \in Jobs, SaveFill(j)
  PROVE  Inv'
<1>1. PICK r : r = jobs[j]
  OBVIOUS
<1>2. PICK s, f : s = [r EXCEPT !.pc = "rename"] /\ f = [text |-> r.text, time |-> clock']
  OBVIOUS
<1>3. /\ r # None /\ r.pc = "fill" /\ jobs' = [jobs EXCEPT ![j] = s]
      /\ temp' = [temp EXCEPT ![r.doc] = f]
      /\ clock < MaxClock /\ clock' = clock + 1
      /\ UNCHANGED <<disk, editor, typed, theirs>>
  BY <1>1, <1>2 DEF SaveFill, At, Advance
<1>4. r \in Saves /\ r.kind = "save" /\ SaveInv(r)
  BY <1>1, <1>3, Kinds DEF Inv, SaveSteps, JobInv, IsA
<1>5. s \in Saves /\ s.pc = "rename" /\ s.doc = r.doc /\ s.text = r.text /\ r.doc \in Docs
  BY <1>2, <1>4 DEF Saves, SaveSteps
<1>6. f \in Files' /\ f.text = r.text
  BY <1>2, <1>3, <1>4, NewMark DEF Files, Saves, Inv
<1>7. f # None
  <2>1. clock' \in 0 .. MaxClock
    BY <1>3, DocumentsAssumption DEF Inv, Typed
  <2>2. Known' \subseteq Marks /\ Past' \subseteq Time
    BY <2>1, DocumentsAssumption DEF Known, Past, Marks, Time
  <2>3. f \in File
    BY <1>6, <2>2 DEF Files, File
  <2> QED
    BY <2>3, DocumentsAssumption
<1>8. disk' \in [Docs -> Files' \cup {None}] /\ temp' \in [Docs -> Files' \cup {None}]
  BY <1>3, <1>6, NewMark DEF Inv, Typed
<1>9. s \in Saves'
  BY <1>3, <1>5, NewMark DEF Inv
<1>10. temp'[r.doc] = f
  BY <1>3, <1>5 DEF Inv, Typed
<1>11. SaveInv(s)'
  BY <1>3, <1>4, <1>5, <1>6, <1>7, <1>10 DEF SaveInv, Own, TextOf, editor
<1>12. OpenInv' /\ EditsKept' /\ OutsideKept'
  BY <1>3 DEF Inv, OpenInv, TextOf, mtime, EditsKept, OutsideKept, OnDisk, unsaved_doc, editor
<1> QED
  BY <1>1, <1>3, <1>4, <1>8, <1>9, <1>11, <1>12, SaveMoves

(* The file is replaced: what it held of the user's is in the text saved,   *)
(* for that was opened from it, and what it held of the others' too, for    *)
(* the check let it pass.                                                   *)
LEMMA SaveRenameKeeps ==
  ASSUME Inv, NEW j \in Jobs, SaveRename(j)
  PROVE  Inv'
<1>1. PICK r, d, f : r = jobs[j] /\ d = r.doc /\ f = temp[d]
  OBVIOUS
<1>2. PICK s : s = [r EXCEPT !.pc = "stat"]
  OBVIOUS
<1>3. /\ r # None /\ r.pc = "rename"
      /\ UNCHANGED <<editor, clock, typed, theirs>>
  BY <1>1 DEF SaveRename, At
<1>4. r \in Saves /\ r.kind = "save" /\ SaveInv(r) /\ d \in Docs
  BY <1>1, <1>3, Kinds DEF Inv, SaveSteps, JobInv, IsA, Saves
<1>5. f # None /\ f.text = r.text /\ f \in Files
  BY <1>1, <1>3, <1>4 DEF SaveInv, Inv, Typed
<1>6. /\ disk' = [disk EXCEPT ![d] = f]
      /\ temp' = [temp EXCEPT ![d] = None]
      /\ jobs' = [jobs EXCEPT ![j] = s]
  BY <1>1, <1>2, <1>5 DEF SaveRename, Advance
<1>7. s \in Saves /\ s.pc = "stat" /\ s.doc = d /\ s.text = r.text
  BY <1>1, <1>2, <1>4 DEF Saves, SaveSteps
<1>8. s \in Saves'
  BY <1>3, <1>7, SameClock
<1>9. disk' \in [Docs -> Files' \cup {None}] /\ temp' \in [Docs -> Files' \cup {None}]
  BY <1>3, <1>5, <1>6, SameClock DEF Inv, Typed
<1>10. /\ TextOf(d)' = r.text
       /\ \A e \in Docs \ {d} : TextOf(e)' = TextOf(e)
  BY <1>4, <1>5, <1>6 DEF TextOf, Inv, Typed
<1>11. /\ open # None /\ open.doc = d /\ open.text = r.text /\ open.dirty
       /\ asking = None /\ ~quitting
       /\ theirs \cap TextOf(d) \subseteq r.text
  BY <1>1, <1>3, <1>4 DEF SaveInv, Own
<1>12. UNCHANGED <<open, asking, quitting>>
  BY <1>3 DEF editor
<1>13. SaveInv(s)'
  <2>1. Own(s)'
    BY <1>7, <1>11, <1>12 DEF Own
  <2>2. TextOf(s.doc)' = s.text
    BY <1>7, <1>10
  <2> QED
    BY <1>7, <2>1, <2>2 DEF SaveInv
<1>14. OpenInv'
  <2>1. PICK o : o = open
    OBVIOUS
  <2>2. open' = o /\ o.doc = d /\ o.text = r.text
    BY <1>11, <1>12, <2>1
  <2>3. disk'[d] = f
    BY <1>4, <1>6 DEF Inv, Typed
  <2> QED
    BY <1>5, <2>2, <2>3 DEF OpenInv, TextOf
<1>15. EditsKept'
  <2>1. SUFFICES ASSUME NEW m \in typed, m \notin open.text PROVE m \in OnDisk'
    BY <1>3, <1>11, <1>12 DEF EditsKept, unsaved_doc
  <2>2. PICK e \in Docs : m \in TextOf(e)
    BY <2>1, OnDiskIs DEF Inv, EditsKept, unsaved_doc
  <2>3. e # d
    BY <1>11, <2>1, <2>2 DEF Inv, OpenInv
  <2>4. m \in TextOf(e)'
    BY <1>10, <2>2, <2>3
  <2> QED
    BY <2>4 DEF OnDisk, TextOf
<1>16. OutsideKept'
  <2>1. SUFFICES ASSUME NEW m \in theirs PROVE m \in OnDisk'
    BY <1>3 DEF OutsideKept
  <2>2. PICK e \in Docs : m \in TextOf(e)
    BY <2>1, OnDiskIs DEF Inv, OutsideKept
  <2>3. m \in TextOf(e)'
    BY <1>10, <1>11, <2>1, <2>2
  <2> QED
    BY <2>3 DEF OnDisk, TextOf
<1>17. UNCHANGED <<editor, typed, theirs>> /\ clock' = clock
  BY <1>3
<1> QED
  BY <1>1, <1>3, <1>4, <1>6, <1>8, <1>9, <1>13, <1>14, <1>15, <1>16, <1>17, SaveMoves

LEMMA SaveStatKeeps ==
  ASSUME Inv, NEW j \in Jobs, SaveStat(j)
  PROVE  Inv'
<1>1. PICK r : r = jobs[j]
  OBVIOUS
<1>2. PICK now : now = mtime(r.doc)
  OBVIOUS
<1>3. PICK pc : pc = IF now = NoTime THEN "refused" ELSE "saved"
  OBVIOUS
<1>4. PICK s : s = [r EXCEPT !.pc = pc, !.base = now]
  OBVIOUS
<1>5. /\ r # None /\ r.pc = "stat" /\ jobs' = [jobs EXCEPT ![j] = s]
      /\ UNCHANGED <<disk, temp, editor, clock, typed, theirs>>
  BY <1>1, <1>2, <1>3, <1>4 DEF SaveStat, At, Advance
<1>6. r \in Saves /\ r.kind = "save" /\ SaveInv(r)
  BY <1>1, <1>5, Kinds DEF Inv, SaveSteps, JobInv, IsA
<1>7. now \in Past \cup {NoTime}
  BY <1>2, <1>6, TextKnown DEF Inv, Saves
<1>8. pc \in {"refused", "saved"}
  BY <1>3
<1>9. s \in Saves /\ s.kind = "save" /\ s.pc = pc /\ s.doc = r.doc /\ s.text = r.text
  BY <1>4, <1>6, <1>7, <1>8 DEF Saves, SaveSteps
<1>10. SaveInv(s)
  BY <1>5, <1>6, <1>8, <1>9 DEF SaveInv, Own
<1> QED
  BY <1>1, <1>5, <1>6, <1>9, <1>10, TaskMoves

(* The answer of a save: the text is marked saved, and is in the file as    *)
(* far as nobody else took it out.                                          *)
LEMMA SavedKeeps ==
  ASSUME Inv, NEW j \in Jobs, on_doc_saved(j)
  PROVE  Inv'
<1>1. PICK r, o : r = jobs[j] /\ o = open
  OBVIOUS
<1>2. /\ r # None /\ r.pc \in {"saved", "refused"} /\ jobs' = [jobs EXCEPT ![j] = None]
      /\ UNCHANGED <<disk, temp, asking, quitting, clock, typed, theirs>>
  BY <1>1 DEF on_doc_saved, At, Advance
<1>3. r \in Saves /\ r.kind = "save" /\ SaveInv(r)
  BY <1>1, <1>2, Kinds DEF Inv, SaveSteps, JobInv, IsA
<1>4. CASE r.pc = "refused"
  <2>1. UNCHANGED editor
    BY <1>1, <1>2, <1>4 DEF on_doc_saved, At, editor
  <2> QED
    BY <1>1, <1>2, <2>1, TaskMoves
<1>5. CASE r.pc = "saved"
  <2>1. PICK e : e = [o EXCEPT !.base = r.base, !.dirty = FALSE]
    OBVIOUS
  <2>2. /\ o # None /\ o \in Opens /\ o.doc = r.doc /\ o.text = r.text
        /\ theirs \cap TextOf(r.doc) \subseteq r.text
        /\ typed \cap r.text \subseteq TextOf(r.doc)
    BY <1>1, <1>3, <1>5 DEF SaveInv, Own, Inv, Typed
  <2>3. open' = e
    BY <1>1, <1>2, <1>5, <2>1, <2>2 DEF on_doc_saved, At
  <2>4. e \in Opens /\ e.doc = r.doc /\ e.text = r.text
    BY <1>3, <2>1, <2>2 DEF Opens, Saves
  <2>5. e # None
    BY <2>4, NotNone DEF Inv
  <2>6. Typed'
    BY <1>2, <2>3, <2>4, <2>5, SameClock DEF Inv, Typed
  <2>7. OpenInv'
    <3>1. typed \cap TextOf(r.doc) \subseteq r.text
      BY <1>1, <2>2 DEF Inv, OpenInv
    <3> QED
      BY <1>2, <2>2, <2>3, <2>4, <3>1 DEF OpenInv, TextOf
  <2>8. ASSUME NEW k \in Jobs PROVE JobInv(k)'
    <3>1. \A i \in Jobs \ {j} : jobs[i] = None
      BY <1>1, <1>2, <1>3 DEF Inv, JobInv, IsA
    <3>2. jobs'[k] = None
      BY <1>2, <3>1 DEF Inv, Typed
    <3> QED
      BY <3>2 DEF JobInv, IsA
  <2>9. EditsKept'
    <3>1. typed \subseteq OnDisk \cup r.text
      BY <1>1, <2>2 DEF Inv, EditsKept, unsaved_doc
    <3>2. r.doc \in Docs
      BY <1>3 DEF Saves
    <3>3. typed \cap r.text \subseteq OnDisk
      BY <2>2, <3>2, OnDiskIs
    <3> QED
      BY <1>2, <3>1, <3>3, SameDisk DEF EditsKept
  <2>10. OutsideKept'
    BY <1>2, SameDisk DEF Inv, OutsideKept
  <2> QED
    BY <2>6, <2>7, <2>8, <2>9, <2>10 DEF Inv
<1> QED
  BY <1>2, <1>4, <1>5

-----------------------------------------------------------------------------
LEMMA NextInv ==
  ASSUME Patient, Inv, [Next]_vars
  PROVE  Inv'
<1>1. CASE UNCHANGED vars
  <2>1. UNCHANGED <<disk, temp, open, asking, quitting, jobs, clock, typed, theirs>>
    BY <1>1 DEF vars, editor
  <2>2. Typed'
    BY <2>1, SameClock DEF Inv, Typed
  <2>3. ASSUME NEW j \in Jobs PROVE JobInv(j)'
    BY <2>1 DEF Inv, JobInv, IsA, ReadInv, SaveInv, Own, TextOf
  <2>4. OpenInv' /\ EditsKept' /\ OutsideKept'
    BY <2>1 DEF Inv, OpenInv, TextOf, mtime, EditsKept, OutsideKept, OnDisk, unsaved_doc
  <2> QED
    BY <2>2, <2>3, <2>4 DEF Inv
<1>2. ASSUME NEW j \in Jobs, JobStep(j)
      PROVE  Inv'
  BY <1>2, ReadContentKeeps, ReadMtimeKeeps, ShowKeeps, SaveCheckKeeps, SaveTruncateKeeps,
     SaveFillKeeps, SaveRenameKeeps, SaveStatKeeps, SavedKeeps DEF JobStep
<1>3. ASSUME NEW d \in Docs, request_doc(d) \/ OutsideWrite(d) \/ OutsideRemove(d)
      PROVE  Inv'
  BY <1>3, RequestKeeps, OutsideWriteKeeps, OutsideRemoveKeeps
<1> QED
  BY <1>1, <1>2, <1>3, EditKeeps, SaveStarts, CloseKeeps, DiscardKeeps, QuitKeeps DEF Next

-----------------------------------------------------------------------------
(* A user who does not type or leave while a save runs loses no edit but    *)
(* where the user lets it go, the program is killed or another process      *)
(* rewrites the file: not to a late answer of a read, and not to a kill in  *)
(* the middle of a save (Shell::show_doc, docs::save).                      *)
THEOREM PatientEditsKept ==
  ASSUME Patient
  PROVE  Spec => []EditsKept
<1>1. Init => Inv
  BY InitInv
<1>2. Inv /\ [Next]_vars => Inv'
  BY NextInv
<1>3. Inv => EditsKept
  BY DEF Inv
<1> QED
  BY <1>1, <1>2, <1>3, PTL DEF Spec

(* No save takes out of a file what another process wrote there while no    *)
(* task was at it: the times decide_save compares are enough for that.      *)
THEOREM PatientOutsideKept ==
  ASSUME Patient
  PROVE  Spec => []OutsideKept
<1>1. Init => Inv
  BY InitInv
<1>2. Inv /\ [Next]_vars => Inv'
  BY NextInv
<1>3. Inv => OutsideKept
  BY DEF Inv
<1> QED
  BY <1>1, <1>2, <1>3, PTL DEF Spec

-----------------------------------------------------------------------------
(***************************************************************************)
(* Types, for a user who does not wait as well.                            *)
(***************************************************************************)

JobRec == [kind : {"read", "save"}, pc : ReadSteps \cup SaveSteps, doc : Docs,
           text : SUBSET Marks, base : Time \cup {NoTime}]

TypeInv ==
  /\ TypeOK
  /\ jobs \in [Jobs -> JobRec \cup {None}]

(* The editor's part of the types, and the files'. *)
EditorTyped ==
  /\ open \in OpenDoc \cup {None}
  /\ asking \in Docs \cup {"close", None}
  /\ asking # None => open # None
  /\ quitting \in BOOLEAN
FilesTyped ==
  /\ disk \in [Docs -> File \cup {None}]
  /\ temp \in [Docs -> File \cup {None}]
  /\ clock \in Time
  /\ typed \subseteq Marks /\ theirs \subseteq Marks

(* The type invariant is its parts. *)
LEMMA TypeParts ==
  TypeInv <=> EditorTyped /\ FilesTyped /\ jobs \in [Jobs -> JobRec \cup {None}]
<1>1. ASSUME jobs \in [Jobs -> JobRec \cup {None}], NEW j \in Jobs, jobs[j] # None
      PROVE  /\ jobs[j].doc \in Docs
             /\ jobs[j].text \subseteq Marks
             /\ jobs[j].base \in Time \cup {NoTime}
             /\ jobs[j].pc \in {"content", "mtime", "check", "truncate", "fill", "rename", "stat",
                                "loaded", "saved", "refused"}
  <2>1. jobs[j] \in JobRec
    BY <1>1
  <2> QED
    BY <2>1 DEF JobRec, ReadSteps, SaveSteps
<1>2. TypeInv => EditorTyped /\ FilesTyped /\ jobs \in [Jobs -> JobRec \cup {None}]
  BY DEF TypeInv, TypeOK, EditorTyped, FilesTyped
<1>3. EditorTyped /\ FilesTyped /\ jobs \in [Jobs -> JobRec \cup {None}] => TypeInv
  BY <1>1 DEF TypeInv, TypeOK, EditorTyped, FilesTyped
<1> QED
  BY <1>2, <1>3

(* And so in the next state. *)
LEMMA TypePartsNext ==
  (EditorTyped /\ FilesTyped /\ jobs \in [Jobs -> JobRec \cup {None}] => TypeInv)'
<1>1. EditorTyped /\ FilesTyped /\ jobs \in [Jobs -> JobRec \cup {None}] => TypeInv
  BY TypeParts
<1> QED
  BY <1>1, PTL

(* Nothing is open, in flight or typed at the start. *)
LEMMA InitTypes == Init => TypeInv
<1> SUFFICES ASSUME Init PROVE TypeInv
  OBVIOUS
<1>1. 0 \in Time /\ {} \subseteq Marks
  BY DocumentsAssumption DEF Time
<1>2. [text |-> {}, time |-> 0] \in File
  BY <1>1 DEF File
<1>3. EditorTyped /\ FilesTyped /\ jobs \in [Jobs -> JobRec \cup {None}]
  BY <1>1, <1>2 DEF Init, EditorTyped, FilesTyped
<1> QED
  BY <1>3, TypeParts

(* A task that starts takes a free place. *)
LEMMA StartTypes ==
  ASSUME TypeInv, NEW job \in JobRec, Start(job)
  PROVE  jobs' \in [Jobs -> JobRec \cup {None}]
BY DEF Start, TypeInv

(* A task that moves on or ends keeps its place. *)
LEMMA AdvanceTypes ==
  ASSUME TypeInv, NEW j \in Jobs, NEW job \in JobRec \cup {None}, Advance(j, job)
  PROVE  jobs' \in [Jobs -> JobRec \cup {None}]
BY DEF Advance, TypeInv

(* A read and a save start as tasks of their types. *)
LEMMA FirstTypes ==
  ASSUME TypeInv
  PROVE  /\ \A d \in Docs : Read(d) \in JobRec
         /\ open # None => Save(open) \in JobRec
<1>1. \A d \in Docs : Read(d) \in JobRec
  BY DEF Read, JobRec, ReadSteps, NoTime
<1>2. open # None => open \in OpenDoc
  BY DEF TypeInv, TypeOK
<1>3. open # None => Save(open) \in JobRec
  BY <1>2 DEF OpenDoc, Save, JobRec, SaveSteps
<1> QED
  BY <1>1, <1>3

(* What is read of a file, there or not. *)
LEMMA TextTypes ==
  ASSUME TypeInv, NEW d \in Docs
  PROVE  TextOf(d) \subseteq Marks /\ mtime(d) \in Time \cup {NoTime}
<1>1. disk[d] \in File \cup {None}
  BY DEF TypeInv, TypeOK
<1> QED
  BY <1>1 DEF File, TextOf, mtime

(* There is a mark left to give. *)
LEMMA ClockTypes ==
  ASSUME TypeInv, clock < MaxClock
  PROVE  clock + 1 \in Time /\ clock + 1 \in Marks
BY DocumentsAssumption DEF TypeInv, TypeOK, Time, Marks

(* What the user does, and the end of the process, keep the types. *)
LEMMA EditorTypes ==
  ASSUME TypeInv, \/ \E d \in Docs : request_doc(d)
                  \/ edit_doc \/ save_open_doc \/ close_doc
                  \/ confirm_doc_discard \/ cancel_doc_discard
                  \/ request_quit \/ cancel_quit \/ confirm_quit \/ Crash
  PROVE  TypeInv'
<1>1. EditorTyped /\ FilesTyped /\ jobs \in [Jobs -> JobRec \cup {None}]
  BY TypeParts
<1>2. CASE \E d \in Docs : request_doc(d)
  <2>1. PICK d \in Docs : request_doc(d)
    BY <1>2
  <2>2. jobs' \in [Jobs -> JobRec \cup {None}]
    BY <1>1, <2>1, FirstTypes, StartTypes DEF request_doc
  <2>3. UNCHANGED <<disk, temp, open, quitting, clock, typed, theirs>>
    BY <2>1 DEF request_doc
  <2>4. asking' = asking \/ (asking' = d /\ open # None)
    BY <2>1 DEF request_doc, unsaved_doc
  <2>5. EditorTyped' /\ FilesTyped'
    BY <1>1, <2>3, <2>4 DEF EditorTyped, FilesTyped
  <2> QED
    BY <2>2, <2>5, TypePartsNext
<1>3. CASE edit_doc
  <2>1. /\ UNCHANGED <<disk, temp, asking, quitting, jobs, theirs>>
        /\ open # None /\ clock < MaxClock /\ clock' = clock + 1
        /\ open' = [open EXCEPT !.text = @ \cup {clock'}, !.dirty = TRUE]
        /\ typed' = typed \cup {clock'}
    BY <1>3 DEF edit_doc, doc_accepts_edits
  <2>2. clock' \in Time /\ clock' \in Marks
    BY <2>1, ClockTypes
  <2>3. PICK doc, text, base, dirty :
          /\ open = [doc |-> doc, text |-> text, base |-> base, dirty |-> dirty]
          /\ doc \in Docs /\ text \subseteq Marks /\ base \in Time \cup {NoTime}
    BY <1>1, <2>1 DEF EditorTyped, OpenDoc
  <2>4. open' = [doc |-> doc, text |-> text \cup {clock'}, base |-> base, dirty |-> TRUE]
    BY <2>1, <2>3
  <2>5. open' \in OpenDoc
    BY <2>2, <2>3, <2>4 DEF OpenDoc
  <2>6. open' # None
    BY <2>5, DocumentsAssumption
  <2>7. EditorTyped' /\ FilesTyped'
    BY <1>1, <2>1, <2>2, <2>5, <2>6 DEF EditorTyped, FilesTyped
  <2> QED
    BY <1>1, <2>1, <2>7, TypePartsNext
<1>4. CASE save_open_doc
  <2>1. UNCHANGED <<disk, temp, open, asking, quitting, clock, typed, theirs>>
    BY <1>4 DEF save_open_doc, editor
  <2>2. jobs' \in [Jobs -> JobRec \cup {None}]
    BY <1>1, <1>4, FirstTypes, StartTypes DEF save_open_doc, doc_accepts_edits
  <2>3. EditorTyped' /\ FilesTyped'
    BY <1>1, <2>1 DEF EditorTyped, FilesTyped
  <2> QED
    BY <2>2, <2>3, TypePartsNext
<1>5. CASE close_doc
  <2>1. EditorTyped' /\ FilesTyped' /\ jobs' \in [Jobs -> JobRec \cup {None}]
    BY <1>1, <1>5 DEF close_doc, doc_accepts_edits, unsaved_doc, EditorTyped, FilesTyped
  <2> QED
    BY <2>1, TypePartsNext
<1>6. CASE confirm_doc_discard
  <2>1. jobs' \in [Jobs -> JobRec \cup {None}]
    <3>1. CASE asking = "close"
      BY <1>1, <1>6, <3>1 DEF confirm_doc_discard
    <3>2. CASE asking # "close"
      <4>1. asking \in Docs /\ Start(Read(asking))
        BY <1>1, <1>6, <3>2 DEF confirm_doc_discard, EditorTyped
      <4> QED
        BY <4>1, FirstTypes, StartTypes
    <3> QED
      BY <3>1, <3>2
  <2>2. EditorTyped' /\ FilesTyped'
    BY <1>1, <1>6 DEF confirm_doc_discard, EditorTyped, FilesTyped
  <2> QED
    BY <2>1, <2>2, TypePartsNext
<1>7. CASE cancel_doc_discard \/ cancel_quit
  <2>1. EditorTyped' /\ FilesTyped' /\ jobs' \in [Jobs -> JobRec \cup {None}]
    BY <1>1, <1>7 DEF cancel_doc_discard, cancel_quit, EditorTyped, FilesTyped
  <2> QED
    BY <2>1, TypePartsNext
<1>8. CASE Gone /\ typed' \subseteq typed
  <2>1. EditorTyped' /\ FilesTyped' /\ jobs' \in [Jobs -> JobRec \cup {None}]
    BY <1>1, <1>8 DEF Gone, EditorTyped, FilesTyped
  <2> QED
    BY <2>1, TypePartsNext
<1>9. CASE confirm_quit \/ Crash
  BY <1>8, <1>9 DEF confirm_quit, Crash
<1>10. CASE request_quit
  <2>1. CASE ~unsaved_doc /\ Gone /\ UNCHANGED typed
    BY <1>8, <2>1
  <2>2. CASE /\ quitting' = TRUE
             /\ UNCHANGED <<disk, temp, open, asking, jobs, clock, typed, theirs>>
    <3>1. EditorTyped' /\ FilesTyped' /\ jobs' \in [Jobs -> JobRec \cup {None}]
      BY <1>1, <2>2 DEF EditorTyped, FilesTyped
    <3> QED
      BY <3>1, TypePartsNext
  <2> QED
    BY <1>10, <2>1, <2>2 DEF request_quit
<1> QED
  BY <1>2, <1>3, <1>4, <1>5, <1>6, <1>7, <1>9, <1>10

(* A task's record, one step on. *)
LEMMA JobMoves ==
  ASSUME NEW r \in JobRec, NEW pc \in ReadSteps \cup SaveSteps,
         NEW text \in SUBSET Marks, NEW base \in Time \cup {NoTime}
  PROVE  /\ [r EXCEPT !.pc = pc] \in JobRec
         /\ [r EXCEPT !.pc = pc, !.text = text] \in JobRec
         /\ [r EXCEPT !.pc = pc, !.base = base] \in JobRec
BY DEF JobRec

(* Every step of a read or a save keeps the types. *)
LEMMA JobTypes ==
  ASSUME TypeInv, NEW j \in Jobs, JobStep(j)
  PROVE  TypeInv'
<1>1. EditorTyped /\ FilesTyped /\ jobs \in [Jobs -> JobRec \cup {None}]
  BY TypeParts
<1>2. PICK r : r = jobs[j]
  OBVIOUS
<1>3. r \in JobRec
  BY <1>1, <1>2 DEF JobStep, ReadContent, ReadMtime, show_doc, SaveCheck, SaveTruncate, SaveFill,
                    SaveRename, SaveStat, on_doc_saved, At
<1>4. /\ r.doc \in Docs /\ r.text \subseteq Marks /\ r.base \in Time \cup {NoTime}
      /\ TextOf(r.doc) \subseteq Marks /\ mtime(r.doc) \in Time \cup {NoTime}
  BY <1>3, TextTypes DEF JobRec
<1>5. ASSUME NEW job \in JobRec \cup {None}, Advance(j, job), EditorTyped', FilesTyped'
      PROVE  TypeInv'
  BY <1>5, AdvanceTypes, TypePartsNext
<1>6. ASSUME UNCHANGED <<disk, temp, editor, clock, typed, theirs>>
      PROVE  EditorTyped' /\ FilesTyped'
  BY <1>1, <1>6 DEF EditorTyped, FilesTyped, editor
<1>7. CASE ReadContent(j)
  <2>1. PICK job : job = [r EXCEPT !.pc = "mtime", !.text = TextOf(r.doc)]
    OBVIOUS
  <2>2. job \in JobRec
    BY <1>3, <1>4, <2>1, JobMoves DEF ReadSteps
  <2> QED
    BY <1>2, <1>5, <1>6, <1>7, <2>1, <2>2 DEF ReadContent
<1>8. CASE ReadMtime(j)
  <2>1. PICK job : job = [r EXCEPT !.pc = "loaded", !.base = mtime(r.doc)]
    OBVIOUS
  <2>2. job \in JobRec
    BY <1>3, <1>4, <2>1, JobMoves DEF ReadSteps
  <2> QED
    BY <1>2, <1>5, <1>6, <1>8, <2>1, <2>2 DEF ReadMtime
<1>9. CASE show_doc(j)
  <2>1. PICK doc : doc = [doc |-> r.doc, text |-> r.text, base |-> r.base, dirty |-> FALSE]
    OBVIOUS
  <2>2. doc \in OpenDoc /\ doc # None
    <3>1. doc \in OpenDoc
      BY <1>4, <2>1 DEF OpenDoc
    <3> QED
      BY <3>1, DocumentsAssumption
  <2>3. open' = open \/ open' = doc
    BY <1>2, <1>9, <2>1 DEF show_doc
  <2>4. Advance(j, None) /\ UNCHANGED <<disk, temp, asking, quitting, clock, typed, theirs>>
    BY <1>9 DEF show_doc
  <2>5. EditorTyped' /\ FilesTyped'
    BY <1>1, <2>2, <2>3, <2>4 DEF EditorTyped, FilesTyped
  <2> QED
    BY <1>5, <2>4, <2>5
<1>10. CASE SaveCheck(j)
  <2>1. PICK pc \in SaveSteps : Advance(j, [r EXCEPT !.pc = pc])
    BY <1>2, <1>10 DEF SaveCheck, decide_save, SaveSteps
  <2>2. [r EXCEPT !.pc = pc] \in JobRec
    BY <1>3, <1>4, JobMoves
  <2> QED
    BY <1>5, <1>6, <1>10, <2>1, <2>2 DEF SaveCheck
<1>11. CASE SaveTruncate(j)
  <2>1. PICK job : job = [r EXCEPT !.pc = "fill"]
    OBVIOUS
  <2>2. job \in JobRec /\ Advance(j, job)
    BY <1>2, <1>3, <1>4, <1>11, <2>1, JobMoves DEF SaveSteps, SaveTruncate
  <2>3. PICK file : file = [text |-> {}, time |-> clock]
    OBVIOUS
  <2>4. file \in File
    BY <1>1, <2>3 DEF File, FilesTyped
  <2>5. temp' = [temp EXCEPT ![r.doc] = file] /\ UNCHANGED <<disk, editor, clock, typed, theirs>>
    BY <1>2, <1>11, <2>3 DEF SaveTruncate
  <2>6. EditorTyped' /\ FilesTyped'
    BY <1>1, <2>4, <2>5 DEF EditorTyped, FilesTyped, editor
  <2> QED
    BY <1>5, <2>2, <2>6
<1>12. CASE SaveFill(j)
  <2>1. PICK job : job = [r EXCEPT !.pc = "rename"]
    OBVIOUS
  <2>2. job \in JobRec /\ Advance(j, job)
    BY <1>2, <1>3, <1>4, <1>12, <2>1, JobMoves DEF SaveSteps, SaveFill
  <2>3. PICK file : file = [text |-> r.text, time |-> clock']
    OBVIOUS
  <2>4. clock' \in Time
    BY <1>12, ClockTypes DEF SaveFill
  <2>5. file \in File
    BY <1>4, <2>3, <2>4 DEF File
  <2>6. temp' = [temp EXCEPT ![r.doc] = file] /\ UNCHANGED <<disk, editor, typed, theirs>>
    BY <1>2, <1>12, <2>3 DEF SaveFill
  <2>7. EditorTyped' /\ FilesTyped'
    BY <1>1, <2>4, <2>5, <2>6 DEF EditorTyped, FilesTyped, editor
  <2> QED
    BY <1>5, <2>2, <2>7
<1>13. CASE SaveRename(j)
  <2>1. PICK pc \in SaveSteps : Advance(j, [r EXCEPT !.pc = pc])
    BY <1>2, <1>13 DEF SaveRename, SaveSteps
  <2>2. [r EXCEPT !.pc = pc] \in JobRec
    BY <1>3, <1>4, JobMoves
  <2>3. UNCHANGED <<editor, clock, typed, theirs>>
    BY <1>13 DEF SaveRename
  <2>4. /\ disk' = disk \/ disk' = [disk EXCEPT ![r.doc] = temp[r.doc]]
        /\ temp' = temp \/ temp' = [temp EXCEPT ![r.doc] = None]
    BY <1>2, <1>13 DEF SaveRename
  <2>5. disk' \in [Docs -> File \cup {None}] /\ temp' \in [Docs -> File \cup {None}]
    BY <1>1, <1>4, <2>4 DEF FilesTyped
  <2>6. EditorTyped' /\ FilesTyped'
    BY <1>1, <2>3, <2>5 DEF EditorTyped, FilesTyped, editor
  <2> QED
    BY <1>5, <2>1, <2>2, <2>6
<1>14. CASE SaveStat(j)
  <2>1. PICK pc \in SaveSteps : Advance(j, [r EXCEPT !.pc = pc, !.base = mtime(r.doc)])
    BY <1>2, <1>14 DEF SaveStat, SaveSteps
  <2>2. [r EXCEPT !.pc = pc, !.base = mtime(r.doc)] \in JobRec
    BY <1>3, <1>4, JobMoves
  <2> QED
    BY <1>5, <1>6, <1>14, <2>1, <2>2 DEF SaveStat
<1>15. CASE on_doc_saved(j)
  <2>1. Advance(j, None) /\ UNCHANGED <<disk, temp, asking, quitting, clock, typed, theirs>>
    BY <1>15 DEF on_doc_saved
  <2>2. open' \in OpenDoc \cup {None} /\ (open' = None => open = None)
    <3>1. CASE open # None /\ At(j, "saved")
      <4>1. PICK doc, text, base, dirty :
              /\ open = [doc |-> doc, text |-> text, base |-> base, dirty |-> dirty]
              /\ doc \in Docs /\ text \subseteq Marks
        BY <1>1, <3>1 DEF EditorTyped, OpenDoc
      <4>2. open' = [open EXCEPT !.base = r.base, !.dirty = FALSE]
        BY <1>2, <1>15, <3>1 DEF on_doc_saved
      <4>3. open' = [doc |-> doc, text |-> text, base |-> r.base, dirty |-> FALSE]
        BY <4>1, <4>2
      <4>4. open' \in OpenDoc
        BY <1>4, <4>1, <4>3 DEF OpenDoc
      <4> QED
        BY <4>4, DocumentsAssumption
    <3>2. CASE ~(open # None /\ At(j, "saved"))
      BY <1>1, <1>15, <3>2 DEF on_doc_saved, EditorTyped
    <3> QED
      BY <3>1, <3>2
  <2>3. EditorTyped' /\ FilesTyped'
    BY <1>1, <2>1, <2>2 DEF EditorTyped, FilesTyped
  <2> QED
    BY <1>5, <2>1, <2>3
<1> QED
  BY <1>7, <1>8, <1>9, <1>10, <1>11, <1>12, <1>13, <1>14, <1>15 DEF JobStep

(* So does another process that writes or removes a file. *)
LEMMA OutsideTypes ==
  ASSUME TypeInv, NEW d \in Docs, OutsideWrite(d) \/ OutsideRemove(d)
  PROVE  TypeInv'
<1>1. EditorTyped /\ FilesTyped /\ jobs \in [Jobs -> JobRec \cup {None}]
  BY TypeParts
<1>2. UNCHANGED <<temp, open, asking, quitting, jobs>>
  BY DEF OutsideWrite, OutsideRemove, editor
<1>3. FilesTyped'
  <2>1. CASE OutsideWrite(d)
    <3>1. clock' \in Time /\ clock' \in Marks
      BY <2>1, ClockTypes DEF OutsideWrite
    <3>2. PICK kept \in {{}, TextOf(d)} :
            /\ disk' = [disk EXCEPT ![d] = [text |-> kept \cup {clock'}, time |-> clock']]
            /\ typed' = typed \ (TextOf(d) \ kept)
            /\ theirs' \subseteq theirs \cup {clock'}
      BY <2>1 DEF OutsideWrite
    <3>3. PICK file : file = [text |-> kept \cup {clock'}, time |-> clock']
      OBVIOUS
    <3>4. file \in File
      BY <3>1, <3>2, <3>3, TextTypes DEF File
    <3>5. disk' \in [Docs -> File \cup {None}]
      BY <1>1, <3>2, <3>3, <3>4 DEF FilesTyped
    <3> QED
      BY <1>1, <1>2, <3>1, <3>2, <3>5 DEF FilesTyped
  <2>2. CASE OutsideRemove(d)
    BY <1>1, <1>2, <2>2 DEF OutsideRemove, FilesTyped
  <2> QED
    BY <2>1, <2>2
<1>4. EditorTyped'
  BY <1>1, <1>2 DEF EditorTyped
<1> QED
  BY <1>1, <1>2, <1>3, <1>4, TypePartsNext

(* Whether the user waits or not, nothing read, typed, saved or written by
   another process takes the editor, its tasks and the files out of their types. *)
THEOREM DocumentsTyped == Spec => []TypeOK
<1>1. TypeInv /\ [Next]_vars => TypeInv'
  <2> SUFFICES ASSUME TypeInv, [Next]_vars PROVE TypeInv'
    OBVIOUS
  <2>1. CASE UNCHANGED vars
    <3>1. EditorTyped /\ FilesTyped /\ jobs \in [Jobs -> JobRec \cup {None}]
      BY TypeParts
    <3>2. EditorTyped' /\ FilesTyped' /\ jobs' \in [Jobs -> JobRec \cup {None}]
      BY <2>1, <3>1 DEF vars, EditorTyped, FilesTyped
    <3> QED
      BY <3>2, TypePartsNext
  <2>2. CASE Next
    BY <2>2, EditorTypes, JobTypes, OutsideTypes DEF Next
  <2> QED
    BY <2>1, <2>2
<1>2. TypeInv => TypeOK
  BY DEF TypeInv
<1> QED
  BY <1>1, <1>2, InitTypes, PTL DEF Spec
=============================================================================
