----------------------------- MODULE Documents -----------------------------
(***************************************************************************)
(* The plan or memory file open in the main pane: the editor of            *)
(* shell/docs.rs over the file adapter docs.rs and the decision of          *)
(* core/docscope.rs.                                                       *)
(*                                                                         *)
(* Reads and saves run off the UI thread, one file operation per step, and  *)
(* answer with a message.  Other processes (a Claude, an editor) write and  *)
(* remove the same files at any time.  A text is the set of the marks       *)
(* written into it: an edit of the user and a write of another process each *)
(* bring a mark of their own, numbered by one clock that also gives the     *)
(* files their modification times.                                         *)
(*                                                                         *)
(* The sidebar lists only files in the writable scope (docs::discover), so  *)
(* is_writable holds for every member of Docs and its refusal is left out;  *)
(* so are write errors.                                                    *)
(***************************************************************************)
EXTENDS Integers, FiniteSets

CONSTANTS
  Docs,        \* the listed documents
  Jobs,        \* reads and saves that may be in flight
  MaxClock,    \* bound on edits and writes together
  Patient,     \* TRUE: the user waits for the answers (see MayEdit, MaySave)
  None         \* no document, no job, no question, no file

Marks == 1 .. MaxClock
Time == 0 .. MaxClock
NoTime == -1                \* a modification time that could not be read
File == [text : SUBSET Marks, time : Time]
OpenDoc == [doc : Docs, text : SUBSET Marks, base : Time \cup {NoTime}, dirty : BOOLEAN]

ASSUME DocumentsAssumption ==
  /\ MaxClock \in Nat
  /\ Patient \in BOOLEAN
  /\ None \notin Docs \cup {"close"} \cup File \cup OpenDoc

VARIABLES
  disk,      \* per document the file: its text and mtime, or None
  temp,      \* per document the temporary file of atomic_write, or None
  open,      \* Shell::open_doc: [doc, text, base, dirty], or None
  asking,    \* Shell::discarding_doc: "close", the document to open, or None
  quitting,  \* Shell::closing_window: the quit prompt is up
  jobs,      \* the tasks in flight, each None or a record
  clock,     \* the last mark given
  typed,     \* history: the marks the user typed and has not let go
  theirs     \* history: the marks others wrote that a save must not remove

editor == <<open, asking, quitting>>
vars == <<disk, temp, open, asking, quitting, jobs, clock, typed, theirs>>

Read(d) == [kind |-> "read", pc |-> "content", doc |-> d, text |-> {}, base |-> NoTime]
Save(doc) ==
  [kind |-> "save", pc |-> "check", doc |-> doc.doc, text |-> doc.text, base |-> doc.base]

TypeOK ==
  /\ disk \in [Docs -> File \cup {None}]
  /\ temp \in [Docs -> File \cup {None}]
  /\ open \in OpenDoc \cup {None}
  /\ asking \in Docs \cup {"close", None}
  /\ asking # None => open # None
  /\ quitting \in BOOLEAN
  /\ \A j \in Jobs : jobs[j] # None =>
       /\ jobs[j].doc \in Docs
       /\ jobs[j].text \subseteq Marks
       /\ jobs[j].base \in Time \cup {NoTime}
       /\ jobs[j].pc \in {"content", "mtime", "check", "truncate", "fill", "rename", "stat",
                          "loaded", "saved", "refused"}
  /\ clock \in Time
  /\ typed \cup theirs \subseteq Marks

-----------------------------------------------------------------------------
(* What the user may do.  A modal over the editor blocks the mouse, and the  *)
(* keys go to it.                                                          *)

unsaved_doc == open # None /\ open.dirty
doc_accepts_edits == open # None /\ asking = None /\ ~quitting
InFlight(kind) == {j \in Jobs : jobs[j] # None /\ jobs[j].kind = kind}
NoSaveAwaited == Patient => InFlight("save") = {}
NothingAwaited == Patient => InFlight("save") \cup InFlight("read") = {}

Start(job) == \E j \in Jobs :
  /\ jobs[j] = None
  /\ jobs' = [jobs EXCEPT ![j] = job]

\* Message::OpenDoc: a click in the sidebar.
request_doc(d) ==
  /\ asking = None /\ ~quitting /\ NoSaveAwaited
  /\ IF unsaved_doc
     THEN asking' = d /\ UNCHANGED jobs
     ELSE Start(Read(d)) /\ UNCHANGED asking
  /\ UNCHANGED <<disk, temp, open, quitting, clock, typed, theirs>>

\* Message::DocEdit: the user types.
edit_doc ==
  /\ doc_accepts_edits /\ NoSaveAwaited
  /\ clock < MaxClock
  /\ clock' = clock + 1
  /\ open' = [open EXCEPT !.text = @ \cup {clock'}, !.dirty = TRUE]
  /\ typed' = typed \cup {clock'}
  /\ UNCHANGED <<disk, temp, asking, quitting, jobs, theirs>>

\* Message::SaveDoc, or the save chord.
save_open_doc ==
  /\ doc_accepts_edits /\ open.dirty /\ NothingAwaited
  /\ Start(Save(open))
  /\ UNCHANGED <<disk, temp, editor, clock, typed, theirs>>

\* Message::CloseDoc: the button, or escape.
close_doc ==
  /\ doc_accepts_edits /\ NoSaveAwaited
  /\ IF unsaved_doc
     THEN asking' = "close" /\ UNCHANGED open
     ELSE open' = None /\ UNCHANGED asking
  /\ UNCHANGED <<disk, temp, quitting, jobs, clock, typed, theirs>>

\* Mutant of confirm_doc_discard: the question stays up once it was answered.
ConfirmStillAsking ==
  /\ asking # None /\ ~quitting
  /\ open' = None
  /\ typed' = typed \ open.text
  /\ IF asking = "close" THEN UNCHANGED jobs ELSE Start(Read(asking))
  /\ UNCHANGED <<disk, temp, asking, quitting, clock, theirs>>

\* Message::ConfirmDocDiscard: the edits are let go.
confirm_doc_discard ==
  /\ asking # None /\ ~quitting
  /\ asking' = None
  /\ open' = None
  /\ typed' = typed \ open.text
  /\ IF asking = "close" THEN UNCHANGED jobs ELSE Start(Read(asking))
  /\ UNCHANGED <<disk, temp, quitting, clock, theirs>>

cancel_doc_discard ==
  /\ asking # None /\ ~quitting
  /\ asking' = None
  /\ UNCHANGED <<disk, temp, open, quitting, jobs, clock, typed, theirs>>

\* The process is gone with everything it held in memory; the files stay.
Gone ==
  /\ open' = None /\ asking' = None /\ quitting' = FALSE
  /\ jobs' = [j \in Jobs |-> None]
  /\ UNCHANGED <<disk, temp, clock, theirs>>

\* Shell::request_quit, from the window's close button at any time.  A clean
\* document leaves the answer to the close policy, which may ask or not.
request_quit ==
  /\ ~quitting /\ NoSaveAwaited
  /\ \/ /\ quitting' = TRUE
        /\ UNCHANGED <<disk, temp, open, asking, jobs, clock, typed, theirs>>
     \/ ~unsaved_doc /\ Gone /\ UNCHANGED typed

cancel_quit ==
  /\ quitting /\ quitting' = FALSE
  /\ UNCHANGED <<disk, temp, open, asking, jobs, clock, typed, theirs>>

\* What is in no file when the process ends is gone with it.
OnDisk == UNION {disk[d].text : d \in {d \in Docs : disk[d] # None}}
confirm_quit == quitting /\ Gone /\ typed' = typed \cap OnDisk

\* The program is killed, at any step of a save; the next one starts empty.
Crash ==
  /\ open # None \/ InFlight("save") # {}
  /\ Gone
  /\ typed' = typed \cap OnDisk

-----------------------------------------------------------------------------
(* The task of a read, then its message.                                   *)

Advance(j, job) == jobs' = [jobs EXCEPT ![j] = job]
TextOf(d) == IF disk[d] = None THEN {} ELSE disk[d].text
mtime(d) == IF disk[d] = None THEN NoTime ELSE disk[d].time
At(j, pc) == jobs[j] # None /\ jobs[j].pc = pc

\* docs::read; a failure is shown in the editor in the place of the text.
ReadContent(j) ==
  /\ At(j, "content")
  /\ Advance(j, [jobs[j] EXCEPT !.pc = "mtime", !.text = TextOf(jobs[j].doc)])
  /\ UNCHANGED <<disk, temp, editor, clock, typed, theirs>>

ReadMtime(j) ==
  /\ At(j, "mtime")
  /\ Advance(j, [jobs[j] EXCEPT !.pc = "loaded", !.base = mtime(jobs[j].doc)])
  /\ UNCHANGED <<disk, temp, editor, clock, typed, theirs>>

\* Mutant of show_doc: the answer to a read is shown whatever was typed meanwhile.
ShowOverEdits(j) ==
  /\ At(j, "loaded")
  /\ Advance(j, None)
  /\ open' = [doc |-> jobs[j].doc, text |-> jobs[j].text, base |-> jobs[j].base,
              dirty |-> FALSE]
  /\ UNCHANGED <<disk, temp, asking, quitting, clock, typed, theirs>>

\* Message::DocLoaded.
show_doc(j) ==
  /\ At(j, "loaded")
  /\ Advance(j, None)
  /\ open' = IF unsaved_doc THEN open
             ELSE [doc |-> jobs[j].doc, text |-> jobs[j].text, base |-> jobs[j].base,
                   dirty |-> FALSE]
  /\ UNCHANGED <<disk, temp, asking, quitting, clock, typed, theirs>>

-----------------------------------------------------------------------------
(* The task of a save, then its message.                                   *)

\* Mutant of decide_save: the times are compared the wrong way round.
DecideReversed(base, on_disk) == IF on_disk < base THEN "refused" ELSE "truncate"

\* docscope::decide_save.
decide_save(base, on_disk) == IF on_disk > base THEN "refused" ELSE "truncate"

SaveCheck(j) ==
  /\ At(j, "check")
  /\ LET d == jobs[j].doc
         unchecked == jobs[j].base = NoTime \/ disk[d] = None
     IN  Advance(j, [jobs[j] EXCEPT
           !.pc = IF unchecked THEN "truncate" ELSE decide_save(jobs[j].base, mtime(d))])
  /\ UNCHANGED <<disk, temp, editor, clock, typed, theirs>>

\* fs::write of the temporary file: it is emptied, and then filled.
SaveTruncate(j) ==
  /\ At(j, "truncate")
  /\ temp' = [temp EXCEPT ![jobs[j].doc] = [text |-> {}, time |-> clock]]
  /\ Advance(j, [jobs[j] EXCEPT !.pc = "fill"])
  /\ UNCHANGED <<disk, editor, clock, typed, theirs>>

SaveFill(j) ==
  /\ At(j, "fill")
  /\ clock < MaxClock
  /\ clock' = clock + 1
  /\ temp' = [temp EXCEPT ![jobs[j].doc] = [text |-> jobs[j].text, time |-> clock']]
  /\ Advance(j, [jobs[j] EXCEPT !.pc = "rename"])
  /\ UNCHANGED <<disk, editor, typed, theirs>>

\* fs::rename; it fails when another save took the temporary file away.
SaveRename(j) ==
  /\ At(j, "rename")
  /\ LET d == jobs[j].doc
     IN  IF temp[d] = None
         THEN Advance(j, [jobs[j] EXCEPT !.pc = "refused"]) /\ UNCHANGED <<disk, temp>>
         ELSE /\ disk' = [disk EXCEPT ![d] = temp[d]]
              /\ temp' = [temp EXCEPT ![d] = None]
              /\ Advance(j, [jobs[j] EXCEPT !.pc = "stat"])
  /\ UNCHANGED <<editor, clock, typed, theirs>>

SaveStat(j) ==
  /\ At(j, "stat")
  /\ LET now == mtime(jobs[j].doc)
     IN  Advance(j, [jobs[j] EXCEPT !.pc = IF now = NoTime THEN "refused" ELSE "saved",
                                    !.base = now])
  /\ UNCHANGED <<disk, temp, editor, clock, typed, theirs>>

\* Message::DocSaved: it does not say which document was saved.
on_doc_saved(j) ==
  /\ At(j, "saved") \/ At(j, "refused")
  /\ Advance(j, None)
  /\ IF open # None /\ At(j, "saved")
     THEN open' = [open EXCEPT !.base = jobs[j].base, !.dirty = FALSE]
     ELSE UNCHANGED open
  /\ UNCHANGED <<disk, temp, asking, quitting, clock, typed, theirs>>

-----------------------------------------------------------------------------
(* Another process.                                                        *)

\* It writes the file, over what is there or after it.  A mark written while
\* a task on the file is in flight may go unseen by it, and so may one under
\* a document that was opened with no time to compare.
Unwatched(d) ==
  \/ \E j \in Jobs : jobs[j] # None /\ jobs[j].doc = d
  \/ open # None /\ open.doc = d /\ open.base = NoTime

OutsideWrite(d) ==
  /\ clock < MaxClock
  /\ clock' = clock + 1
  /\ \E kept \in {{}, TextOf(d)} :
       /\ disk' = [disk EXCEPT ![d] = [text |-> kept \cup {clock'}, time |-> clock']]
       /\ typed' = typed \ (TextOf(d) \ kept)
       /\ theirs' = (theirs \ (TextOf(d) \ kept)) \cup
                    (IF Unwatched(d) THEN {} ELSE {clock'})
  /\ UNCHANGED <<temp, editor, jobs>>

OutsideRemove(d) ==
  /\ disk[d] # None
  /\ disk' = [disk EXCEPT ![d] = None]
  /\ typed' = typed \ TextOf(d)
  /\ theirs' = theirs \ TextOf(d)
  /\ UNCHANGED <<temp, editor, jobs, clock>>

-----------------------------------------------------------------------------
Init ==
  /\ disk = [d \in Docs |-> [text |-> {}, time |-> 0]]
  /\ temp = [d \in Docs |-> None]
  /\ open = None /\ asking = None /\ quitting = FALSE
  /\ jobs = [j \in Jobs |-> None]
  /\ clock = 0 /\ typed = {} /\ theirs = {}

JobStep(j) ==
  \/ ReadContent(j) \/ ReadMtime(j) \/ show_doc(j)
  \/ SaveCheck(j) \/ SaveTruncate(j) \/ SaveFill(j) \/ SaveRename(j) \/ SaveStat(j)
  \/ on_doc_saved(j)

Next ==
  \/ \E d \in Docs : request_doc(d) \/ OutsideWrite(d) \/ OutsideRemove(d)
  \/ edit_doc \/ save_open_doc \/ close_doc \/ confirm_doc_discard \/ cancel_doc_discard
  \/ request_quit \/ cancel_quit \/ confirm_quit \/ Crash
  \/ \E j \in Jobs : JobStep(j)

Spec == Init /\ [][Next]_vars

-----------------------------------------------------------------------------
\* An edit the user typed stays in the editor, marked unsaved, or in a file,
\* until the user lets it go at a prompt, the program is killed or another
\* process rewrites the file: no answer that comes late, no way out of the
\* editor and no kill in the middle of a save takes it.
EditsKept == typed \subseteq OnDisk \cup (IF unsaved_doc THEN open.text ELSE {})

\* The same for the editor alone, whoever waits for what: an edit in no file
\* goes out of the editor only where the user lets it go, or with the program
\* (the comment on DocDiscard: each way out of a modified document asks).
WaysOutAsk ==
  [][open # None =>
       \A m \in (typed' \cap open.text) \ OnDisk' : open' # None /\ m \in open'.text]_vars

\* What another process wrote with no task of ours on the file stays in the
\* file until another process takes it out: a save from a text read before it
\* is refused (the concurrency guard of docs::save).
OutsideKept == theirs \subseteq OnDisk
=============================================================================
