--------------------------------- MODULE Gui ---------------------------------
(***************************************************************************)
(* pstfree-gui: one window, its message loop, and the thread a long job    *)
(* runs on.  The window and the worker share nothing but the messages the  *)
(* worker posts; each opens the file for itself.                           *)
(*                                                                         *)
(* Dialogs and message boxes run a message loop of their own: while one is *)
(* up the window takes no input, but what the worker posted is delivered,  *)
(* and the code that opened the dialog goes on when it is closed.  modal   *)
(* is the stack of what is up.  A node is [of, nid], with the file whose   *)
(* index it came from.                                                     *)
(***************************************************************************)
EXTENDS Naturals, FiniteSets, Sequences, SequencesExt

CONSTANTS
  FILES,       \* files that may be opened
  FOLDERS,     \* ids of folders
  MAILS,       \* for each file and folder, the ids of the messages in it
  MAX_POSTED   \* bound: progress messages in the queue

ASSUME GuiAssumption ==
  /\ MAILS \in [FILES -> [FOLDERS -> SUBSET Nat]]
  /\ 0 \notin FOLDERS
  /\ MAX_POSTED \in Nat

VARIABLES
  running, \* the process has not quit
  open,    \* App.pst with path, nodes and names: one file, or "none"
  shown,   \* App.shown: the nodes the rows of the list stand for
  rows,    \* the rows in the list control, as the nodes they were made from
  folder,  \* App.folder
  status,  \* what the status bar says
  busy,    \* App.busy
  worker,  \* the job thread: NoJob, a job, or Dead
  posted,  \* messages from the worker, oldest first
  modal    \* dialogs and boxes that are up, the topmost last

window == <<open, shown, rows, folder>>
vars == <<running, window, status, busy, worker, posted, modal>>

NoJob == [job |-> "none"]
Dead == [job |-> "dead"]

Box(why) == [what |-> "box", why |-> why]
Up(m) == modal' = Append(modal, m)

Top == Last(modal)
Asking(what) == modal # <<>> /\ Top.what = what

MailsIn(f, d) == {[of |-> f, nid |-> n] : n \in MAILS[f][d]}
AllMails(f) == UNION {MailsIn(f, d) : d \in FOLDERS}

Fullest(f) ==
  {d \in FOLDERS : \A e \in FOLDERS : Cardinality(MAILS[f][e]) <= Cardinality(MAILS[f][d])}

Init ==
  /\ running = TRUE
  /\ open = "none" /\ shown = {} /\ rows = {} /\ folder = 0
  /\ status = "nothing open"
  /\ busy = FALSE /\ worker = NoJob /\ posted = <<>> /\ modal = <<>>

\* The window takes input: no dialog is up.
Input == running /\ modal = <<>>

-----------------------------------------------------------------------------
\* ID_OPEN.  Not refused while a job runs.
AskOpen ==
  /\ Input
  /\ Up([what |-> "open"])
  /\ UNCHANGED <<running, window, status, busy, worker, posted>>

\* open_file when load returns an index.  Filling the tree selects its fullest
\* folder; where no visible folder has a message, App.shown and App.folder stay
\* as they were, unless the tree tells that its old items have gone.
OpenFile ==
  /\ running /\ Asking("open")
  /\ \E f \in FILES, told \in BOOLEAN :
       /\ open' = f
       /\ IF AllMails(f) # {}
          THEN \E d \in Fullest(f) :
                 /\ folder' = d
                 /\ shown' = MailsIn(f, d) /\ rows' = shown'
          ELSE /\ rows' = {}
               /\ shown' = IF told THEN {} ELSE shown
               /\ folder' = IF told THEN 0 ELSE folder
  /\ status' = "file"
  /\ modal' = Front(modal)
  /\ UNCHANGED <<running, busy, worker, posted>>

\* open_file when load fails: a box, and when it is closed the status bar says
\* that nothing is open.
OpenFails ==
  /\ running /\ Asking("open")
  /\ modal' = Append(Front(modal), Box("unreadable"))
  /\ UNCHANGED <<running, window, status, busy, worker, posted>>

Cancel ==
  /\ running
  /\ Asking("open") \/ Asking("save") \/ Asking("folder")
  /\ modal' = Front(modal)
  /\ UNCHANGED <<running, window, status, busy, worker, posted>>

CloseBox ==
  /\ running /\ Asking("box")
  /\ modal' = Front(modal)
  /\ status' = IF Top.why = "unreadable" THEN "nothing open" ELSE status
  /\ UNCHANGED <<running, window, busy, worker, posted>>

SelectFolder ==
  /\ Input
  /\ \E d \in FOLDERS :
       /\ open # "none"
       /\ folder' = d
       /\ shown' = MailsIn(open, d) /\ rows' = shown'
  /\ UNCHANGED <<running, open, status, busy, worker, posted, modal>>

-----------------------------------------------------------------------------
\* A refusal, or ID_REPORT: a box and nothing else.
Tell ==
  /\ Input
  /\ Up(Box("told"))
  /\ UNCHANGED <<running, window, status, busy, worker, posted>>

\* Slip: a running job is not looked for.
ReadyIfOpen == open # "none"

\* A file is open and nothing else is running.
Ready == open # "none" /\ ~ busy

\* Slip: the flag is left to the worker's first message.
SpawnUnmarked(job) ==
  /\ worker' = job
  /\ status' = "working"
  /\ UNCHANGED busy

\* spawn_job: the job gets the path as it is now.
Spawn(job) ==
  /\ worker' = job
  /\ busy' = TRUE
  /\ status' = "working"

\* What an export may be asked for: everything, the folder shown, or the row
\* selected, which is looked up by its id among the nodes of the open file.
Wanted ==
  {AllMails(open)}
    \union (IF folder \in FOLDERS THEN {MailsIn(open, folder)} ELSE {})
    \union {{m \in AllMails(open) : m.nid = r.nid} : r \in rows}

\* What to export is settled before the dialog, where to only after it.
AskExport ==
  /\ Input
  /\ Ready
  /\ \E w \in Wanted : Up([what |-> "folder", of |-> open, want |-> w])
  /\ UNCHANGED <<running, window, status, busy, worker, posted>>

AskRebuild ==
  /\ Input
  /\ Ready
  /\ Up([what |-> "save", of |-> open])
  /\ UNCHANGED <<running, window, status, busy, worker, posted>>

\* The folder has things in it, or the file is the open one.
RefusePlace ==
  /\ running /\ (Asking("save") \/ Asking("folder"))
  /\ modal' = Append(Front(modal), Box("told"))
  /\ UNCHANGED <<running, window, status, busy, worker, posted>>

StartExport ==
  /\ running /\ Asking("folder")
  /\ Spawn([job |-> "export", of |-> open, want |-> Top.want])
  /\ modal' = Front(modal)
  /\ UNCHANGED <<running, window, posted>>

StartRebuild ==
  /\ running /\ Asking("save")
  /\ Spawn([job |-> "rebuild", of |-> open])
  /\ modal' = Front(modal)
  /\ UNCHANGED <<running, window, posted>>

StartFind ==
  /\ Input
  /\ Ready
  /\ Spawn([job |-> "find", of |-> open])
  /\ UNCHANGED <<running, window, posted, modal>>

-----------------------------------------------------------------------------
Working == running /\ worker \notin {NoJob, Dead}

Progress ==
  /\ Working
  /\ Len(posted) < MAX_POSTED
  /\ posted' = Append(posted, [what |-> "progress"])
  /\ UNCHANGED <<running, window, status, busy, worker, modal>>

\* What a job may end with: a text for the user, which it is too when the file
\* could not be opened again, or the hits of a search.
Results(job) ==
  {[what |-> "text"]}
    \union (IF job.job = "find"
            THEN {[what |-> "found", hits |-> h] : h \in SUBSET AllMails(job.of)}
            ELSE {})

Complete ==
  /\ Working
  /\ \E m \in Results(worker) : posted' = Append(posted, m)
  /\ worker' = NoJob
  /\ UNCHANGED <<running, window, status, busy, modal>>

\* A panic in the job unwinds its thread: nothing more is posted.
Panic ==
  /\ Working
  /\ worker' = Dead
  /\ UNCHANGED <<running, window, status, busy, posted, modal>>

-----------------------------------------------------------------------------
DeliverProgress ==
  /\ running /\ posted # <<>> /\ Head(posted).what = "progress"
  /\ status' = "working"
  /\ posted' = Tail(posted)
  /\ UNCHANGED <<running, window, busy, worker, modal>>

\* Slip: the flag is put back once the box is closed.
DeliverTextStillBusy ==
  /\ running /\ posted # <<>> /\ Head(posted).what = "text"
  /\ status' = "finished"
  /\ Up(Box("result"))
  /\ posted' = Tail(posted)
  /\ UNCHANGED <<running, window, busy, worker>>

DeliverText ==
  /\ running /\ posted # <<>> /\ Head(posted).what = "text"
  /\ busy' = FALSE
  /\ status' = "finished"
  /\ Up(Box("result"))
  /\ posted' = Tail(posted)
  /\ UNCHANGED <<running, window, worker>>

\* Slip: the rows are added to those of the folder.
ShowHitsAdding(hits) ==
  /\ rows' = rows \union hits /\ shown' = hits
  /\ folder' = 0

ShowHits(hits) ==
  /\ shown' = hits /\ rows' = hits
  /\ folder' = 0

\* Slip: the status bar is left as the search left it.
DeliverHitsQuietly ==
  /\ running /\ posted # <<>> /\ Head(posted).what = "found"
  /\ busy' = FALSE
  /\ ShowHits(Head(posted).hits)
  /\ posted' = Tail(posted)
  /\ UNCHANGED <<running, open, status, worker, modal>>

DeliverHits ==
  /\ running /\ posted # <<>> /\ Head(posted).what = "found"
  /\ busy' = FALSE
  /\ ShowHits(Head(posted).hits)
  /\ status' = "finished"
  /\ posted' = Tail(posted)
  /\ UNCHANGED <<running, open, worker, modal>>

Deliver == DeliverProgress \/ DeliverText \/ DeliverHits

\* The window is closed: the process ends, and a job with it.
Quit ==
  /\ Input
  /\ running' = FALSE
  /\ worker' = NoJob /\ posted' = <<>>
  /\ UNCHANGED <<window, status, busy, modal>>

User ==
  \/ AskOpen \/ OpenFile \/ OpenFails \/ Cancel \/ CloseBox \/ SelectFolder
  \/ Tell \/ AskExport \/ AskRebuild \/ RefusePlace
  \/ StartExport \/ StartRebuild \/ StartFind \/ Quit

Next == User \/ Progress \/ Complete \/ Panic \/ Deliver

\* A job comes to its end, and some message loop is always pumping.  Nobody
\* need ever touch the window.
Spec == Init /\ [][Next]_vars /\ WF_vars(Complete) /\ WF_vars(Deliver)

-----------------------------------------------------------------------------
Ends == {"text", "found"}

(* A job is always of a file that was open, and boxes pile up no higher than
   one over the other. *)
TypeOK ==
  /\ running \in BOOLEAN /\ busy \in BOOLEAN
  /\ open \in FILES \union {"none"}
  /\ folder \in FOLDERS \union {0}
  /\ status \in {"nothing open", "file", "working", "finished"}
  /\ \/ worker \in {NoJob, Dead}
     \/ worker.job \in {"export", "rebuild", "find"} /\ worker.of \in FILES
  /\ Len(posted) <= MAX_POSTED + 1
  /\ Len(modal) <= 2

(* busy says whether a job's end is still owed to the window: from the click
   that starts it to the delivery of its last message there is one job, its
   end is posted once, and after everything else it posts. *)
OneJob ==
  running =>
    /\ busy <=> worker # NoJob \/ \E k \in DOMAIN posted : posted[k].what \in Ends
    /\ \A k \in DOMAIN posted :
         posted[k].what \in Ends => worker = NoJob /\ k = Len(posted)

(* What Ready established before a dialog still holds when the dialog is
   answered, although messages were delivered in between: no job runs, the
   open file is the one the choice was made for, and an export is of nodes the
   worker's file has. *)
JobAsAsked ==
  /\ \A k \in DOMAIN modal :
       modal[k].what \in {"save", "folder"} => ~ busy /\ modal[k].of = open
  /\ worker.job = "export" => worker.want \subseteq AllMails(worker.of)

(* The status bar does not go on about a job that is over, whatever was opened
   and closed while its messages were on their way. *)
IdleStatus == running /\ ~ busy => status # "working"

(* A row stands for the node it was made from: show_message and "export this
   message" find by its number what the list shows. *)
RowsAreShown == rows # {} => rows = shown

(* A job that does not panic gives the window back. *)
JobEnds == busy ~> (~ busy \/ worker = Dead \/ ~ running)

-----------------------------------------------------------------------------
(* The comment of show_hits: "The hits' nodes came from the worker's own index
   on the same file, so they are the ones the window's handle would have
   found".  Opening is not refused while a search runs, and the hits then come
   from another file than the one the window has open. *)
HitsOfOpenFile == \A r \in rows : r.of = open

=============================================================================
