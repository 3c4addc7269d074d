------------------------------ MODULE GuiProofs ------------------------------
(***************************************************************************)
(* The window and its worker stay in step, for every set of files, folders *)
(* and messages and for a queue of every length.                           *)
(***************************************************************************)
EXTENDS Gui, TLAPS

-----------------------------------------------------------------------------
(* The inductive invariant.  What is up, and what is in the queue, are of a
   few shapes; the rest says how they hang together with busy and worker.   *)

Nodes == UNION {AllMails(f) : f \in FILES}

Dialogs ==
  [what : {"open"}]
    \union [what : {"box"}, why : {"told", "unreadable", "result"}]
    \union [what : {"save"}, of : FILES]
    \union [what : {"folder"}, of : FILES, want : SUBSET Nodes]

Messages ==
  [what : {"progress", "text"}] \union [what : {"found"}, hits : SUBSET Nodes]

Jobs ==
  [job : {"find", "rebuild"}, of : FILES]
    \union [job : {"export"}, of : FILES, want : SUBSET Nodes]

Shapes ==
  /\ running \in BOOLEAN /\ busy \in BOOLEAN
  /\ open \in FILES \union {"none"}
  /\ folder \in FOLDERS \union {0}
  /\ status \in {"nothing open", "file", "working", "finished"}
  /\ worker \in {NoJob, Dead} \union Jobs
  /\ modal \in Seq(Dialogs)
  /\ posted \in Seq(Messages)

\* A dialog that ends in a job is the only thing up, and its export is of
\* messages of its file; only the box with a result stands over another, and
\* it comes when its job is over.
Stack ==
  /\ Len(modal) <= 2
  /\ Len(modal) = 2 => ~ busy
  /\ \A k \in DOMAIN modal :
       /\ modal[k].what \in {"save", "folder"} => Len(modal) = 1
       /\ modal[k].what = "folder" => modal[k].want \subseteq AllMails(modal[k].of)

\* What is in the queue is the one job's: the job still runs or its thread has
\* died, or its end is the last thing in the queue.
Queue ==
  /\ posted # <<>> =>
       worker # NoJob \/ posted[Len(posted)].what \in Ends
  /\ Len(posted) <= MAX_POSTED + 1
  /\ worker # NoJob => Len(posted) <= MAX_POSTED

GuiInv ==
  /\ Shapes /\ RowsAreShown /\ JobAsAsked
  /\ OneJob /\ IdleStatus /\ Stack /\ Queue

-----------------------------------------------------------------------------
(* Sequences and messages.                                                  *)

\* A sequence without length is the empty one.
LEMMA NoneLeft ==
  ASSUME NEW S, NEW s \in Seq(S), Len(s) = 0
  PROVE  s = <<>>
  OBVIOUS

\* The last element of a stack and the rest under it.
LEMMA TopAndFront ==
  ASSUME NEW S, NEW s \in Seq(S), s # <<>>
  PROVE  /\ Last(s) \in S /\ Last(s) = s[Len(s)] /\ Len(s) \in Nat \ {0}
         /\ Front(s) \in Seq(S) /\ Len(Front(s)) = Len(s) - 1
         /\ \A k \in DOMAIN Front(s) : k \in DOMAIN s /\ Front(s)[k] = s[k]
  BY DEF Last, Front

\* A sequence with one more element at its end.
LEMMA OnTop ==
  ASSUME NEW S, NEW s \in Seq(S), NEW e \in S
  PROVE  /\ Append(s, e) \in Seq(S) /\ Len(Append(s, e)) = Len(s) + 1
         /\ Append(s, e)[Len(s) + 1] = e
         /\ DOMAIN Append(s, e) = DOMAIN s \union {Len(s) + 1}
         /\ \A k \in DOMAIN s : Append(s, e)[k] = s[k]
  OBVIOUS

\* The first element of a queue and those behind it.
LEMMA Behind ==
  ASSUME NEW S, NEW s \in Seq(S), s # <<>>
  PROVE  /\ Head(s) \in S /\ Head(s) = s[1] /\ Len(s) \in Nat \ {0}
         /\ Tail(s) \in Seq(S) /\ Len(Tail(s)) = Len(s) - 1
         /\ \A k \in DOMAIN Tail(s) : k + 1 \in DOMAIN s /\ Tail(s)[k] = s[k + 1]
  OBVIOUS

\* The mails of a folder are mails of its file.
LEMMA NodesOfFile ==
  ASSUME NEW f \in FILES
  PROVE  /\ AllMails(f) \subseteq Nodes
         /\ \A d \in FOLDERS : MailsIn(f, d) \subseteq AllMails(f)
  BY DEF Nodes, AllMails

\* The empty sequence is a sequence over any set.
LEMMA Empty ==
  ASSUME NEW S, NEW s, s = <<>>
  PROVE  s \in Seq(S) /\ DOMAIN s = {} /\ Len(s) = 0
<1>1. s \in Seq(S) /\ Len(s) = 0
  OBVIOUS
<1>2. DOMAIN s = {}
  BY <1>1
<1> QED BY <1>1, <1>2

\* The window opens with no file, no job and nothing posted.
LEMMA InitGui == Init => GuiInv
<1> SUFFICES ASSUME Init PROVE GuiInv
  OBVIOUS
<1>1. /\ running = TRUE /\ busy = FALSE /\ open = "none" /\ folder = 0
      /\ status = "nothing open" /\ worker = NoJob /\ rows = {}
      /\ modal = <<>> /\ posted = <<>>
  BY DEF Init
<1>2. /\ modal \in Seq(Dialogs) /\ DOMAIN modal = {} /\ Len(modal) = 0
      /\ posted \in Seq(Messages) /\ DOMAIN posted = {} /\ Len(posted) = 0
  BY <1>1, Empty
<1>3. Shapes
  BY <1>1, <1>2 DEF Shapes
<1>4. RowsAreShown /\ IdleStatus
  BY <1>1 DEF RowsAreShown, IdleStatus
<1>5. JobAsAsked
  BY <1>1, <1>2 DEF JobAsAsked, NoJob
<1>6. OneJob
  BY <1>1, <1>2 DEF OneJob
<1>7. Stack
  BY <1>2 DEF Stack
<1>8. Queue
  <2>1. MAX_POSTED \in Nat
    BY GuiAssumption
  <2>2. Len(posted) <= MAX_POSTED /\ Len(posted) <= MAX_POSTED + 1
    BY <1>2, <2>1
  <2> QED BY <1>1, <2>2 DEF Queue
<1> QED BY <1>3, <1>4, <1>5, <1>6, <1>7, <1>8 DEF GuiInv

-----------------------------------------------------------------------------
(* What an action that leaves a part of the window alone keeps.             *)

\* The job and its queue.
LEMMA JobKept ==
  ASSUME GuiInv, UNCHANGED <<running, busy, worker, posted>>
  PROVE  OneJob' /\ Queue'
  BY DEF GuiInv, OneJob, Queue

\* The dialog on top is closed.
LEMMA Closing ==
  ASSUME GuiInv, modal # <<>>, modal' = Front(modal), UNCHANGED busy,
         open' = open \/ Top.what = "open"
  PROVE  /\ modal' \in Seq(Dialogs) /\ Stack'
         /\ \A k \in DOMAIN modal' :
              modal'[k].what \in {"save", "folder"} => ~ busy' /\ modal'[k].of = open'
<1>1. /\ modal \in Seq(Dialogs) /\ Len(modal) <= 2 /\ (Len(modal) = 2 => ~ busy)
      /\ \A k \in DOMAIN modal :
           /\ modal[k].what \in {"save", "folder"} =>
                Len(modal) = 1 /\ ~ busy /\ modal[k].of = open
           /\ modal[k].what = "folder" => modal[k].want \subseteq AllMails(modal[k].of)
  BY DEF GuiInv, Shapes, Stack, JobAsAsked
<1>2. /\ Top = modal[Len(modal)] /\ Len(modal) \in Nat \ {0}
      /\ modal' \in Seq(Dialogs) /\ Len(modal') = Len(modal) - 1
      /\ \A k \in DOMAIN modal' : k \in DOMAIN modal /\ modal'[k] = modal[k]
  BY <1>1, TopAndFront DEF Top
<1>3. Len(modal') <= 1 /\ Len(modal') # 2
  BY <1>1, <1>2
<1>4. \A k \in DOMAIN modal' : modal'[k].what \notin {"save", "folder"}
  <2> SUFFICES ASSUME NEW k \in DOMAIN modal', modal[k].what \in {"save", "folder"}
               PROVE  FALSE
    BY <1>2
  <2>1. k \in 1 .. Len(modal') /\ Len(modal) = 1
    BY <1>1, <1>2
  <2> QED BY <1>2, <2>1
<1> QED BY <1>2, <1>3, <1>4 DEF Stack

\* A dialog or a box comes up over a window that takes input.
LEMMA Asked ==
  ASSUME GuiInv, modal = <<>>, UNCHANGED <<open, busy>>,
         NEW d \in Dialogs, modal' = Append(modal, d),
         d.what \in {"save", "folder"} => ~ busy /\ d.of = open,
         d.what = "folder" => d.want \subseteq AllMails(d.of)
  PROVE  /\ modal' \in Seq(Dialogs) /\ Stack'
         /\ \A k \in DOMAIN modal' :
              modal'[k].what \in {"save", "folder"} => ~ busy' /\ modal'[k].of = open'
<1>1. /\ modal' \in Seq(Dialogs) /\ Len(modal') = 1 /\ modal'[1] = d
      /\ DOMAIN modal' = {1}
  <2>1. modal \in Seq(Dialogs) /\ Len(modal) = 0 /\ DOMAIN modal = {}
    BY Empty
  <2> QED BY <2>1, OnTop
<1> QED BY <1>1 DEF Stack

\* The dialog on top gives way to a box.
LEMMA Replaced ==
  ASSUME GuiInv, modal # <<>>, UNCHANGED <<open, busy>>, NEW why \in {"told", "unreadable"},
         modal' = Append(Front(modal), Box(why))
  PROVE  /\ modal' \in Seq(Dialogs) /\ Stack'
         /\ \A k \in DOMAIN modal' :
              modal'[k].what \in {"save", "folder"} => ~ busy' /\ modal'[k].of = open'
<1>1. /\ modal \in Seq(Dialogs) /\ Len(modal) <= 2 /\ (Len(modal) = 2 => ~ busy)
      /\ \A k \in DOMAIN modal :
           /\ modal[k].what \in {"save", "folder"} => Len(modal) = 1
  BY DEF GuiInv, Shapes, Stack
<1> DEFINE f == Front(modal)
<1>2. /\ Len(modal) \in Nat \ {0} /\ f \in Seq(Dialogs) /\ Len(f) = Len(modal) - 1
      /\ \A k \in DOMAIN f : k \in DOMAIN modal /\ f[k] = modal[k]
  BY <1>1, TopAndFront
<1>3. Box(why) \in Dialogs /\ Box(why).what = "box"
  BY DEF Box, Dialogs
<1> HIDE DEF f
<1>4. /\ modal' \in Seq(Dialogs) /\ Len(modal') = Len(f) + 1
      /\ modal'[Len(f) + 1] = Box(why)
      /\ DOMAIN modal' = DOMAIN f \union {Len(f) + 1}
      /\ \A k \in DOMAIN f : modal'[k] = f[k]
  BY <1>2, <1>3, OnTop DEF f
<1>5. Len(modal') = Len(modal)
  BY <1>2, <1>4
<1>6. \A k \in DOMAIN modal' : modal'[k].what \notin {"save", "folder"}
  <2>1. ASSUME NEW k \in DOMAIN f, f[k].what \in {"save", "folder"} PROVE FALSE
    <3>1. k \in 1 .. Len(f) /\ Len(modal) = 1
      BY <1>1, <1>2, <2>1
    <3> QED BY <1>2, <3>1
  <2> QED BY <1>3, <1>4, <2>1
<1> QED BY <1>1, <1>4, <1>5, <1>6 DEF Stack

-----------------------------------------------------------------------------
(* What the user does, action by action.                                    *)

\* A file that was read is what the window shows from then on.
LEMMA StepOpenFile == GuiInv /\ OpenFile => GuiInv'
<1> SUFFICES ASSUME GuiInv, OpenFile PROVE GuiInv'
  OBVIOUS
<1>1. /\ modal # <<>> /\ Top.what = "open" /\ modal' = Front(modal)
      /\ status' = "file" /\ UNCHANGED <<running, busy, worker, posted>>
  BY DEF OpenFile, Asking
<1>2. PICK f \in FILES, told \in BOOLEAN :
        /\ open' = f
        /\ IF AllMails(f) # {}
           THEN \E d \in Fullest(f) :
                  /\ folder' = d
                  /\ shown' = MailsIn(f, d) /\ rows' = shown'
           ELSE /\ rows' = {}
                /\ shown' = IF told THEN {} ELSE shown
                /\ folder' = IF told THEN 0 ELSE folder
  BY DEF OpenFile
<1>3. OneJob' /\ Queue'
  BY <1>1, JobKept
<1>4. /\ modal' \in Seq(Dialogs) /\ Stack'
      /\ \A k \in DOMAIN modal' :
           modal'[k].what \in {"save", "folder"} => ~ busy' /\ modal'[k].of = open'
  BY <1>1, Closing
<1>5. folder' \in FOLDERS \union {0}
  BY <1>2 DEF Fullest, GuiInv, Shapes
<1>6. RowsAreShown'
  BY <1>2 DEF RowsAreShown
<1>7. Shapes'
  BY <1>1, <1>2, <1>4, <1>5 DEF GuiInv, Shapes
<1>8. JobAsAsked'
  BY <1>1, <1>4 DEF GuiInv, JobAsAsked
<1>9. IdleStatus'
  BY <1>1 DEF IdleStatus
<1> QED BY <1>3, <1>4, <1>6, <1>7, <1>8, <1>9 DEF GuiInv

\* Cancel and CloseBox.
LEMMA StepClose == GuiInv /\ (Cancel \/ CloseBox) => GuiInv'
<1> SUFFICES ASSUME GuiInv, Cancel \/ CloseBox PROVE GuiInv'
  OBVIOUS
<1>1. /\ modal # <<>> /\ modal' = Front(modal)
      /\ UNCHANGED <<running, open, shown, rows, folder, busy, worker, posted>>
      /\ status' \in {status, "nothing open"}
  BY DEF Cancel, CloseBox, Asking, window
<1>2. OneJob' /\ Queue'
  BY <1>1, JobKept
<1>3. /\ modal' \in Seq(Dialogs) /\ Stack'
      /\ \A k \in DOMAIN modal' :
           modal'[k].what \in {"save", "folder"} => ~ busy' /\ modal'[k].of = open'
  BY <1>1, Closing
<1>4. Shapes'
  BY <1>1, <1>3 DEF GuiInv, Shapes
<1>5. RowsAreShown' /\ IdleStatus'
  BY <1>1 DEF GuiInv, RowsAreShown, IdleStatus
<1>6. JobAsAsked'
  BY <1>1, <1>3 DEF GuiInv, JobAsAsked
<1> QED BY <1>2, <1>3, <1>4, <1>5, <1>6 DEF GuiInv

\* OpenFails and RefusePlace.
LEMMA StepReplace == GuiInv /\ (OpenFails \/ RefusePlace) => GuiInv'
<1> SUFFICES ASSUME GuiInv, OpenFails \/ RefusePlace PROVE GuiInv'
  OBVIOUS
<1>1. PICK why \in {"told", "unreadable"} :
        /\ modal # <<>> /\ modal' = Append(Front(modal), Box(why))
        /\ UNCHANGED <<running, open, shown, rows, folder, status, busy, worker, posted>>
  BY DEF OpenFails, RefusePlace, Asking, window
<1>2. OneJob' /\ Queue'
  BY <1>1, JobKept
<1>3. /\ modal' \in Seq(Dialogs) /\ Stack'
      /\ \A k \in DOMAIN modal' :
           modal'[k].what \in {"save", "folder"} => ~ busy' /\ modal'[k].of = open'
  BY <1>1, Replaced
<1>4. Shapes'
  BY <1>1, <1>3 DEF GuiInv, Shapes
<1>5. RowsAreShown' /\ IdleStatus'
  BY <1>1 DEF GuiInv, RowsAreShown, IdleStatus
<1>6. JobAsAsked'
  BY <1>1, <1>3 DEF GuiInv, JobAsAsked
<1> QED BY <1>2, <1>3, <1>4, <1>5, <1>6 DEF GuiInv

\* What is asked for is messages of the open file.
LEMMA WantedIsThere ==
  ASSUME Shapes, open # "none", NEW w \in Wanted
  PROVE  w \subseteq AllMails(open) /\ w \in SUBSET Nodes
<1>1. open \in FILES
  BY DEF Shapes
<1>2. \A d \in FOLDERS : MailsIn(open, d) \subseteq AllMails(open)
  BY <1>1, NodesOfFile
<1>3. AllMails(open) \subseteq Nodes
  BY <1>1, NodesOfFile
<1>4. w \subseteq AllMails(open)
  <2>1. CASE w = AllMails(open)
    BY <2>1
  <2>2. CASE folder \in FOLDERS /\ w = MailsIn(open, folder)
    BY <2>2, <1>2
  <2>3. CASE w \in {{m \in AllMails(open) : m.nid = r.nid} : r \in rows}
    BY <2>3
  <2> QED BY <2>1, <2>2, <2>3 DEF Wanted
<1> QED BY <1>3, <1>4

\* AskOpen, Tell, AskExport and AskRebuild: a dialog comes up.
LEMMA StepAsk == GuiInv /\ (AskOpen \/ Tell \/ AskExport \/ AskRebuild) => GuiInv'
<1> SUFFICES ASSUME GuiInv, AskOpen \/ Tell \/ AskExport \/ AskRebuild PROVE GuiInv'
  OBVIOUS
<1>1. /\ modal = <<>>
      /\ UNCHANGED <<running, open, shown, rows, folder, status, busy, worker, posted>>
  BY DEF AskOpen, Tell, AskExport, AskRebuild, Input, window
<1>2. PICK d \in Dialogs :
        /\ modal' = Append(modal, d)
        /\ d.what \in {"save", "folder"} => ~ busy /\ d.of = open
        /\ d.what = "folder" => d.want \subseteq AllMails(d.of)
  <2>1. CASE AskOpen
    <3>1. [what |-> "open"] \in Dialogs
      BY DEF Dialogs
    <3> QED BY <2>1, <3>1 DEF AskOpen, Up
  <2>2. CASE Tell
    <3>1. Box("told") \in Dialogs
      BY DEF Dialogs, Box
    <3> QED BY <2>2, <3>1 DEF Tell, Up, Box
  <2>3. CASE AskExport
    <3>1. PICK w \in Wanted : Up([what |-> "folder", of |-> open, want |-> w])
      BY <2>3 DEF AskExport
    <3>2. open # "none" /\ ~ busy /\ Shapes
      BY <2>3 DEF AskExport, Ready, GuiInv
    <3>3. w \subseteq AllMails(open) /\ w \in SUBSET Nodes /\ open \in FILES
      BY <3>2, WantedIsThere DEF Shapes
    <3>4. [what |-> "folder", of |-> open, want |-> w] \in Dialogs
      BY <3>3 DEF Dialogs
    <3> QED BY <3>1, <3>2, <3>3, <3>4 DEF Up
  <2>4. CASE AskRebuild
    <3>1. open \in FILES /\ ~ busy
      BY <2>4 DEF AskRebuild, Ready, GuiInv, Shapes
    <3>2. [what |-> "save", of |-> open] \in Dialogs
      BY <3>1 DEF Dialogs
    <3> QED BY <2>4, <3>1, <3>2 DEF AskRebuild, Up
  <2> QED BY <2>1, <2>2, <2>3, <2>4
<1>3. OneJob' /\ Queue'
  BY <1>1, JobKept
<1>4. /\ modal' \in Seq(Dialogs) /\ Stack'
      /\ \A k \in DOMAIN modal' :
           modal'[k].what \in {"save", "folder"} => ~ busy' /\ modal'[k].of = open'
  BY <1>1, <1>2, Asked
<1>5. Shapes'
  BY <1>1, <1>4 DEF GuiInv, Shapes
<1>6. RowsAreShown' /\ IdleStatus'
  BY <1>1 DEF GuiInv, RowsAreShown, IdleStatus
<1>7. JobAsAsked'
  BY <1>1, <1>4 DEF GuiInv, JobAsAsked
<1> QED BY <1>3, <1>4, <1>5, <1>6, <1>7 DEF GuiInv

\* Choosing a folder shows its mails.
LEMMA StepSelectFolder == GuiInv /\ SelectFolder => GuiInv'
<1> SUFFICES ASSUME GuiInv, SelectFolder PROVE GuiInv'
  OBVIOUS
<1>1. /\ folder' \in FOLDERS /\ rows' = shown'
      /\ UNCHANGED <<running, open, status, busy, worker, posted, modal>>
  BY DEF SelectFolder
<1>2. OneJob' /\ Queue'
  BY <1>1, JobKept
<1>3. Shapes'
  BY <1>1 DEF GuiInv, Shapes
<1>4. Stack' /\ JobAsAsked'
  BY <1>1 DEF GuiInv, Stack, JobAsAsked
<1>5. RowsAreShown' /\ IdleStatus'
  BY <1>1 DEF GuiInv, RowsAreShown, IdleStatus
<1> QED BY <1>2, <1>3, <1>4, <1>5 DEF GuiInv

\* A job is only asked for and started while none is owed: the queue is empty.
LEMMA IdleQueue ==
  ASSUME GuiInv, running, ~ busy
  PROVE  worker = NoJob /\ posted = <<>>
<1>1. worker = NoJob /\ \A k \in DOMAIN posted : posted[k].what \notin Ends
  BY DEF GuiInv, OneJob
<1>2. ASSUME posted # <<>> PROVE FALSE
  <2>1. posted[Len(posted)].what \in Ends
    BY <1>1, <1>2 DEF GuiInv, Queue
  <2>2. posted \in Seq(Messages)
    BY DEF GuiInv, Shapes
  <2>3. Len(posted) \in DOMAIN posted
    BY <1>2, <2>2
  <2> QED BY <1>1, <2>1, <2>3
<1> QED BY <1>1, <1>2

\* Any job that is started is the one asked for, and the only one.
LEMMA Started ==
  ASSUME GuiInv, running, ~ busy, NEW job \in Jobs,
         worker' = job, busy' = TRUE, status' = "working",
         job.job = "export" => job.want \subseteq AllMails(job.of),
         UNCHANGED <<running, window, posted>>, modal' = <<>>
  PROVE  GuiInv'
<1>1. /\ worker' = job /\ busy' = TRUE /\ status' = "working"
      /\ UNCHANGED <<running, open, shown, rows, folder, posted>>
  BY DEF window
<1>2. posted = <<>> /\ DOMAIN posted = {} /\ Len(posted) = 0
  BY IdleQueue, Empty
<1>3. worker' # NoJob
  BY <1>1 DEF Jobs, NoJob
<1>4. modal' \in Seq(Dialogs) /\ DOMAIN modal' = {} /\ Len(modal') = 0
  BY Empty
<1>5. Shapes'
  BY <1>1, <1>4 DEF GuiInv, Shapes
<1>6. RowsAreShown' /\ IdleStatus'
  BY <1>1 DEF GuiInv, RowsAreShown, IdleStatus
<1>7. Stack'
  BY <1>4 DEF Stack
<1>8. JobAsAsked'
  BY <1>1, <1>4 DEF JobAsAsked
<1>9. OneJob'
  BY <1>1, <1>2, <1>3 DEF OneJob
<1>10. Queue'
  <2>1. MAX_POSTED \in Nat
    BY GuiAssumption
  <2>2. Len(posted') <= MAX_POSTED /\ Len(posted') <= MAX_POSTED + 1
    BY <1>1, <1>2, <2>1
  <2> QED BY <1>1, <1>2, <2>2 DEF Queue
<1> QED BY <1>5, <1>6, <1>7, <1>8, <1>9, <1>10 DEF GuiInv

\* The dialog that a job is started from was the only one.
LEMMA AskedAlone ==
  ASSUME GuiInv, modal # <<>>, Top.what \in {"save", "folder"}
  PROVE  Front(modal) = <<>>
<1>1. modal \in Seq(Dialogs)
  BY DEF GuiInv, Shapes
<1>2. /\ Top = modal[Len(modal)] /\ Len(modal) \in DOMAIN modal
      /\ Front(modal) \in Seq(Dialogs) /\ Len(Front(modal)) = Len(modal) - 1
  BY <1>1, TopAndFront DEF Top
<1>3. Len(modal) = 1
  BY <1>2 DEF GuiInv, Stack
<1> QED BY <1>2, <1>3

\* The three commands that start a job, which they do only when none is running.
LEMMA StepStart == GuiInv /\ (StartExport \/ StartRebuild \/ StartFind) => GuiInv'
<1> SUFFICES ASSUME GuiInv, StartExport \/ StartRebuild \/ StartFind PROVE GuiInv'
  OBVIOUS
<1>1. running /\ UNCHANGED <<running, window, posted>>
  BY DEF StartExport, StartRebuild, StartFind, Input
<1>2. CASE StartFind
  <2> DEFINE job == [job |-> "find", of |-> open]
  <2>1. /\ modal' = <<>> /\ ~ busy /\ open # "none"
        /\ worker' = job /\ busy' = TRUE /\ status' = "working"
    BY <1>2 DEF StartFind, Input, Ready, Spawn
  <2>2. job \in Jobs /\ job.job # "export"
    BY <2>1 DEF Jobs, GuiInv, Shapes
  <2> HIDE DEF job
  <2> QED BY <1>1, <2>1, <2>2, Started
<1>3. CASE StartExport \/ StartRebuild
  <2>1. /\ modal # <<>> /\ modal' = Front(modal)
        /\ Top.what \in {"save", "folder"}
    BY <1>3 DEF StartExport, StartRebuild, Asking
  <2> modal' = <<>>
    BY <2>1, AskedAlone
  <2>2. /\ Top \in Dialogs /\ ~ busy /\ Top.of = open
        /\ Top.what = "folder" => Top.want \subseteq AllMails(open)
    <3>1. /\ modal \in Seq(Dialogs)
          /\ \A k \in DOMAIN modal :
               /\ modal[k].what \in {"save", "folder"} => ~ busy /\ modal[k].of = open
               /\ modal[k].what = "folder" =>
                    modal[k].want \subseteq AllMails(modal[k].of)
      BY DEF GuiInv, Shapes, Stack, JobAsAsked
    <3>2. Top \in Dialogs /\ Len(modal) \in DOMAIN modal /\ Top = modal[Len(modal)]
      BY <2>1, <3>1, TopAndFront DEF Top
    <3> QED BY <2>1, <3>1, <3>2
  <2>3. open \in FILES /\ (Top.what = "folder" => Top.want \in SUBSET Nodes)
    BY <2>1, <2>2 DEF Dialogs
  <2>4. CASE StartExport
    <3> DEFINE job == [job |-> "export", of |-> open, want |-> Top.want]
    <3>1. /\ Top.what = "folder"
          /\ worker' = job /\ busy' = TRUE /\ status' = "working"
      BY <2>4 DEF StartExport, Asking, Spawn
    <3>2. job \in Jobs /\ job.want \subseteq AllMails(job.of)
      BY <2>2, <2>3, <3>1 DEF Jobs
    <3> HIDE DEF job
    <3> QED BY <1>1, <2>1, <2>2, <3>1, <3>2, Started
  <2>5. CASE StartRebuild
    <3> DEFINE job == [job |-> "rebuild", of |-> open]
    <3>1. worker' = job /\ busy' = TRUE /\ status' = "working"
      BY <2>5 DEF StartRebuild, Spawn
    <3>2. job \in Jobs /\ job.job # "export"
      BY <2>3 DEF Jobs
    <3> HIDE DEF job
    <3> QED BY <1>1, <2>1, <2>2, <3>1, <3>2, Started
  <2> QED BY <1>3, <2>4, <2>5
<1> QED BY <1>2, <1>3

-----------------------------------------------------------------------------
(* What the worker does.                                                    *)

\* A job that runs is owed to the window, and its end is not in the queue.
LEMMA Owed ==
  ASSUME GuiInv, Working
  PROVE  /\ running /\ busy /\ worker \in Jobs /\ worker # NoJob
         /\ posted \in Seq(Messages) /\ Len(posted) <= MAX_POSTED
         /\ \A k \in DOMAIN posted : posted[k].what \notin Ends
         /\ \A k \in DOMAIN modal : modal[k].what \notin {"save", "folder"}
<1>1. running /\ worker \notin {NoJob, Dead}
  BY DEF Working
<1>2. worker \in Jobs /\ posted \in Seq(Messages)
  BY <1>1 DEF GuiInv, Shapes
<1>3. busy /\ \A k \in DOMAIN posted : posted[k].what \notin Ends
  BY <1>1 DEF GuiInv, OneJob
<1>4. Len(posted) <= MAX_POSTED
  BY <1>1 DEF GuiInv, Queue
<1>5. \A k \in DOMAIN modal : modal[k].what \notin {"save", "folder"}
  BY <1>3 DEF GuiInv, JobAsAsked
<1> QED BY <1>1, <1>2, <1>3, <1>4, <1>5

\* The job posts how far it is.
LEMMA StepProgress == GuiInv /\ Progress => GuiInv'
<1> SUFFICES ASSUME GuiInv, Progress PROVE GuiInv'
  OBVIOUS
<1> DEFINE m == [what |-> "progress"]
<1>1. /\ Working /\ Len(posted) < MAX_POSTED /\ posted' = Append(posted, m)
      /\ UNCHANGED <<running, open, shown, rows, folder, status, busy, worker, modal>>
  BY DEF Progress, window
<1>2. /\ running /\ busy /\ worker # NoJob /\ posted \in Seq(Messages)
      /\ \A k \in DOMAIN posted : posted[k].what \notin Ends
  BY <1>1, Owed
<1>3. m \in Messages /\ m.what \notin Ends
  BY DEF Messages, Ends
<1> HIDE DEF m
<1>4. /\ posted' \in Seq(Messages) /\ Len(posted') = Len(posted) + 1
      /\ Len(posted) \in Nat
      /\ \A k \in DOMAIN posted' : posted'[k].what \notin Ends
  BY <1>1, <1>2, <1>3, OnTop
<1>5. OneJob'
  BY <1>1, <1>2, <1>4 DEF OneJob
<1>6. Queue'
  <2>1. MAX_POSTED \in Nat
    BY GuiAssumption
  <2>2. Len(posted') <= MAX_POSTED /\ Len(posted') <= MAX_POSTED + 1
    BY <1>1, <1>4, <2>1
  <2> QED BY <1>1, <1>2, <2>2 DEF Queue
<1>7. Shapes'
  BY <1>1, <1>4 DEF GuiInv, Shapes
<1>8. RowsAreShown' /\ IdleStatus'
  BY <1>1 DEF GuiInv, RowsAreShown, IdleStatus
<1>9. Stack' /\ JobAsAsked'
  BY <1>1 DEF GuiInv, Stack, JobAsAsked
<1> QED BY <1>5, <1>6, <1>7, <1>8, <1>9 DEF GuiInv

\* The job posts its answer and ends.
LEMMA StepComplete == GuiInv /\ Complete => GuiInv'
<1> SUFFICES ASSUME GuiInv, Complete PROVE GuiInv'
  OBVIOUS
<1>1. PICK m \in Results(worker) : posted' = Append(posted, m)
  BY DEF Complete
<1>2. /\ Working /\ worker' = NoJob
      /\ UNCHANGED <<running, open, shown, rows, folder, status, busy, modal>>
  BY DEF Complete, window
<1>3. /\ running /\ busy /\ worker \in Jobs /\ posted \in Seq(Messages)
      /\ Len(posted) <= MAX_POSTED
      /\ \A k \in DOMAIN posted : posted[k].what \notin Ends
  BY <1>2, Owed
<1>4. m \in Messages /\ m.what \in Ends
  <2>1. worker.of \in FILES
    BY <1>3 DEF Jobs
  <2>2. AllMails(worker.of) \subseteq Nodes
    BY <2>1, NodesOfFile
  <2>3. CASE m = [what |-> "text"]
    BY <2>3 DEF Messages, Ends
  <2>4. CASE \E h \in SUBSET AllMails(worker.of) : m = [what |-> "found", hits |-> h]
    <3>1. PICK h \in SUBSET AllMails(worker.of) : m = [what |-> "found", hits |-> h]
      BY <2>4
    <3>2. h \in SUBSET Nodes
      BY <2>2
    <3> QED BY <3>1, <3>2 DEF Messages, Ends
  <2> QED BY <2>3, <2>4 DEF Results
<1>5. /\ posted' \in Seq(Messages) /\ Len(posted') = Len(posted) + 1
      /\ Len(posted) \in Nat /\ posted'[Len(posted) + 1] = m
      /\ DOMAIN posted' = DOMAIN posted \union {Len(posted) + 1}
      /\ \A k \in DOMAIN posted : posted'[k] = posted[k]
  BY <1>1, <1>3, <1>4, OnTop
<1>6. OneJob'
  <2>1. \E k \in DOMAIN posted' : posted'[k].what \in Ends
    BY <1>4, <1>5
  <2>2. \A k \in DOMAIN posted' : posted'[k].what \in Ends => k = Len(posted')
    BY <1>3, <1>5
  <2> QED BY <1>2, <1>3, <2>1, <2>2 DEF OneJob
<1>7. Queue'
  <2>1. MAX_POSTED \in Nat
    BY GuiAssumption
  <2>2. Len(posted') <= MAX_POSTED + 1
    BY <1>3, <1>5, <2>1
  <2>3. posted'[Len(posted')].what \in Ends
    BY <1>4, <1>5
  <2> QED BY <1>2, <2>2, <2>3 DEF Queue
<1>8. Shapes'
  BY <1>2, <1>5 DEF GuiInv, Shapes
<1>9. RowsAreShown' /\ IdleStatus'
  BY <1>2 DEF GuiInv, RowsAreShown, IdleStatus
<1>10. Stack'
  BY <1>2 DEF GuiInv, Stack
<1>11. JobAsAsked'
  BY <1>2 DEF GuiInv, JobAsAsked, NoJob
<1> QED BY <1>6, <1>7, <1>8, <1>9, <1>10, <1>11 DEF GuiInv

\* The job dies and posts nothing.
LEMMA StepPanic == GuiInv /\ Panic => GuiInv'
<1> SUFFICES ASSUME GuiInv, Panic PROVE GuiInv'
  OBVIOUS
<1>1. /\ Working /\ worker' = Dead
      /\ UNCHANGED <<running, open, shown, rows, folder, status, busy, posted, modal>>
  BY DEF Panic, window
<1>2. /\ running /\ busy /\ Len(posted) <= MAX_POSTED
      /\ \A k \in DOMAIN posted : posted[k].what \notin Ends
  BY <1>1, Owed
<1>3. Dead # NoJob
  BY DEF Dead, NoJob
<1>4. OneJob'
  BY <1>1, <1>2, <1>3 DEF OneJob
<1>5. Queue'
  BY <1>1, <1>2, <1>3 DEF GuiInv, Queue
<1>6. Shapes'
  BY <1>1 DEF GuiInv, Shapes
<1>7. RowsAreShown' /\ IdleStatus' /\ Stack'
  BY <1>1 DEF GuiInv, RowsAreShown, IdleStatus, Stack
<1>8. JobAsAsked'
  BY <1>1 DEF GuiInv, JobAsAsked, Dead
<1> QED BY <1>4, <1>5, <1>6, <1>7, <1>8 DEF GuiInv

-----------------------------------------------------------------------------
(* What is delivered.                                                       *)

\* While an end is in the queue it is the last thing in it, the window waits
\* for it, and what is up is nothing a job could be started from.
LEMMA Awaited ==
  ASSUME GuiInv, running, posted # <<>>
  PROVE  /\ busy /\ Head(posted) \in Messages /\ Tail(posted) \in Seq(Messages)
         /\ Len(Tail(posted)) = Len(posted) - 1 /\ Len(posted) \in Nat \ {0}
         /\ \A k \in DOMAIN Tail(posted) : Tail(posted)[k] = posted[k + 1]
         /\ Head(posted).what \in Ends => worker = NoJob /\ Tail(posted) = <<>>
<1>1. posted \in Seq(Messages)
  BY DEF GuiInv, Shapes
<1>2. /\ Head(posted) \in Messages /\ Head(posted) = posted[1]
      /\ Len(posted) \in Nat \ {0} /\ Tail(posted) \in Seq(Messages)
      /\ Len(Tail(posted)) = Len(posted) - 1
      /\ \A k \in DOMAIN Tail(posted) : Tail(posted)[k] = posted[k + 1]
  BY <1>1, Behind
<1>3. /\ busy <=> worker # NoJob \/ \E k \in DOMAIN posted : posted[k].what \in Ends
      /\ \A k \in DOMAIN posted :
           posted[k].what \in Ends => worker = NoJob /\ k = Len(posted)
  BY DEF GuiInv, OneJob
<1>4. busy
  <2>1. Len(posted) \in DOMAIN posted
    BY <1>1, <1>2
  <2> QED BY <1>3, <2>1 DEF GuiInv, Queue
<1>5. Head(posted).what \in Ends => worker = NoJob /\ Tail(posted) = <<>>
  <2> SUFFICES ASSUME Head(posted).what \in Ends
               PROVE  worker = NoJob /\ Tail(posted) = <<>>
    OBVIOUS
  <2>1. 1 \in DOMAIN posted
    BY <1>1, <1>2
  <2>2. worker = NoJob /\ Len(posted) = 1
    BY <1>2, <1>3, <2>1
  <2>3. Tail(posted) \in Seq(Messages) /\ Len(Tail(posted)) = 0
    BY <1>2, <2>2
  <2>4. Tail(posted) = <<>>
    BY <2>3, NoneLeft
  <2> QED BY <2>2, <2>4
<1> QED BY <1>2, <1>4, <1>5

\* The window takes a progress message.
LEMMA StepDeliverProgress == GuiInv /\ DeliverProgress => GuiInv'
<1> SUFFICES ASSUME GuiInv, DeliverProgress PROVE GuiInv'
  OBVIOUS
<1>1. /\ running /\ posted # <<>> /\ Head(posted).what = "progress"
      /\ status' = "working" /\ posted' = Tail(posted)
      /\ UNCHANGED <<running, open, shown, rows, folder, busy, worker, modal>>
  BY DEF DeliverProgress, window
<1>2. /\ busy /\ posted \in Seq(Messages) /\ posted' \in Seq(Messages)
      /\ Head(posted) = posted[1]
      /\ Len(posted') = Len(posted) - 1 /\ Len(posted) \in Nat \ {0}
      /\ \A k \in DOMAIN posted' : posted'[k] = posted[k + 1]
  <2>1. posted \in Seq(Messages)
    BY DEF GuiInv, Shapes
  <2> QED BY <1>1, <2>1, Awaited
<1>3. DOMAIN posted = 1 .. Len(posted) /\ DOMAIN posted' = 1 .. Len(posted) - 1
  BY <1>2
<1>4. posted[1].what \notin Ends
  BY <1>1, <1>2 DEF Ends
<1>5. OneJob'
  <2>1. /\ busy <=> worker # NoJob \/ \E k \in DOMAIN posted : posted[k].what \in Ends
        /\ \A k \in DOMAIN posted :
             posted[k].what \in Ends => worker = NoJob /\ k = Len(posted)
    BY <1>1 DEF GuiInv, OneJob
  <2>2. worker # NoJob \/ \E k \in DOMAIN posted' : posted'[k].what \in Ends
    <3>1. CASE worker # NoJob
      BY <3>1
    <3>2. CASE worker = NoJob
      <4>1. PICK k \in DOMAIN posted : posted[k].what \in Ends
        BY <1>2, <2>1, <3>2
      <4>2. k - 1 \in DOMAIN posted' /\ posted'[k - 1] = posted[k]
        BY <1>2, <1>3, <1>4, <4>1
      <4> QED BY <4>1, <4>2
    <3> QED BY <3>1, <3>2
  <2>3. ASSUME NEW k \in DOMAIN posted', posted'[k].what \in Ends
        PROVE  worker = NoJob /\ k = Len(posted')
    <3>1. k + 1 \in DOMAIN posted /\ posted[k + 1].what \in Ends /\ k \in Nat
      BY <1>2, <1>3, <2>3
    <3>2. worker = NoJob /\ k + 1 = Len(posted)
      BY <2>1, <3>1
    <3> QED BY <1>2, <3>1, <3>2
  <2> QED BY <1>1, <1>2, <2>2, <2>3 DEF OneJob
<1>6. Queue'
  <2>1. MAX_POSTED \in Nat
    BY GuiAssumption
  <2>2. /\ Len(posted) <= MAX_POSTED + 1
        /\ worker # NoJob => Len(posted) <= MAX_POSTED
        /\ worker # NoJob \/ posted[Len(posted)].what \in Ends
    BY <1>1 DEF GuiInv, Queue
  <2>3. posted' # <<>> => worker # NoJob \/ posted'[Len(posted')].what \in Ends
    <3> SUFFICES ASSUME posted' # <<>>
                 PROVE  worker # NoJob \/ posted'[Len(posted')].what \in Ends
      OBVIOUS
    <3>1. Len(posted') \in DOMAIN posted' /\ Len(posted') + 1 = Len(posted)
      BY <1>2, <1>3
    <3>2. posted'[Len(posted')] = posted[Len(posted)]
      BY <1>2, <3>1
    <3> QED BY <2>2, <3>2
  <2>4. /\ Len(posted') <= MAX_POSTED + 1
        /\ worker # NoJob => Len(posted') <= MAX_POSTED
    BY <1>2, <2>1, <2>2
  <2> QED BY <1>1, <2>3, <2>4 DEF Queue
<1>7. Shapes'
  BY <1>1, <1>2 DEF GuiInv, Shapes
<1>8. RowsAreShown' /\ IdleStatus'
  BY <1>1, <1>2 DEF GuiInv, RowsAreShown, IdleStatus
<1>9. Stack' /\ JobAsAsked'
  BY <1>1 DEF GuiInv, Stack, JobAsAsked
<1> QED BY <1>5, <1>6, <1>7, <1>8, <1>9 DEF GuiInv

\* The end of a job leaves the queue empty and no job.
LEMMA Over ==
  ASSUME GuiInv, running, posted # <<>>, Head(posted).what \in Ends,
         posted' = Tail(posted), busy' = FALSE, UNCHANGED worker
  PROVE  posted' \in Seq(Messages) /\ OneJob' /\ Queue'
<1>1. worker' = NoJob /\ posted' = <<>>
  BY Awaited
<1>2. posted' \in Seq(Messages) /\ DOMAIN posted' = {} /\ Len(posted') = 0
  BY <1>1, Empty
<1>3. OneJob'
  BY <1>1, <1>2 DEF OneJob
<1>4. Queue'
  <2>1. MAX_POSTED \in Nat
    BY GuiAssumption
  <2>2. Len(posted') <= MAX_POSTED + 1
    BY <1>2, <2>1
  <2> QED BY <1>1, <2>2 DEF Queue
<1> QED BY <1>2, <1>3, <1>4

\* The window takes the end of an export or a rebuild.
LEMMA StepDeliverText == GuiInv /\ DeliverText => GuiInv'
<1> SUFFICES ASSUME GuiInv, DeliverText PROVE GuiInv'
  OBVIOUS
<1> DEFINE b == Box("result")
<1>1. /\ running /\ posted # <<>> /\ Head(posted).what \in Ends
      /\ busy' = FALSE /\ status' = "finished" /\ posted' = Tail(posted)
      /\ modal' = Append(modal, b)
      /\ UNCHANGED <<running, open, shown, rows, folder, worker>>
  BY DEF DeliverText, window, Up, Ends
<1>2. posted' \in Seq(Messages) /\ OneJob' /\ Queue'
  BY <1>1, Over
<1>3. b \in Dialogs /\ b.what = "box"
  BY DEF Box, Dialogs
<1> HIDE DEF b
<1>4. busy
  BY <1>1, Awaited
<1>5. /\ modal \in Seq(Dialogs) /\ Len(modal) \in Nat /\ Len(modal) <= 1
      /\ \A k \in DOMAIN modal : modal[k].what \notin {"save", "folder"}
  <2>1. /\ modal \in Seq(Dialogs) /\ Len(modal) <= 2 /\ Len(modal) # 2
        /\ \A k \in DOMAIN modal : modal[k].what \notin {"save", "folder"}
    BY <1>4 DEF GuiInv, Shapes, Stack, JobAsAsked
  <2>2. Len(modal) \in Nat
    BY <2>1
  <2>3. \A n \in Nat : n <= 2 /\ n # 2 => n <= 1
    OBVIOUS
  <2> QED BY <2>1, <2>2, <2>3
<1>6. /\ modal' \in Seq(Dialogs) /\ Len(modal') = Len(modal) + 1
      /\ modal'[Len(modal) + 1] = b
      /\ DOMAIN modal' = DOMAIN modal \union {Len(modal) + 1}
      /\ \A k \in DOMAIN modal : modal'[k] = modal[k]
  BY <1>1, <1>3, <1>5, OnTop
<1>7. \A k \in DOMAIN modal' : modal'[k].what \notin {"save", "folder"}
  BY <1>3, <1>5, <1>6
<1>8. Len(modal') <= 2
  BY <1>5, <1>6
<1>9. Stack'
  BY <1>1, <1>7, <1>8 DEF Stack
<1>10. JobAsAsked'
  BY <1>1, <1>7 DEF GuiInv, JobAsAsked
<1>11. RowsAreShown' /\ IdleStatus'
  BY <1>1 DEF GuiInv, RowsAreShown, IdleStatus
<1>12. Shapes'
  BY <1>1, <1>2, <1>6 DEF GuiInv, Shapes
<1> QED BY <1>2, <1>9, <1>10, <1>11, <1>12 DEF GuiInv

\* The window takes what a search found.
LEMMA StepDeliverHits == GuiInv /\ DeliverHits => GuiInv'
<1> SUFFICES ASSUME GuiInv, DeliverHits PROVE GuiInv'
  OBVIOUS
<1>1. /\ running /\ posted # <<>> /\ Head(posted).what \in Ends
      /\ busy' = FALSE /\ status' = "finished" /\ posted' = Tail(posted)
      /\ rows' = shown' /\ folder' = 0
      /\ UNCHANGED <<running, open, worker, modal>>
  BY DEF DeliverHits, ShowHits, Ends
<1>2. posted' \in Seq(Messages) /\ OneJob' /\ Queue'
  BY <1>1, Over
<1>3. Stack' /\ JobAsAsked'
  BY <1>1 DEF GuiInv, Stack, JobAsAsked
<1>4. RowsAreShown' /\ IdleStatus'
  BY <1>1 DEF RowsAreShown, IdleStatus
<1>5. Shapes'
  BY <1>1, <1>2 DEF GuiInv, Shapes
<1> QED BY <1>2, <1>3, <1>4, <1>5 DEF GuiInv

\* The window is closed.
LEMMA StepQuit == GuiInv /\ Quit => GuiInv'
<1> SUFFICES ASSUME GuiInv, Quit PROVE GuiInv'
  OBVIOUS
<1>1. /\ running' = FALSE /\ worker' = NoJob /\ posted' = <<>>
      /\ UNCHANGED <<open, shown, rows, folder, status, busy, modal>>
  BY DEF Quit, window
<1>2. posted' \in Seq(Messages) /\ Len(posted') = 0
  BY <1>1, Empty
<1>3. Shapes'
  BY <1>1, <1>2 DEF GuiInv, Shapes
<1>4. RowsAreShown' /\ IdleStatus' /\ OneJob' /\ Stack'
  BY <1>1 DEF GuiInv, RowsAreShown, IdleStatus, OneJob, Stack
<1>5. JobAsAsked'
  BY <1>1 DEF GuiInv, JobAsAsked, NoJob
<1>6. Queue'
  <2>1. MAX_POSTED \in Nat
    BY GuiAssumption
  <2>2. Len(posted') <= MAX_POSTED + 1
    BY <1>2, <2>1
  <2> QED BY <1>1, <2>2 DEF Queue
<1> QED BY <1>3, <1>4, <1>5, <1>6 DEF GuiInv

-----------------------------------------------------------------------------
\* Every step keeps the invariant.
LEMMA GuiStep == GuiInv /\ [Next]_vars => GuiInv'
<1> SUFFICES ASSUME GuiInv, [Next]_vars PROVE GuiInv'
  OBVIOUS
<1>1. CASE User
  <2>1. CASE OpenFile
    BY <2>1, StepOpenFile
  <2>2. CASE Cancel \/ CloseBox
    BY <2>2, StepClose
  <2>3. CASE OpenFails \/ RefusePlace
    BY <2>3, StepReplace
  <2>4. CASE AskOpen \/ Tell \/ AskExport \/ AskRebuild
    BY <2>4, StepAsk
  <2>5. CASE SelectFolder
    BY <2>5, StepSelectFolder
  <2>6. CASE StartExport \/ StartRebuild \/ StartFind
    BY <2>6, StepStart
  <2>7. CASE Quit
    BY <2>7, StepQuit
  <2> QED BY <1>1, <2>1, <2>2, <2>3, <2>4, <2>5, <2>6, <2>7 DEF User
<1>2. CASE Progress
  BY <1>2, StepProgress
<1>3. CASE Complete
  BY <1>3, StepComplete
<1>4. CASE Panic
  BY <1>4, StepPanic
<1>5. CASE Deliver
  BY <1>5, StepDeliverProgress, StepDeliverText, StepDeliverHits DEF Deliver
<1>6. CASE UNCHANGED vars
  BY <1>6 DEF vars, window, GuiInv, Shapes, RowsAreShown, JobAsAsked, OneJob,
              IdleStatus, Stack, Queue
<1> QED BY <1>1, <1>2, <1>3, <1>4, <1>5, <1>6 DEF Next

(* Whatever the user does, and whenever the worker's messages come, the window
   and the worker stay in step: GuiInv holds in every state. *)
THEOREM GuiInvariant == Spec => []GuiInv
<1> QED BY InitGui, GuiStep, PTL DEF Spec

(* Every variable has its type, the queue holds at most one message more than
   the bound on progress, and at most two dialogs are up (TypeOK). *)
THEOREM GuiTypes == Spec => []TypeOK
<1>1. GuiInv => TypeOK
  <2> SUFFICES ASSUME GuiInv PROVE TypeOK
    OBVIOUS
  <2>1. worker \in {NoJob, Dead} \/ worker \in Jobs
    BY DEF GuiInv, Shapes
  <2>2. worker \in Jobs => worker.job \in {"export", "rebuild", "find"} /\ worker.of \in FILES
    BY DEF Jobs
  <2> QED BY <2>1, <2>2 DEF GuiInv, Shapes, Stack, Queue, TypeOK
<1> QED BY <1>1, GuiInvariant, PTL

(* spawn_job and on_job: the window is busy exactly while the end of a job is
   owed to it, there is never a second job, and the end comes last (OneJob). *)
THEOREM OneJobAtATime == Spec => []OneJob
<1>1. GuiInv => OneJob
  BY DEF GuiInv
<1> QED BY <1>1, GuiInvariant, PTL

(* cmd_export and cmd_rebuild: what Ready found before a dialog holds when the
   dialog is answered, and a worker exports messages of its own file
   (JobAsAsked). *)
THEOREM JobsAsAsked == Spec => []JobAsAsked
<1>1. GuiInv => JobAsAsked
  BY DEF GuiInv
<1> QED BY <1>1, GuiInvariant, PTL

(* on_job: a window without a job does not say that one is working
   (IdleStatus). *)
THEOREM StatusWhenIdle == Spec => []IdleStatus
<1>1. GuiInv => IdleStatus
  BY DEF GuiInv
<1> QED BY <1>1, GuiInvariant, PTL

(* fill_list and show_hits: the rows of the list are the nodes App.shown has
   (RowsAreShown). *)
THEOREM RowsMatchShown == Spec => []RowsAreShown
<1>1. GuiInv => RowsAreShown
  BY DEF GuiInv
<1> QED BY <1>1, GuiInvariant, PTL
=============================================================================
