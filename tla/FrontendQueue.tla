--------------------------- MODULE FrontendQueue ---------------------------
(***************************************************************************)
(* The queue of Simple Theora Encoder (src/frontend). The GUI thread adds  *)
(* and removes videos, starts the encoding and closes the window; a thread *)
(* of its own, encodeQueue, takes one video after the other and runs       *)
(* ffmpeg2theora for it in a child process. Both use the same dictionary,  *)
(* the same list control and the same flags, without a lock.               *)
(*                                                                         *)
(* An action is what a thread does between two looks at shared state. A    *)
(* video is its number in the order of adding; the thread keeps hold of it *)
(* when it was removed. Rows are numbered from 1. The texts shown, and the *)
(* thread that reads them from the child, are left out.                    *)
(***************************************************************************)
EXTENDS Integers, SequencesExt

CONSTANT MaxItems   \* bound: videos added

ASSUME FrontendAssumption == MaxItems \in Nat

VARIABLES
    items,          \* what is known of every video added
    queuedata,      \* the videos in the queue by their key
    rows,           \* the list control: the key of every row
    currentItem,    \* the selected row, 0 when Remove is disabled
    encodeEnabled,  \* the Encode button
    encoding, quit,
    gui,            \* "idle", or the next step of a handler of the GUI thread
    subject,        \* the video it is about
    pending,        \* keys OnClose has still to cancel
    thread,         \* "idle", "dead", or the next step of encodeQueue
    next,           \* its video
    removed,        \* history: videos taken out of the queue
    late,           \* history: videos whose adding found `encoding` set by a
                    \*   thread that was about to clear it
    missed,         \* history: videos removed or passed by OnClose without a
                    \*   process to be cancelled
    started,        \* history: the videos in the order of their processes
    afterQuit,      \* history: processes started after quit was set
    torn,           \* history: the thread died over a list that was being changed
    raised          \* history: it died because Popen or wait() raised

list == <<queuedata, rows, currentItem>>
history == <<removed, late, missed, started, afterQuit, torn, raised>>
guiState == <<gui, subject, pending>>
vars == <<items, list, encodeEnabled, encoding, quit, guiState, thread, next, history>>

-----------------------------------------------------------------------------
Init ==
    /\ items = << >> /\ queuedata = << >> /\ rows = << >> /\ currentItem = 0
    /\ encodeEnabled = FALSE /\ encoding = FALSE /\ quit = FALSE
    /\ gui = "idle" /\ subject = 0 /\ pending = {}
    /\ thread = "idle" /\ next = 0
    /\ removed = {} /\ late = {} /\ missed = {} /\ started = << >> /\ afterQuit = 0
    /\ torn = FALSE /\ raised = FALSE

(* The numbers of a set in ascending order.                                    *)
Ascending(f) == \A r, s \in DOMAIN f : r < s => f[r] < f[s]

Listing(S) == CHOOSE f \in [1 .. Cardinality(S) -> S] : Ascending(f)

(* The keys in the order of queuedata.items(): ascending, as Python 2 lists    *)
(* integers that are below the size of the dictionary's table (8 at least).    *)
Keys == Listing(DOMAIN queuedata)

Reaped(id) == items[id].child = "reaped"

-----------------------------------------------------------------------------
(* The GUI thread. *)

(* Mutant: keys are counted.                                                   *)
NewKeyCounted == Cardinality(DOMAIN queuedata) + 1

NewKey == Max(DOMAIN queuedata \cup {0}) + 1

(* Mutant: rows are counted from 0 here.                                       *)
NewRowBelow == Len(rows)

NewRow == Len(rows) + 1

(* OnClickAdd, addItemToQueue: the video is in the queue before its row is in  *)
(* the list.                                                                   *)
Add ==
    /\ gui = "idle" /\ Len(items) < MaxItems
    /\ items' = Append(items, [key |-> NewKey, itemID |-> NewRow, encoded |-> FALSE,
                               p |-> FALSE, child |-> "none"])
    /\ queuedata' = [k \in DOMAIN queuedata \cup {NewKey} |->
                       IF k = NewKey THEN Len(items) + 1 ELSE queuedata[k]]
    /\ subject' = Len(items) + 1
    /\ gui' = "show"
    /\ UNCHANGED <<rows, currentItem, encodeEnabled, encoding, quit, pending, thread, next, history>>

(* The very first one is shown by initializeUploadQueue, which selects it.     *)
Show ==
    /\ gui = "show"
    /\ rows' = Append(rows, items[subject].key)
    /\ currentItem' = IF subject = 1 THEN 1 ELSE currentItem
    /\ gui' = "offer"
    /\ UNCHANGED <<items, queuedata, encodeEnabled, encoding, quit, subject, pending, thread, next,
                   history>>

(* if not self.encoding: self.buttonEncode.Enable()                            *)
Offer ==
    /\ gui = "offer"
    /\ IF encoding
       THEN /\ late' = IF thread = "end" THEN late \cup {subject} ELSE late
            /\ UNCHANGED encodeEnabled
       ELSE encodeEnabled' = TRUE /\ UNCHANGED late
    /\ gui' = "idle"
    /\ UNCHANGED <<items, list, encoding, quit, subject, pending, thread, next,
                   removed, missed, started, afterQuit, torn, raised>>

(* OnItemSelected                                                              *)
Select ==
    /\ gui = "idle"
    /\ \E r \in DOMAIN rows : currentItem' = r
    /\ UNCHANGED <<items, queuedata, rows, encodeEnabled, encoding, quit, guiState, thread, next,
                   history>>

(* OnClickRemove: the video's cancel(), if it has a process, sends a SIGTERM.  *)
(* For a process that was waited for that raises, and the handler is over, as  *)
(* it is for a row without a video.                                            *)
ClickRemove ==
    /\ gui = "idle" /\ currentItem \in DOMAIN rows /\ rows[currentItem] \in DOMAIN queuedata
    /\ LET id == queuedata[rows[currentItem]]
       IN  /\ ~Reaped(id)
           /\ subject' = id
           /\ gui' = IF items[id].p THEN "cancel" ELSE "delete"
           /\ missed' = IF items[id].p THEN missed ELSE missed \cup {id}
    /\ UNCHANGED <<items, list, encodeEnabled, encoding, quit, pending, thread, next,
                   removed, late, started, afterQuit, torn, raised>>

(* Mutant: the process is neither waited for nor killed.                       *)
CancelledNot == UNCHANGED items

(* cancel() waits for the process and at last sends a SIGKILL. Its poll() may  *)
(* get the status of the process before the thread's wait() does.              *)
Cancelled ==
    \E status \in {"exited", "reaped"} :
        items' = [items EXCEPT ![subject].child = IF @ = "reaped" THEN @ ELSE status]

EndCancel ==
    /\ gui = "cancel"
    /\ Cancelled
    /\ gui' = "delete"
    /\ UNCHANGED <<list, encodeEnabled, encoding, quit, subject, pending, thread, next, history>>

Delete ==
    /\ gui = "delete"
    /\ queuedata' = [k \in DOMAIN queuedata \ {items[subject].key} |-> queuedata[k]]
    /\ removed' = removed \cup {subject}
    /\ gui' = "clear"
    /\ UNCHANGED <<items, rows, currentItem, encodeEnabled, encoding, quit, subject, pending,
                   thread, next, late, missed, started, afterQuit, torn, raised>>

(* initializeUploadQueue: the list is cleared, then filled, the rows numbered. *)
Clear ==
    /\ gui = "clear"
    /\ rows' = << >>
    /\ gui' = "fill"
    /\ UNCHANGED <<items, queuedata, currentItem, encodeEnabled, encoding, quit, subject, pending,
                   thread, next, history>>

Fill ==
    /\ gui = "fill"
    /\ rows' = Keys
    /\ items' = [id \in DOMAIN items |->
                    IF \E r \in DOMAIN Keys : queuedata[Keys[r]] = id
                    THEN [items[id] EXCEPT
                             !.itemID = CHOOSE r \in DOMAIN Keys : queuedata[Keys[r]] = id]
                    ELSE items[id]]
    /\ currentItem' = IF Keys = << >> THEN 0 ELSE currentItem
    /\ gui' = "idle"
    /\ UNCHANGED <<queuedata, encodeEnabled, encoding, quit, subject, pending, thread, next, history>>

(* OnEncode                                                                    *)
Encode ==
    /\ gui = "idle" /\ encodeEnabled
    /\ ~encoding
    /\ encoding' = TRUE /\ encodeEnabled' = FALSE
    /\ thread' = "next"
    /\ UNCHANGED <<items, list, quit, guiState, next, history>>

(* OnClose, confirmed if videos are still encoded.                             *)
Close ==
    /\ gui = "idle"
    /\ quit' = TRUE
    /\ pending' = DOMAIN queuedata
    /\ gui' = "close"
    /\ UNCHANGED <<items, list, encodeEnabled, encoding, subject, thread, next, history>>

(* cancel() for every video; what it raises is passed over.                    *)
CloseItem ==
    /\ gui = "close"
    /\ \E k \in pending :
          LET id == queuedata[k]
          IN  /\ pending' = pending \ {k}
              /\ subject' = id
              /\ missed' = IF items[id].p THEN missed ELSE missed \cup {id}
              /\ gui' = IF items[id].p /\ ~Reaped(id) THEN "kill" ELSE "close"
    /\ UNCHANGED <<items, list, encodeEnabled, encoding, quit, thread, next,
                   removed, late, started, afterQuit, torn, raised>>

EndKill ==
    /\ gui = "kill"
    /\ Cancelled
    /\ gui' = "close"
    /\ UNCHANGED <<list, encodeEnabled, encoding, quit, subject, pending, thread, next, history>>

Destroy ==
    /\ gui = "close" /\ pending = {}
    /\ gui' = "closed"
    /\ UNCHANGED <<items, list, encodeEnabled, encoding, quit, subject, pending, thread, next, history>>

-----------------------------------------------------------------------------
(* The encoding thread. *)

(* Mutant: the search goes on behind the last one.                             *)
WaitingBehind(k) ==
    ~items[queuedata[k]].encoded /\ (next # 0 => k > items[next].key)

Waiting(k) == ~items[queuedata[k]].encoded

(* Mutant: the flag is not looked at.                                          *)
QuittingNever == FALSE

Quitting == quit

(* nextItem, in the order of the keys, and the condition of the loop.          *)
Pick ==
    /\ thread = "next"
    /\ LET waiting == {k \in DOMAIN queuedata : Waiting(k)}
       IN  IF waiting = {} \/ Quitting
           THEN thread' = "end" /\ UNCHANGED next
           ELSE thread' = "begin" /\ next' = queuedata[Min(waiting)]
    /\ UNCHANGED <<items, list, encodeEnabled, encoding, quit, guiState, history>>

(* setItemStatus(item['itemID'], ...) finds a row, and under its key a video;  *)
(* else it raises, as it does when the window is gone, and the thread is over. *)
RowFound ==
    LET r == items[next].itemID
    IN  gui # "closed" /\ r \in DOMAIN rows /\ rows[r] \in DOMAIN queuedata

Die ==
    /\ thread \in {"begin", "result"}
    /\ ~RowFound
    /\ thread' = "dead"
    /\ torn' = (gui # "idle" \/ next \in removed)
    /\ UNCHANGED <<items, list, encodeEnabled, encoding, quit, guiState, next,
                   removed, late, missed, started, afterQuit, raised>>

Begin ==
    /\ thread = "begin"
    /\ RowFound
    /\ thread' = "popen"
    /\ UNCHANGED <<items, list, encodeEnabled, encoding, quit, guiState, next, history>>

(* TheoraEnc.encode: Popen, and only then self.p is set.                       *)
Popen ==
    /\ thread = "popen"
    /\ items' = [items EXCEPT ![next].child = "running"]
    /\ started' = Append(started, next)
    /\ afterQuit' = IF quit THEN afterQuit + 1 ELSE afterQuit
    /\ thread' = "publish"
    /\ UNCHANGED <<list, encodeEnabled, encoding, quit, guiState, next,
                   removed, late, missed, torn, raised>>

Publish ==
    /\ thread = "publish"
    /\ items' = [items EXCEPT ![next].p = TRUE]
    /\ thread' = "wait"
    /\ UNCHANGED <<list, encodeEnabled, encoding, quit, guiState, next, history>>

(* p.wait()                                                                    *)
Wait ==
    /\ thread = "wait"
    /\ items[next].child # "running"
    /\ items' = [items EXCEPT ![next].child = "reaped"]
    /\ thread' = "result"
    /\ UNCHANGED <<list, encodeEnabled, encoding, quit, guiState, next, history>>

(* What nothing catches in the thread: Popen raises if no process can be       *)
(* started, and so does the wait() of an old Python if the poll() of cancel()  *)
(* has got the status of the process. `encoding` stays set.                    *)
Raise ==
    /\ thread = "popen" \/ (thread = "wait" /\ Reaped(next))
    /\ thread' = "dead"
    /\ raised' = TRUE
    /\ UNCHANGED <<items, list, encodeEnabled, encoding, quit, guiState, next,
                   removed, late, missed, started, afterQuit, torn>>

(* Mutant: the video is not marked.                                            *)
EncodedAgain(id) == FALSE

(* item['encoded'] = True, whatever the result.                                *)
Encoded(id) == TRUE

Result ==
    /\ thread = "result"
    /\ RowFound
    /\ items' = [items EXCEPT ![next].encoded = Encoded(next)]
    /\ thread' = "next"
    /\ UNCHANGED <<list, encodeEnabled, encoding, quit, guiState, next, history>>

End ==
    /\ thread = "end"
    /\ encoding' = FALSE
    /\ thread' = "idle"
    /\ UNCHANGED <<items, list, encodeEnabled, quit, guiState, next, history>>

(* Python ends when the main loop has ended, and its threads with it.          *)
Exit ==
    /\ gui = "closed" /\ thread \notin {"idle", "dead"}
    /\ thread' = "dead"
    /\ UNCHANGED <<items, list, encodeEnabled, encoding, quit, guiState, next, history>>

(* The child process ends, by itself or by a signal.                           *)
ChildEnds ==
    /\ \E id \in DOMAIN items :
          /\ items[id].child = "running"
          /\ items' = [items EXCEPT ![id].child = "exited"]
    /\ UNCHANGED <<list, encodeEnabled, encoding, quit, guiState, thread, next, history>>

GUI == \/ Add \/ Show \/ Offer \/ Select
       \/ ClickRemove \/ EndCancel \/ Delete \/ Clear \/ Fill
       \/ Encode
       \/ Close \/ CloseItem \/ EndKill \/ Destroy

Thread == Pick \/ Die \/ Begin \/ Popen \/ Publish \/ Wait \/ Raise \/ Result \/ End

Next == GUI \/ Thread \/ Exit \/ ChildEnds

(* The thread is scheduled and an encoding ends; nothing makes the user click. *)
Spec == Init /\ [][Next]_vars /\ WF_vars(Thread) /\ WF_vars(ChildEnds)

-----------------------------------------------------------------------------
Ids == 1 .. MaxItems

TypeOK ==
    /\ items \in Seq([key : Ids, itemID : Ids, encoded : BOOLEAN, p : BOOLEAN,
                      child : {"none", "running", "exited", "reaped"}])
    /\ Len(items) <= MaxItems
    /\ DOMAIN queuedata \subseteq Ids /\ \A k \in DOMAIN queuedata : queuedata[k] \in DOMAIN items
    /\ rows \in Seq(Ids) /\ currentItem \in 0 .. MaxItems
    /\ encodeEnabled \in BOOLEAN /\ encoding \in BOOLEAN /\ quit \in BOOLEAN
    /\ gui \in {"idle", "show", "offer", "cancel", "delete", "clear", "fill", "close", "kill", "closed"}
    /\ thread \in {"idle", "next", "begin", "popen", "publish", "wait", "result", "end", "dead"}
    /\ subject \in {0} \cup DOMAIN items /\ next \in {0} \cup DOMAIN items
    /\ pending \subseteq DOMAIN queuedata
    /\ removed \subseteq DOMAIN items /\ late \subseteq DOMAIN items /\ missed \subseteq DOMAIN items
    /\ started \in Seq(Ids) /\ afterQuit \in Nat
    /\ torn \in BOOLEAN /\ raised \in BOOLEAN

(* Between two clicks the queue holds every video that was added and not       *)
(* removed and the list shows each in the row it is numbered with. Encode      *)
(* cannot be clicked during an encoding, and can be when there is none but a   *)
(* video waits, unless that was added while the thread was about to end: it    *)
(* had found no video before, and clears the flag after.                       *)
QueueShown ==
    gui = "idle" =>
        /\ encodeEnabled => ~encoding
        /\ {queuedata[k] : k \in DOMAIN queuedata} = DOMAIN items \ removed
        /\ rows = Keys
        /\ \A r \in DOMAIN rows : items[queuedata[rows[r]]].itemID = r
        /\ ~encoding => \A k \in DOMAIN queuedata : Waiting(k) => encodeEnabled \/ queuedata[k] \in late

(* Every video is encoded at most once and no two at a time, whatever is added *)
(* and removed meanwhile; and one that is removed stays so: the process it had *)
(* when Remove was clicked is over, and it never gets another. Without one it  *)
(* is only forgotten, and the thread that was starting it goes on.             *)
OnceEach ==
    /\ \A m, n \in DOMAIN started : started[m] = started[n] => m = n
    /\ Cardinality({id \in DOMAIN items : items[id].child = "running"}) <= 1
    /\ \A id \in removed \ missed : items[id].child # "running"

(* Closing the window stops the encoding: no process is left but one the       *)
(* thread was starting when OnClose came to its video or when that was         *)
(* removed, and after quit was set it starts that one at most.                 *)
ClosedStops ==
    /\ afterQuit <= 1
    /\ gui = "closed" => \A id \in DOMAIN items : items[id].child = "running" => id \in missed

Done(id) == id \in DOMAIN items /\ items[id].encoded

(* A video that waits while the thread is at work is encoded in the end,       *)
(* unless it is removed, the window is closed, or the thread dies: of a list   *)
(* that is being changed under it, or of Popen or wait().                      *)
Served ==
    \A id \in Ids :
        /\ id \in DOMAIN items /\ id \notin removed /\ ~items[id].encoded
        /\ thread \in {"next", "begin", "popen", "publish", "wait", "result"}
        ~> (Done(id) \/ id \in removed \/ quit \/ torn \/ raised)
=============================================================================
