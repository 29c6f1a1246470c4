----------------------------- MODULE PadEditing -----------------------------
(***************************************************************************)
(* A pad, edited in several browsers at once.                              *)
(*                                                                         *)
(* The server accepts a save that names the version it replaces.  Which    *)
(* version a save names is decided by the page: saves are queued as        *)
(* snapshots and sent one after the other, each with the version the page  *)
(* knows by then, while the user types, leaves the pad for another one,    *)
(* comes back or deletes it.  A text is the set of edits it contains;      *)
(* nobody removes the edit of another.                                     *)
(*                                                                         *)
(* Selecting and deleting await the server, and nothing keeps a page from  *)
(* beginning one while it awaits another, or from typing in between: every *)
(* answer is shown when it comes.  The other pads of a page appear as the  *)
(* time it does not show this one; their saves are in the same queue, so   *)
(* that a save of this pad may have to wait for its turn although the      *)
(* model shows none before it.  Drafts in the session storage are written  *)
(* and never read.                                                         *)
(***************************************************************************)
EXTENDS Naturals, Sequences

CONSTANTS
  Clients,      \* pages
  Calls,        \* calls of selectPad and deletePad of a page at the same time
  Edits,        \* each is typed once
  MaxVersion,   \* bound: versions of the pad
  MaxQueue,     \* bound: snapshots waiting to be saved
  MaxRestores   \* bound: restores of a backup

VARIABLES
  text,     \* server: the pad
  version,
  live,     \* not in the trash
  epoch,    \* history: how often a backup was restored
  backup,   \* the pad in the package
  used,     \* edits typed so far
  calls,    \* client: what its calls of selectPad and deletePad await
  known,    \* version of state.currentPad, if that is the pad
  editor,   \* the text area
  dirty,    \* state.currentPadDirty
  blocked,  \* state.padSaveBlocked
  list,     \* version in state.pads, if the pad is there
  timer,    \* the snapshot state.saveTimer will queue
  chain,    \* state.padSaveChain: snapshots to be saved
  call,     \* the save in flight
  astray    \* history: the page has left the pad, or was shown it anew, with saves
            \* of it outstanding

server == <<text, version, live, epoch, backup>>
page   == <<calls, known, editor, dirty, blocked, list, timer>>
vars   == <<server, used, page, chain, call, astray>>

\* A version, and the number of restores before it was learnt.
Version   == [version : 0..MaxVersion, epoch : 0..MaxRestores]
NoVersion == [version |-> 0, epoch |-> 0]
Snapshot  == [text : SUBSET Edits, known : Version, awaited : BOOLEAN]
NoCall    == [step |-> "none", known |-> NoVersion]

IsCurrent(c) == known[c] # NoVersion

\* selectPad of this pad: it awaits a save of the pad shown ("waiting") and then
\* this one ("asked"), whose answer is on its way ("answered"); of another pad:
\* it awaits a save of this pad ("saving") or of the pad shown ("waiting") and
\* then the other one ("leaving").  deletePad of this pad awaits the server
\* ("deleting", then "deleted"), or that of another one ("closing").
Awaits == {"none", "waiting", "asked", "answered", "saving", "leaving", "deleting",
           "deleted", "closing"}
Await  == [step : Awaits, text : SUBSET Edits, known : Version]
Idle   == [step |-> "none", text |-> {}, known |-> NoVersion]

TypeOK ==
  /\ text \in SUBSET Edits /\ version \in 1..MaxVersion
  /\ live \in BOOLEAN /\ epoch \in 0..MaxRestores
  /\ backup \in [text : SUBSET Edits, version : 1..MaxVersion]
  /\ used \subseteq Edits
  /\ calls \in [Clients -> [Calls -> Await]]
  /\ known \in [Clients -> Version] /\ list \in [Clients -> Version]
  /\ editor \in [Clients -> SUBSET Edits]
  /\ dirty \in [Clients -> BOOLEAN] /\ blocked \in [Clients -> BOOLEAN]
  /\ timer \in [Clients -> Seq(Snapshot)] /\ chain \in [Clients -> Seq(Snapshot)]
  /\ call \in [Clients -> [step : {"none", "sent", "ok", "conflict", "failed"}, known : Version]]
  /\ astray \in [Clients -> BOOLEAN]

Current == [version |-> version, epoch |-> epoch]

Init ==
  /\ text = {} /\ version = 1 /\ live = TRUE /\ epoch = 0
  /\ backup = [text |-> {}, version |-> 1]
  /\ used = {}
  /\ calls = [c \in Clients |-> [k \in Calls |-> Idle]]
  /\ known = [c \in Clients |-> NoVersion]
  /\ editor = [c \in Clients |-> {}]
  /\ dirty = [c \in Clients |-> FALSE]
  /\ blocked = [c \in Clients |-> FALSE]
  /\ list = [c \in Clients |-> Current]
  /\ timer = [c \in Clients |-> <<>>]
  /\ chain = [c \in Clients |-> <<>>]
  /\ call = [c \in Clients |-> NoCall]
  /\ astray = [c \in Clients |-> FALSE]

Goto(c, k, step) == calls' = [calls EXCEPT ![c][k] = [Idle EXCEPT !.step = step]]
StopTimer(c)     == timer' = [timer EXCEPT ![c] = <<>>]

-----------------------------------------------------------------------------
(* The server: one transaction each.                                       *)

UpdatePad(c) ==
  /\ call[c].step = "sent"
  /\ IF live /\ call[c].known.version = version
       THEN /\ version < MaxVersion
            /\ text' = Head(chain[c]).text
            /\ version' = version + 1
            /\ call' = [call EXCEPT ![c] = [step |-> "ok", known |-> Current]]
       ELSE /\ call' = [call EXCEPT ![c].step = IF live THEN "conflict" ELSE "failed"]
            /\ UNCHANGED <<text, version>>
  /\ UNCHANGED <<live, epoch, backup, used, page, chain, astray>>

\* UpdatePad for somebody who has just read the pad: a page at rest, or a user of
\* the API.
SaveElsewhere(e) ==
  /\ live /\ version < MaxVersion /\ e \notin used
  /\ used' = used \union {e}
  /\ text' = text \union {e}
  /\ version' = version + 1
  /\ UNCHANGED <<live, epoch, backup, page, chain, call, astray>>

\* The transaction fails, or the answer is lost on its way.
CallFails(c) ==
  /\ call[c].step \in {"sent", "ok"}
  /\ call' = [call EXCEPT ![c].step = "failed"]
  /\ UNCHANGED <<server, used, page, chain, astray>>

\* To the trash, or back.
Trash ==
  /\ live' = ~live
  /\ UNCHANGED <<text, version, epoch, backup, used, page, chain, call, astray>>

Backup ==
  /\ epoch < MaxRestores
  /\ backup' = [text |-> text, version |-> version]
  /\ UNCHANGED <<text, version, live, epoch, used, page, chain, call, astray>>

Restore ==
  /\ epoch < MaxRestores
  /\ text' = backup.text /\ version' = backup.version /\ live' = TRUE
  /\ epoch' = epoch + 1
  /\ UNCHANGED <<backup, used, page, chain, call, astray>>

-----------------------------------------------------------------------------
(* The page: typing and saving.                                            *)

PadSnapshot(c, awaited) == [text |-> editor'[c], known |-> known[c], awaited |-> awaited]

\* A key press and markPadDirty.
Type(c, e) ==
  /\ IsCurrent(c) /\ e \notin used
  /\ used' = used \union {e}
  /\ editor' = [editor EXCEPT ![c] = @ \union {e}]
  /\ dirty' = [dirty EXCEPT ![c] = TRUE]
  /\ timer' = IF blocked[c] THEN timer ELSE [timer EXCEPT ![c] = <<PadSnapshot(c, FALSE)>>]
  /\ UNCHANGED <<server, calls, known, blocked, list, chain, call, astray>>

TimerFires(c) ==
  /\ timer[c] # <<>> /\ Len(chain[c]) < MaxQueue
  /\ chain' = [chain EXCEPT ![c] = @ \o timer[c]]
  /\ StopTimer(c)
  /\ UNCHANGED <<server, used, calls, known, editor, dirty, blocked, list, call, astray>>

\* savePad, which selectPad calls too.
Enqueue(c, awaited) ==
  /\ Len(chain[c]) < MaxQueue
  /\ StopTimer(c)
  /\ blocked' = [blocked EXCEPT ![c] = FALSE]
  /\ chain' = [chain EXCEPT ![c] = Append(@, PadSnapshot(c, awaited))]

SavePad(c) ==
  /\ IsCurrent(c)
  /\ UNCHANGED <<server, used, calls, known, editor, dirty, list, call, astray>>
  /\ Enqueue(c, FALSE)

\* Mutant: the version in the list is sent for every pad.
KnownFromList(c) == list[c]

KnownVersion(c) == IF IsCurrent(c) THEN known[c]
                   ELSE IF list[c] # NoVersion THEN list[c]
                   ELSE Head(chain[c]).known

\* performPadSave up to its request.
SendSave(c) ==
  /\ chain[c] # <<>> /\ call[c].step = "none"
  /\ call' = [call EXCEPT ![c] = [step |-> "sent", known |-> KnownVersion(c)]]
  /\ UNCHANGED <<server, used, page, chain, astray>>

\* What the list may have after loadPads: the search of the page may leave the pad
\* out, and the request may fail.
Loaded(c) == {list[c], NoVersion} \union (IF live THEN {Current} ELSE {})

\* A selection goes on when what it waited for is done, or the user calls it off.
GoesOn(c, k, next)  == Goto(c, k, next) /\ StopTimer(c)
CalledOff(c, k)     == Goto(c, k, "none") /\ UNCHANGED timer

\* The end of a save.  A selection that waited for it goes on; after a failure it
\* is the user who decides.
Finish(c, saved) ==
  /\ chain' = [chain EXCEPT ![c] = Tail(@)]
  /\ call' = [call EXCEPT ![c] = NoCall]
  /\ IF Head(chain[c]).awaited
       THEN \E k \in Calls :
              /\ calls[c][k].step = "saving"
              /\ GoesOn(c, k, "leaving") \/ (~saved /\ CalledOff(c, k))
       ELSE UNCHANGED <<calls, timer>>
  /\ UNCHANGED <<server, used, editor, astray>>

\* The answer names the version after the one that was replaced.
Answered(c) == [call[c].known EXCEPT !.version = @ + 1]

\* Mutant: a save that has succeeded leaves the page clean.
SavedClean(c) ==
  /\ call[c].step = "ok"
  /\ list' = [list EXCEPT ![c] = Answered(c)]
  /\ known' = IF IsCurrent(c) THEN [known EXCEPT ![c] = Answered(c)] ELSE known
  /\ dirty' = IF IsCurrent(c) THEN [dirty EXCEPT ![c] = FALSE] ELSE dirty
  /\ UNCHANGED blocked
  /\ Finish(c, TRUE)

Saved(c) ==
  /\ call[c].step = "ok"
  /\ list' = [list EXCEPT ![c] = Answered(c)]
  /\ IF IsCurrent(c)
       THEN /\ known' = [known EXCEPT ![c] = Answered(c)]
            /\ dirty' = [dirty EXCEPT ![c] = editor[c] # Head(chain[c]).text]
       ELSE UNCHANGED <<known, dirty>>
  /\ UNCHANGED blocked
  /\ Finish(c, TRUE)

\* A conflict makes the page load the list.
NotSaved(c) ==
  /\ call[c].step \in {"conflict", "failed"}
  /\ IF call[c].step = "conflict"
       THEN /\ blocked' = [blocked EXCEPT ![c] = TRUE]
            /\ \E v \in Loaded(c) : list' = [list EXCEPT ![c] = v]
       ELSE UNCHANGED <<blocked, list>>
  /\ UNCHANGED <<known, dirty>>
  /\ Finish(c, FALSE)

-----------------------------------------------------------------------------
(* The page: the list, selecting and deleting.                             *)

LoadPads(c) ==
  /\ \E v \in Loaded(c) : list' = [list EXCEPT ![c] = v]
  /\ UNCHANGED <<server, used, calls, known, editor, dirty, blocked, timer, chain, call, astray>>

\* selectPad of another pad while this one is shown; the timer is stopped before
\* the pad is asked for.
SelectOther(c, k) ==
  /\ IsCurrent(c) /\ calls[c][k] = Idle
  /\ UNCHANGED <<server, used, known, editor, dirty, list, call, astray>>
  /\ IF dirty[c]
       THEN Goto(c, k, "saving") /\ Enqueue(c, TRUE)
       ELSE GoesOn(c, k, "leaving") /\ UNCHANGED <<blocked, chain>>

\* selectPad of this pad, or of yet another one, while another one is shown, which
\* may have to be saved.
SelectPad(c, k) ==
  /\ ~IsCurrent(c) /\ calls[c][k] = Idle
  /\ \E next \in {"waiting", "asked", "leaving"} : GoesOn(c, k, next)
  /\ UNCHANGED <<server, used, known, editor, dirty, blocked, list, chain, call, astray>>

\* That other pad is saved, or is not; a conflict blocks the saves of the pad shown.
Waited(c, k) ==
  /\ calls[c][k].step = "waiting"
  /\ \/ /\ \E next \in {"asked", "leaving"} : GoesOn(c, k, next)
        /\ UNCHANGED blocked
     \/ /\ GoesOn(c, k, "asked") \/ GoesOn(c, k, "leaving") \/ CalledOff(c, k)
        /\ blocked' = [blocked EXCEPT ![c] = TRUE]
  /\ UNCHANGED <<server, used, known, editor, dirty, list, chain, call, astray>>

\* The request of a call fails, or its answer is lost.
AwaitFails(c, k) ==
  /\ calls[c][k].step \in {"asked", "answered", "leaving", "deleting", "deleted", "closing"}
  /\ Goto(c, k, "none")
  /\ UNCHANGED <<server, used, known, editor, dirty, blocked, list, timer, chain, call, astray>>

\* History: the page leaves the pad, or is shown it.
Outstanding(c) == astray' = [astray EXCEPT ![c] = timer'[c] # <<>> \/ chain[c] # <<>>]

\* The page shows a pad; what has been typed since the call began is gone from it,
\* the timer is not.
Show(c, v, t) ==
  /\ known' = [known EXCEPT ![c] = v]
  /\ editor' = [editor EXCEPT ![c] = t]
  /\ dirty' = [dirty EXCEPT ![c] = FALSE]
  /\ UNCHANGED timer
  /\ Outstanding(c)

ShowOther(c, k) ==
  /\ calls[c][k].step = "leaving"
  /\ Goto(c, k, "none")
  /\ Show(c, NoVersion, {})
  /\ blocked' = [blocked EXCEPT ![c] = FALSE]
  /\ UNCHANGED <<server, used, list, chain, call>>

\* Typing into or saving another pad uses the same timer.
UseOther(c) ==
  /\ ~IsCurrent(c) /\ timer[c] # <<>>
  /\ StopTimer(c)
  /\ UNCHANGED <<server, used, calls, known, editor, dirty, blocked, list, chain, call, astray>>

\* The server answers.
GetPad(c, k) ==
  /\ calls[c][k].step = "asked" /\ live
  /\ calls' = [calls EXCEPT ![c][k] = [step |-> "answered", text |-> text, known |-> Current]]
  /\ UNCHANGED <<server, used, known, editor, dirty, blocked, list, timer, chain, call, astray>>

\* Whatever the page shows by now, and however old the answer is.
ShowPad(c, k) ==
  /\ calls[c][k].step = "answered"
  /\ Goto(c, k, "none")
  /\ Show(c, calls[c][k].known, calls[c][k].text)
  /\ blocked' = [blocked EXCEPT ![c] = FALSE]
  /\ UNCHANGED <<server, used, list, chain, call>>

\* deletePad up to its request, for the pad shown.
DeletePad(c, k) ==
  /\ calls[c][k] = Idle
  /\ GoesOn(c, k, IF IsCurrent(c) THEN "deleting" ELSE "closing")
  /\ UNCHANGED <<server, used, known, editor, dirty, blocked, list, chain, call, astray>>

\* DeletePad of the server.
TrashPad(c, k) ==
  /\ calls[c][k].step = "deleting" /\ live
  /\ live' = FALSE
  /\ Goto(c, k, "deleted")
  /\ UNCHANGED <<text, version, epoch, backup, used, known, editor, dirty, blocked, list, timer,
                 chain, call, astray>>

\* The answer of the server closes the pad shown by now and loads the list.
PadDeleted(c, k) ==
  /\ calls[c][k].step \in {"deleted", "closing"}
  /\ Goto(c, k, "none")
  /\ Show(c, NoVersion, {})
  /\ \E v \in Loaded(c) : list' = [list EXCEPT ![c] = v]
  /\ UNCHANGED <<server, used, blocked, chain, call>>

Next ==
  \/ \E c \in Clients :
       \/ UpdatePad(c) \/ CallFails(c)
       \/ TimerFires(c) \/ SavePad(c) \/ SendSave(c) \/ Saved(c) \/ NotSaved(c)
       \/ LoadPads(c) \/ UseOther(c)
  \/ \E c \in Clients, k \in Calls :
       \/ SelectOther(c, k) \/ SelectPad(c, k) \/ Waited(c, k) \/ AwaitFails(c, k)
       \/ ShowOther(c, k) \/ GetPad(c, k) \/ ShowPad(c, k)
       \/ DeletePad(c, k) \/ TrashPad(c, k) \/ PadDeleted(c, k)
  \/ \E c \in Clients, e \in Edits : Type(c, e)
  \/ \E e \in Edits : SaveElsewhere(e)
  \/ Trash \/ Backup \/ Restore

Spec == Init /\ [][Next]_vars
-----------------------------------------------------------------------------
(* Properties.                                                             *)

\* The save of client c is accepted although it goes by a version learnt before a
\* restore, or comes from a page that is astray.
Excused(c) ==
  /\ call[c].step = "sent" /\ call'[c].step = "ok"
  /\ astray[c] \/ call[c].known.epoch # epoch

\* No edit that the pad contains is overwritten by a save that did not know it,
\* but by a restore, by a save from before a restore, and by a page that is astray:
\* it has left the pad, or has been shown it anew, with saves of it outstanding.
\* Such a save goes by what the page knows of the pad when it is sent, and its
\* answer is taken for what the page shows; two selections of the pad that overlap
\* are enough, for nothing tells their answers apart.  They lose nothing as long
\* as no save is outstanding when an answer is shown.
SaveKeepsEdits ==
  text \subseteq text' \/ epoch' # epoch \/ \E c \in Clients : Excused(c)
NoLostUpdate == [][SaveKeepsEdits]_vars

\* A page that shows nothing to be saved shows what is stored in its version,
\* whichever of several answers it shows and whatever is typed in between.
CleanIsStored ==
  \A c \in Clients :
    IsCurrent(c) /\ ~dirty[c] /\ known[c] = Current => editor[c] = text
=============================================================================
