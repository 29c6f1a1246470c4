---------------------------- MODULE MCAuditChain ----------------------------
(* Two histories whose next step names the one before: the audit log, where *)
(* an event has the hash of its predecessor, and a pad, where a save has    *)
(* the version it replaces.  `part` says which one a behaviour is about:    *)
(* the log with short segments and small capacities, or a page whose        *)
(* selections and deletions of pads overlap.  The other one rests.          *)
EXTENDS AuditChain, TLC

CONSTANTS Clients, Calls, Edits, MaxVersion, MaxQueue, MaxRestores

SmallCaps == {1, 5, 10}

VARIABLES
  part,
  text, version, live, epoch, backup, used, calls, known, editor, dirty, blocked, list,
  timer, chain, call, astray

pad == <<text, version, live, epoch, backup, used, calls, known, editor, dirty, blocked,
         list, timer, chain, call, astray>>

Pads == INSTANCE PadEditing

\* Neither calls nor edits differ but in their names.
Symmetric == Permutations(Calls) \union Permutations(Edits)

PartsInit == part \in {"log", "pad"} /\ Init /\ Pads!Init

PartsNext ==
  \/ part = "log" /\ Next /\ UNCHANGED <<part, pad>>
  \/ part = "pad" /\ Pads!Next /\ UNCHANGED <<part, vars>>

PartsSpec == PartsInit /\ [][PartsNext]_<<part, vars, pad>>
-----------------------------------------------------------------------------
(* Verifiable, NoFalseAlarm, Covered and TailShort are AuditChain's.        *)

\* A save overwrites no edit it does not know, except one that was outstanding
\* when the page was shown an answer: app.js:1080-1222 (PadEditing!NoLostUpdate).
NoLostUpdate == Pads!NoLostUpdate

\* A page without unsaved text shows what is stored (PadEditing!CleanIsStored).
CleanIsStored == Pads!CleanIsStored
=============================================================================
