--------------------------- MODULE MCDurableFile ---------------------------
(* Two things that are replaced as a whole: a document, by WriteFile with   *)
(* every fault, or a pad, by its saves and by the restore of a backup that  *)
(* brings used version numbers back.  `part` says which one a behaviour is  *)
(* about; the other one rests.                                              *)
EXTENDS DurableFile, TLC

CONSTANTS Clients, Calls, Edits, MaxVersion, MaxQueue, MaxRestores

Everything == FaultKinds

VARIABLES
  part,
  text, version, live, epoch, backup, used, calls, known, editor, dirty, blocked, list,
  timer, chain, call, astray

pad == <<text, version, live, epoch, backup, used, calls, known, editor, dirty, blocked,
         list, timer, chain, call, astray>>

Pads == INSTANCE PadEditing

\* The edits differ in nothing but their names.
Symmetric == Permutations(Edits)

PartsInit == part \in {"file", "pad"} /\ Init /\ Pads!Init

PartsNext ==
  \/ part = "file" /\ Next /\ UNCHANGED <<part, pad>>
  \/ part = "pad" /\ Pads!Next /\ UNCHANGED <<part, vars>>

PartsSpec == PartsInit /\ [][PartsNext]_<<part, vars, pad>>
-----------------------------------------------------------------------------
(* NothingLost, StoredBeforeSeen and Refines are DurableFile's.             *)

\* A save overwrites no edit it does not know, except one from before a restore or
\* one that was outstanding when the page was shown an answer: app.js:1080-1222
\* (PadEditing!NoLostUpdate).
NoLostUpdate == Pads!NoLostUpdate
=============================================================================
