---------------------------- MODULE LibraryWhole ----------------------------
(***************************************************************************)
(* What a restore promises: the rows, the uploaded files and the           *)
(* configuration change together to those of a package, or not at all, and *)
(* whatever requests have written before stays when it fails.              *)
(*                                                                         *)
(* After a kill or a failed rollback nothing is promised any more.         *)
(***************************************************************************)
CONSTANTS Files, Configs

VARIABLES
  rows,     \* every file: "unused", "live", "trash" or "gone"
  uploads,  \* the files whose bytes are there
  config,   \* the configuration
  broken    \* a kill or a failed rollback has happened

vars == <<rows, uploads, config, broken>>

Kept == {"live", "trash"}

\* A package brings its own rows; a name that has been used is never given again.
Package     == [rows : [Files -> {"unused", "live", "trash", "gone"}],
                uploads : SUBSET Files, config : Configs]
Complete(p) == \A f \in Files : p.rows[f] \in Kept => f \in p.uploads
Installed(p) ==
  [f \in Files |-> IF p.rows[f] \in Kept THEN p.rows[f]
                   ELSE IF rows[f] = "unused" THEN "unused" ELSE "gone"]

Init ==
  /\ rows \in [Files -> {"unused", "live", "trash"}]
  /\ uploads = {f \in Files : rows[f] # "unused"}
  /\ config \in Configs
  /\ broken = FALSE

Upload(f) ==
  /\ rows[f] = "unused"
  /\ rows' = [rows EXCEPT ![f] = "live"]
  /\ uploads' = uploads \union {f}
  /\ UNCHANGED config

Move(f) ==
  /\ rows[f] \in Kept
  /\ \E s \in Kept : rows' = [rows EXCEPT ![f] = s]
  /\ UNCHANGED <<uploads, config>>

Expire == \E S \in SUBSET Files :
  /\ \A f \in S : rows[f] = "live"
  /\ rows' = [f \in Files |-> IF f \in S THEN "trash" ELSE rows[f]]
  /\ UNCHANGED <<uploads, config>>

\* The bytes may outlive their row for a while.
Purge == \E S \in SUBSET Files : \E R \in SUBSET S :
  /\ \A f \in S : rows[f] = "trash"
  /\ rows' = [f \in Files |-> IF f \in S THEN "gone" ELSE rows[f]]
  /\ uploads' = uploads \ R
  /\ UNCHANGED config

Discard(f) ==
  /\ rows[f] = "gone"
  /\ uploads' = uploads \ {f}
  /\ UNCHANGED <<rows, config>>

Configure == config' \in Configs /\ UNCHANGED <<rows, uploads>>

Restore == \E p \in Package :
  /\ Complete(p)
  /\ rows' = Installed(p)
  /\ uploads' = p.uploads
  /\ config' = p.config

Whole ==
  /\ ~broken /\ ~broken'
  /\ \/ \E f \in Files : Upload(f) \/ Move(f) \/ Discard(f)
     \/ Expire \/ Purge \/ Configure \/ Restore

Break == broken' = TRUE

Next == Whole \/ Break

Spec == Init /\ [][Next]_vars
=============================================================================
