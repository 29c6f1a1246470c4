-------------------------- MODULE DurableRegister --------------------------
(***************************************************************************)
(* What a file kept by durable.WriteFile promises its owner: a register    *)
(* whose acknowledged writes survive restarts.  Generations are numbered   *)
(* in the order in which their writes were started; 0 is the empty state.  *)
(***************************************************************************)
EXTENDS Integers

CONSTANT Down     \* the value readers see while the process is not serving

VARIABLES
  value,   \* the generation readers see, or Down
  acked,   \* the newest generation a restart must not fall behind
  prev,    \* the one acknowledged before it
  last     \* the newest generation whose write was started

vars == <<value, acked, prev, last>>

Init == value = Down /\ acked = 0 /\ prev = 0 /\ last = 0

Begin ==
  /\ value # Down
  /\ last' = last + 1
  /\ UNCHANGED <<value, acked, prev>>

\* Only the newest write can be in progress: writers hold the store's lock.
Acknowledge ==
  /\ value # Down
  /\ value' = last
  /\ acked' = last
  /\ prev' = acked
  /\ UNCHANGED last

\* The process stops; no write it has acknowledged is undone.
Stop ==
  /\ value' = Down
  /\ UNCHANGED <<acked, prev, last>>

\* Damage to the current generation costs that generation and no more.
Damage ==
  /\ value = Down
  /\ acked' = prev
  /\ UNCHANGED <<value, prev, last>>

\* A restart finds what was acknowledged, or a write that was in doubt.
Recover ==
  /\ value = Down
  /\ value' \in acked..last
  /\ UNCHANGED <<acked, prev, last>>

Next == Begin \/ Acknowledge \/ Stop \/ Damage \/ Recover

Spec == Init /\ [][Next]_vars
=============================================================================
