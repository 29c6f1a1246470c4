--------------------------- MODULE MCShareAccess ---------------------------
(* A link of a file that one browser may open, and a link of a note that    *)
(* may be read twice, by two browsers and its owner.  `about` says with     *)
(* which of the two a behaviour deals, the other one rests.                 *)
EXTENDS ShareAccess, TLC

CONSTANTS n1, f1, sn, sf

Targets   == sn :> n1 @@ sf :> f1
Limits    == sn :> 0 @@ sf :> 1
TwoReads  == n1 :> 2
AllFaults == FaultKinds
Visitors  == Permutations(Clients) \union Permutations(Workers)

VARIABLE about

LinksInit == about \in Shares /\ Init

\* One link is dealt with, and in the case of the note with one request of
\* a browser at a time.
OneLink ==
  LET rests == CHOOSE s \in Shares : s # about
  IN  /\ UNCHANGED about
      /\ link'[rests] = "none" /\ (reads'[n1] > 0 => about = sn)
      /\ object'[Target[rests]] = "live" /\ Target[rests] \notin outdated'
      /\ \A w \in Workers : pc'[w] = "insert" => req'[w].share = about
      /\ about = sn => \A t \in Tickets : busy'[t] <= 1

LinksSpec == LinksInit /\ [][Next /\ OneLink]_<<about, vars>>
=============================================================================
