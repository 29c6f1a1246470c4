---------------------------- MODULE BackupStream ----------------------------
(***************************************************************************)
(* The container of an encrypted backup: a header and a sequence of sealed *)
(* records.  The key comes from the password and the salt in the header;   *)
(* every record is sealed with its number, whether it is the last, and the *)
(* digest of the header (version 3; version 2, which is read but not       *)
(* written any more, seals the data records with their number and the      *)
(* length of the header, and leaves the end unsealed).                     *)
(*                                                                         *)
(* Between writing and reading the file is damaged: cut off, put together  *)
(* from records of this and of another package, altered.  A record that    *)
(* was sealed otherwise than the reader expects does not open.             *)
(***************************************************************************)
EXTENDS Naturals, Sequences, SequencesExt

CONSTANTS
  ChunkSize,   \* units of plain text in a full record
  MaxUnits,    \* bound: units written
  MaxDamage    \* bound: damages

VARIABLES
  format,    \* the version of the package
  accepted,  \* units the caller has written
  buf,       \* the writer: what is not sealed yet
  index,     \* number of the next record
  writer,    \* "open", "closed", or "failed": its error, which stays
  file,      \* what has reached the file
  damage,    \* how often it was damaged
  pos,       \* the reader: place in the file, 0 before the header
  next,      \* number of the record it expects
  out,       \* what it has written
  result     \* "none", then "ok", "error", or "failed": src or dst did

writing == <<format, accepted, buf, index, writer>>
reading == <<pos, next, out, result>>
vars    == <<writing, file, damage, reading>>

\* The pieces of a file.  package: whose salt and header they were sealed under,
\* "none" when they were altered since; index, units: of a record.
Piece(kind, package, i, units) ==
  [kind |-> kind, package |-> package, index |-> i, units |-> units]
Header(package) == Piece("header", package, 0, <<>>)
Data(package, i, units) == Piece("data", package, i, units)
End(package, i) == Piece("end", package, i, <<>>)
Torn == Piece("torn", "none", 0, <<>>)   \* part of a piece
Kinds == {"header", "data", "end", "torn"}
Pieces == [kind : Kinds, package : {"this", "other", "none"}, index : 0..MaxUnits,
           units : Seq(1..MaxUnits)]

TypeOK ==
  /\ format \in {2, 3}
  /\ accepted \in 0..MaxUnits
  /\ buf \in Seq(1..MaxUnits) /\ Len(buf) < ChunkSize
  /\ index \in 0..MaxUnits
  /\ writer \in {"open", "closed", "failed"}
  /\ file \in Seq(Pieces)
  /\ damage \in 0..MaxDamage
  /\ pos \in Nat /\ next \in 0..MaxUnits
  /\ out \in Seq(1..MaxUnits)
  /\ result \in {"none", "ok", "error", "failed"}

\* NewBackupEncryptWriter has written the header.
Init ==
  /\ format \in {2, 3}
  /\ accepted = 0
  /\ buf = <<>>
  /\ index = 0
  /\ writer = "open"
  /\ file = <<Header("this")>>
  /\ damage = 0
  /\ pos = 0 /\ next = 0 /\ out = <<>> /\ result = "none"

-----------------------------------------------------------------------------
(* The writer.                                                             *)

\* flushChunk: the record is sealed and numbered, then written.
Seal(units) == Data("this", index, units)

\* One unit of a Write.
Write ==
  /\ writer = "open" /\ pos = 0 /\ accepted < MaxUnits
  /\ accepted' = accepted + 1
  /\ LET full == Append(buf, accepted')
     IN  IF Len(full) < ChunkSize
           THEN buf' = full /\ UNCHANGED <<index, file>>
           ELSE /\ buf' = <<>>
                /\ index' = index + 1
                /\ file' = Append(file, Seal(full))
  /\ UNCHANGED <<format, writer, damage, reading>>

\* The file takes nothing, or part, of what Write or Close gives it.
WriteFails ==
  /\ writer = "open" /\ pos = 0
  /\ writer' = "failed"
  /\ file' = Append(file, Torn) \/ UNCHANGED file
  /\ UNCHANGED <<format, accepted, buf, index, damage, reading>>

Close ==
  LET tail == IF buf = <<>> THEN <<>> ELSE <<Seal(buf)>>
  IN  /\ writer = "open" /\ pos = 0
      /\ writer' = "closed"
      /\ buf' = <<>>
      /\ index' = index + Len(tail)
      /\ file' = file \o tail \o <<End("this", index')>>
      /\ UNCHANGED <<format, accepted, damage, reading>>

-----------------------------------------------------------------------------
(* What may happen to a file before it is read.                            *)

\* Another package of the same format: two full records.
Other == <<Header("other"), Data("other", 0, [i \in 1..ChunkSize |-> i]),
           Data("other", 1, [i \in 1..ChunkSize |-> i]), End("other", 2)>>

Damaged ==
  {Append(file, Torn)}
  \union { InsertAt(file, i, file[j]) : i \in 1..(Len(file) + 1), j \in 1..Len(file) }
  \union { [file EXCEPT ![i] = file[j], ![j] = file[i]] : i, j \in 1..Len(file) }
  \union { [file EXCEPT ![i].package = "none"] : i \in 1..Len(file) }
  \union { [file EXCEPT ![i] = Other[j]] : i \in 1..Len(file), j \in 1..Len(Other) }
  \union UNION { {SubSeq(file, 1, k), Append(SubSeq(file, 1, k), Torn), RemoveAt(file, k + 1),
                  [file EXCEPT ![k + 1] = Torn]} : k \in 0..(Len(file) - 1) }

Damage ==
  /\ writer # "open" /\ pos = 0 /\ damage < MaxDamage /\ file # <<>>
  /\ file' \in Damaged \ {file}
  /\ damage' = damage + 1
  /\ UNCHANGED <<writing, reading>>

-----------------------------------------------------------------------------
(* The reader, DecryptBackup with the password of the package.             *)

Return(r) == result' = r /\ UNCHANGED <<writing, file, damage, pos, next, out>>

\* A header that is there; another package's gives the other key.
ReadHeader ==
  /\ writer # "open" /\ pos = 0 /\ result = "none"
  /\ IF file # <<>> /\ Head(file).kind = "header"
       THEN pos' = 1 /\ UNCHANGED <<writing, file, damage, next, out, result>>
       ELSE Return("error")

Coming == file[pos + 1]
There  == pos > 0 /\ result = "none" /\ pos < Len(file)

Sealed(p) == p.package = file[1].package /\ p.package # "none"

Opens(p, kind) == p.kind = kind /\ Sealed(p) /\ p.index = next

\* Mutant: the tag of the last record does not name its number.
EndsUnnumbered(p) ==
  p.kind = "end" /\ IF format = 3 THEN Sealed(p) ELSE next > 0

\* The end of version 2 is a length of zero.
Ends(p) == IF format = 3 THEN Opens(p, "end") ELSE p.kind = "end" /\ next > 0

ReadRecord ==
  /\ There /\ Opens(Coming, "data")
  /\ out' = out \o Coming.units
  /\ next' = next + 1
  /\ pos' = pos + 1
  /\ UNCHANGED <<writing, file, damage, result>>

\* dst takes no more, or src gives no more.
ReadFails == There /\ Return("failed")

\* Nothing may follow.
ReadEnd ==
  /\ There /\ Ends(Coming)
  /\ Return(IF pos + 1 = Len(file) THEN "ok" ELSE "error")

\* The file ends early, or a record does not open.
Reject ==
  /\ pos > 0 /\ result = "none"
  /\ pos < Len(file) => ~Opens(Coming, "data") /\ ~Ends(Coming)
  /\ Return("error")

Next ==
  \/ Write \/ WriteFails \/ Close
  \/ Damage
  \/ ReadHeader \/ ReadRecord \/ ReadEnd \/ ReadFails \/ Reject

Spec == Init /\ [][Next]_vars
-----------------------------------------------------------------------------
(* Properties.                                                             *)

Written == [i \in 1..accepted |-> i]
Foreign == [i \in 1..(2 * ChunkSize) |-> ((i - 1) % ChunkSize) + 1]

\* What the reader returns without an error is all that was written into the
\* package whose header it read, whatever happened to the file; of a version 2
\* package it is at least a beginning.  A package that was closed and left alone
\* is not refused.
WholeOrError ==
  /\ result = "ok" =>
       LET whole == IF file[1].package = "this" THEN Written ELSE Foreign
       IN  /\ file[1].package = "this" /\ format = 3 => writer = "closed"
           /\ out = whole \/ (format = 2 /\ out # <<>> /\ IsPrefix(out, whole))
  /\ result = "error" => damage > 0 \/ writer = "failed" \/ (format = 2 /\ accepted = 0)
=============================================================================
