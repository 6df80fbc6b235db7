-------------------------------- MODULE Pipe --------------------------------
(***************************************************************************)
(* What one direction of a connection promises to its two users: the       *)
(* reader receives what the writer has put in, in order, with nothing      *)
(* added, left out or repeated; it may receive less than everything; once  *)
(* it has been told that the stream is over, it receives nothing more.     *)
(* Tunnel and WebRTCConn implement it.                                     *)
(***************************************************************************)
EXTENDS Integers, Sequences

CONSTANT Item   \* what the stream is made of

VARIABLES
  written,      \* what the writer has put in
  got,          \* what the reader has received
  over          \* the reader has been told the end

vars == <<written, got, over>>

\* s is a beginning of t.
Begins(s, t) ==
  /\ Len(s) <= Len(t)
  /\ \A i \in 1..Len(s) : s[i] = t[i]

TypeOK == written \in Seq(Item) /\ got \in Seq(Item) /\ over \in BOOLEAN

Init == written = <<>> /\ got = <<>> /\ over = FALSE

\* The writer may go on when nobody reads any more.
Write ==
  /\ written' \in Seq(Item) /\ Begins(written, written')
  /\ UNCHANGED <<got, over>>

Read ==
  /\ ~over
  /\ got' \in Seq(Item) /\ Begins(got, got') /\ Begins(got', written)
  /\ UNCHANGED <<written, over>>

End ==
  /\ ~over /\ over'
  /\ UNCHANGED <<written, got>>

Next == Write \/ Read \/ End

Spec == Init /\ [][Next]_vars

\* The reader has a beginning of what was written.
Prefix == Begins(got, written)
=============================================================================
