----------------------------- MODULE FinalLedger -----------------------------
(***************************************************************************)
(* What finality promises the users of the chain, without saying how.      *)
(*                                                                         *)
(* There is one ledger, which only ever grows.  A node knows a part of it, *)
(* from its first block on, and only ever learns more.  There are no       *)
(* forks, votes, crashes or databases here: ForkedLedger implements this   *)
(* specification with all of them.                                         *)
(***************************************************************************)
EXTENDS Integers, Sequences

CONSTANT
  Nodes    \* those who follow the ledger

VARIABLES
  ledger,  \* the blocks that were agreed on
  known    \* known[n]: the blocks that node n knows to be agreed on

vars == <<ledger, known>>

\* The chain part is the beginning of the chain whole.
Begins(part, whole) == Len(part) <= Len(whole) /\ \A i \in 1..Len(part) : part[i] = whole[i]

Init ==
  /\ ledger = <<>>
  /\ known = [n \in Nodes |-> <<>>]

\* More blocks are agreed on, after those there are.
Extend ==
  /\ Len(ledger) < Len(ledger')
  /\ Begins(ledger, ledger')
  /\ UNCHANGED known

\* Node n learns of blocks that were agreed on before.
Learn(n) ==
  /\ Len(known[n]) < Len(known'[n])
  /\ Begins(known'[n], ledger)
  /\ \A m \in Nodes \ {n} : known'[m] = known[m]
  /\ DOMAIN known' = Nodes
  /\ UNCHANGED ledger

Next == Extend \/ \E n \in Nodes : Learn(n)

Spec == Init /\ [][Next]_vars
=============================================================================
