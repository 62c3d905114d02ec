---------------------------- MODULE VoucherLedger ----------------------------
(***************************************************************************)
(* What the probabilistic-payments pallet promises, without saying how.    *)
(*                                                                         *)
(* Every block draws one random value and the ledger remembers all of them *)
(* for ever.  A claim pays exactly when the claimant is entitled to the    *)
(* voucher, the voucher is due, its oracle block is one of the last WINDOW *)
(* blocks, and the voucher wins under the value that block drew.  There is *)
(* no pruned storage map, no bounded random material and no order of       *)
(* checks here: ProbabilisticPayments implements this specification with   *)
(* all three.                                                              *)
(***************************************************************************)
EXTENDS Integers, Sequences

CONSTANTS
  WINDOW,          \* how many blocks a draw may be used for
  Entitled(_, _),  \* Entitled(v, who): who may cash the authentic voucher v
  OracleBlock(_),  \* the block whose draw decides the voucher
  DueBlock(_),     \* the first block in which the voucher may be cashed
  Winning(_, _)    \* Winning(v, r): the voucher wins under the draw r

VARIABLES
  now,      \* number of the current block; 0 before the first one
  drawn,    \* drawn[b]: the random value of block b, for every b in 1..now
  payouts   \* the claims decided in the current block, in order

vars == <<now, drawn, payouts>>

Init ==
  /\ now = 0
  /\ drawn = [b \in {} |-> 0]
  /\ payouts = <<>>

\* A new block: one more draw, all earlier draws kept as they are.
NextBlock ==
  /\ now' = now + 1
  /\ DOMAIN drawn' = 1..now'
  /\ \A b \in 1..now : drawn'[b] = drawn[b]
  /\ payouts' = <<>>

Pays(v, who) ==
  /\ Entitled(v, who)
  /\ now >= DueBlock(v)
  /\ OracleBlock(v) \in 1..now
  /\ OracleBlock(v) > now - WINDOW
  /\ Winning(v, drawn[OracleBlock(v)])

\* A claim decided in the current block.
Decide ==
  /\ now > 0
  /\ Len(payouts') = Len(payouts) + 1
  /\ LET last == payouts'[Len(payouts')]
     IN  /\ payouts' = Append(payouts, last)
         /\ last.paid <=> Pays(last.voucher, last.who)
  /\ UNCHANGED <<now, drawn>>

Next == NextBlock \/ Decide

Spec == Init /\ [][Next]_vars
=============================================================================
