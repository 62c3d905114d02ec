--------------------------- MODULE MCVoucherIssuer ---------------------------
(* VoucherIssuer on block numbers at the edges of eras and of digit counts. *)
EXTENDS VoucherIssuer

MCRequests == {"r1", "r2"}

\* The last block of an era and the first of the next; the block of the pallet's
\* test vector; the last block number of four digits and the first of five.
MCHeads == {1023, 1024, 6568, 9999, 10000}

\* tests.rs:80-89: the bytes before the signature that payPaymentRequest.js issued
\* at block 6568, number by number.
ASSUME TestVector ==
  LET bytes == VoucherFor[6568].unsigned
  IN  [i \in 1..16 |-> bytes[i][2]]
        = <<0, 0, 24, 0,   0, 0, 19, 136,   101, 104, 32, 72,   0, 0, 48, 57>>
=============================================================================
