------------------------ MODULE MCProbabilisticPayments ------------------------
(* ProbabilisticPayments on a small chain, with an explicit lottery hash. *)
EXTENDS ProbabilisticPayments, Functions

CONSTANTS alice, bob

MCHashes == {0, 1}
MCAccounts == {alice, bob}

\* A lottery hash that depends on the voucher, the block and every mixed hash.
MCBlake2(unsigned, rand) ==
  (unsigned.nonce + rand.topic + FoldFunction(+, 0, rand.material)) % (U256_MAX + 1)

Unsigned(oracle, difficulty, due, nonce) ==
  [oracle_block |-> oracle, difficulty |-> difficulty, no_redeem_before_block |-> due,
   value_if_paid |-> 1, sender_pk |-> bob, recipient_pk |-> alice, nonce |-> nonce]

Signed(unsigned, signer) ==
  [len |-> VOUCHER_LEN, unsigned |-> unsigned,
   signature |-> [signer |-> signer, message |-> unsigned]]

\* Good vouchers for early, middle and late oracle blocks, due before and after
\* they are drawn and after they expire; a difficulty of zero; a truncated
\* voucher; one signed by another key; one whose due block was changed after
\* it was signed.
MCVouchers ==
  {Signed(Unsigned(o, d, due, 0), bob) : o \in {0, 2, 5}, d \in {1, 2}, due \in {1, 6}}
  \cup {Signed(Unsigned(2, 0, 1, 0), bob),
        [Signed(Unsigned(2, 1, 1, 1), bob) EXCEPT !.len = VOUCHER_LEN - 1],
        Signed(Unsigned(2, 1, 1, 2), alice),
        [Signed(Unsigned(2, 1, 6, 3), bob) EXCEPT !.unsigned.no_redeem_before_block = 1]}
=============================================================================
