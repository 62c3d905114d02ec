------------------------ MODULE MCExtrinsicLifecycle ------------------------
(* One account, since accounts share nothing but the hashes of the blocks. *)
EXTENDS ExtrinsicLifecycle

CONSTANT alice
MCAccounts == {alice}
=============================================================================
