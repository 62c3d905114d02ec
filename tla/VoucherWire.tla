----------------------------- MODULE VoucherWire -----------------------------
(***************************************************************************)
(* The 192 bytes of a voucher, written by the local node's                 *)
(* packAndSignVoucher.js and read by Voucher::parse of the pallet.         *)
(*                                                                         *)
(* A byte of a number is a pair <<"number", 0..255>>; a byte of a hash or  *)
(* of a public key is the pair of its name and its position, so that a     *)
(* byte says where it comes from.  The local node carries a number as the  *)
(* sequence of the hexadecimal digits its JavaScript text holds.  The      *)
(* pallet decodes it to a u32, which is written here by its four digits to *)
(* base 256, the most significant first: a u32 may exceed TLC's integers.  *)
(* The signature is ideal: the signer and the message, kept beside the 128 *)
(* other bytes.                                                            *)
(***************************************************************************)
EXTENDS Integers, Sequences

MaxDigits == 10   \* a block number is a u32: it has at most ten decimal digits

-----------------------------------------------------------------------------
(* The JavaScript the packing relies on. *)

\* Number.prototype.toString: the digits of n, most significant first.
Digits(n, base) ==
  LET len == CHOOSE k \in 1..MaxDigits : n < base^k /\ (k = 1 \/ n >= base^(k - 1))
  IN  [i \in 1..len |-> (n \div base^(len - i)) % base]

\* The text "NaN": hexToU8a finds one hexadecimal digit in it and takes the
\* other two characters for zeros.
NaNText == <<0, 10, 0>>

\* String.prototype.padStart(8, '0'): a text of eight digits or more is left alone.
PadStart(text) ==
  LET zeros == 8 - Len(text)
  IN  IF zeros <= 0 THEN text ELSE [i \in 1..zeros |-> 0] \o text

\* hexToU8a of @polkadot/util: an odd last digit is the high half of its byte.
HexToU8a(text) ==
  [i \in 1..((Len(text) + 1) \div 2) |->
     <<"number", 16 * text[2 * i - 1] + (IF 2 * i <= Len(text) THEN text[2 * i] ELSE 0)>>]

\* Uint8Array.prototype.set: bytes written from an offset on.
Set(array, bytes, offset) ==
  SubSeq(array, 1, offset) \o bytes \o SubSeq(array, offset + Len(bytes) + 1, Len(array))

\* The 32 bytes of a hash or of a public key.
Bytes32(name) == [i \in 1..32 |-> <<name, i>>]

-----------------------------------------------------------------------------
(* packAndSignVoucher.js *)

Zeros == [i \in 1..192 |-> <<"number", 0>>]

\* Slip: the fields are written from the last one to the first.
PackReversed(data) ==
  LET texts == PadStart(data.oracleBlock) \o PadStart(data.difficulty)
                 \o PadStart(data.noRedeemBeforeBlock) \o PadStart(data.valueIfPaid)
      b1 == Set(Zeros, Bytes32(data.nonce), 96)
      b2 == Set(b1, Bytes32(data.recipientPubKey), 64)
      b3 == Set(b2, Bytes32(data.senderPubKey), 32)
      b4 == Set(b3, Bytes32(data.priceListCommit), 16)
  IN  Set(b4, HexToU8a(texts), 0)

\* voucherDataU8a before it is signed.  The four numbers may take more than 16
\* bytes and the commitment takes 32 where 16 are meant: each later field is
\* written over what spilled.
Pack(data) ==
  LET texts == PadStart(data.oracleBlock) \o PadStart(data.difficulty)
                 \o PadStart(data.noRedeemBeforeBlock) \o PadStart(data.valueIfPaid)
      b1 == Set(Zeros, HexToU8a(texts), 0)
      b2 == Set(b1, Bytes32(data.priceListCommit), 16)
      b3 == Set(b2, Bytes32(data.senderPubKey), 32)
      b4 == Set(b3, Bytes32(data.recipientPubKey), 64)
  IN  Set(b4, Bytes32(data.nonce), 96)

Unsigned(bytes) == SubSeq(bytes, 1, 128)

\* The voucher: what is signed is the whole array, its 64 last bytes still zero.
PackAndSign(data, signer) ==
  [unsigned  |-> Unsigned(Pack(data)),
   signature |-> [signer |-> signer, message |-> Pack(data)]]

-----------------------------------------------------------------------------
(* Voucher::parse and the signature check of the pallet. *)

\* bytes[from..to] of Rust: from included, to excluded, counted from zero.
Slice(bytes, from, to) == SubSeq(bytes, from + 1, to)

\* u32::from_le_bytes and u128::from_le_bytes: the first byte is the lowest digit.
FromLeBytes(bytes) == [i \in 1..Len(bytes) |-> bytes[Len(bytes) + 1 - i]]

\* The fields by their offsets; the numbers are decoded, the keys and the nonce are bytes.
Parse(v) ==
  [oracle_block           |-> FromLeBytes(Slice(v.unsigned, 0, 4)),
   difficulty             |-> FromLeBytes(Slice(v.unsigned, 4, 8)),
   no_redeem_before_block |-> FromLeBytes(Slice(v.unsigned, 8, 12)),
   value_if_paid          |-> FromLeBytes(Slice(v.unsigned, 12, 16)),
   price_list_commit      |-> FromLeBytes(Slice(v.unsigned, 16, 32)),
   sender_pk              |-> Slice(v.unsigned, 32, 64),
   recipient_pk           |-> Slice(v.unsigned, 64, 96),
   nonce                  |-> Slice(v.unsigned, 96, 128)]

-----------------------------------------------------------------------------
(* The values a decoded u32 is compared with. *)

\* The number n.
Number(n) == [i \in 1..4 |-> <<"number", (n \div 256^(4 - i)) % 256>>]

\* The number with the bytes of n in the other order: another number, unless they
\* read the same both ways.
Swapped(n) == [i \in 1..4 |-> <<"number", (n \div 256^(i - 1)) % 256>>]
=============================================================================
