---------------------------- MODULE VoucherIssuer ----------------------------
(***************************************************************************)
(* The local node paying a payment request: completePayment.js calls       *)
(* payPaymentRequest.js, which asks the sidecar for the head of the chain, *)
(* awaits the answer, then packs and signs a voucher.                      *)
(*                                                                         *)
(* One Node.js process serves several requests: each await lets the chain  *)
(* grow, the sidecar answer and the other requests run.  A callback runs   *)
(* to its next await without interruption, so each action is one callback. *)
(***************************************************************************)
EXTENDS VoucherWire, FiniteSets

CONSTANTS
  Requests,     \* the HTTP requests to /completePayment
  Heads,        \* bound: the block numbers the chain is looked at
  SenderKey,    \* selfPubkey of payPaymentRequest.js
  RecipientKey, \* remotePubkey of payPaymentRequest.js
  SigningKey,   \* public key of the seed packAndSignVoucher.js signs with
  Commit,       \* hash of the price list of the default session
  Nonce         \* hash of the hash of the default url

\* A block number is a u32.
ASSUME HeadsAssumption ==
  /\ Heads \subseteq Nat /\ Heads # {} /\ IsFiniteSet(Heads)
  /\ \A h \in Heads : h \div 65536 < 65536

VARIABLES
  chain_head,  \* the block the sidecar would answer with now
  pc,          \* pc[r]: how far the request has come
  arrived,     \* arrived[r]: the chain's head when the request arrived
  reply,       \* reply[r]: the block number in the sidecar's answer
  voucher      \* voucher[r]: what payPaymentRequest packed and signed

vars == <<chain_head, pc, arrived, reply, voucher>>

NoNumber == -1          \* the answer is JSON without a number field
NoVoucher == [unsigned |-> <<>>, signature |-> <<>>]

-----------------------------------------------------------------------------
(* payPaymentRequest.js *)

DIFFICULTY == 5000      \* of the default session
VALUE_IF_PAID == 12345  \* the payment request is a string without amountRequested

\* sesh: the XOR of a string that is no number with NaN is zero.
Sesh == 0

\* parseInt(nonce, 16) % 1024: a double above 2^63 has no low bits left.
ParsedNonceLow == 0

\* era*1024 + (sesh ^ (parseInt(nonce, 16) % 1024)); the two operands of the XOR
\* are zero here, so their XOR is their sum.
OracleBlock(block) == (block \div 1024) * 1024 + (Sesh + ParsedNonceLow)

\* The text of oracleBlock.
OracleText(block) ==
  IF block = NoNumber THEN NaNText ELSE Digits(OracleBlock(block), 16)

\* The text of currentBlock+2048: the sidecar writes block numbers as strings, so
\* the + appends, and toString(16) leaves a string as it is.
NoRedeemText(block) ==
  IF block = NoNumber THEN NaNText ELSE Digits(block, 10) \o Digits(2048, 10)

VoucherData(block) ==
  [oracleBlock         |-> OracleText(block),
   difficulty          |-> Digits(DIFFICULTY, 16),
   noRedeemBeforeBlock |-> NoRedeemText(block),
   valueIfPaid         |-> Digits(VALUE_IF_PAID, 16),
   priceListCommit     |-> Commit,
   senderPubKey        |-> SenderKey,
   recipientPubKey     |-> RecipientKey,
   nonce               |-> Nonce]

\* The voucher issued on an answer with the given block number.
VoucherFor ==
  [block \in Heads \cup {NoNumber} |-> PackAndSign(VoucherData(block), SigningKey)]

-----------------------------------------------------------------------------

Init ==
  /\ chain_head \in Heads
  /\ pc = [r \in Requests |-> "idle"]
  /\ arrived = [r \in Requests |-> NoNumber]
  /\ reply = [r \in Requests |-> NoNumber]
  /\ voucher = [r \in Requests |-> NoVoucher]

\* A block is imported.
AdvanceChain ==
  /\ chain_head' \in {h \in Heads : h > chain_head}
  /\ UNCHANGED <<pc, arrived, reply, voucher>>

\* Slip: the answer of another request is taken from a cache.
ArriveCached(r) ==
  /\ pc[r] = "idle"
  /\ arrived' = [arrived EXCEPT ![r] = chain_head]
  /\ \/ /\ pc' = [pc EXCEPT ![r] = "fetching"]
        /\ UNCHANGED reply
     \/ \E q \in Requests :
          /\ pc[q] \in {"replied", "answered"}
          /\ pc' = [pc EXCEPT ![r] = "replied"]
          /\ reply' = [reply EXCEPT ![r] = reply[q]]
  /\ UNCHANGED <<chain_head, voucher>>

\* completePayment.get calls payPaymentRequest, which starts the fetch and awaits.
Arrive(r) ==
  /\ pc[r] = "idle"
  /\ pc' = [pc EXCEPT ![r] = "fetching"]
  /\ arrived' = [arrived EXCEPT ![r] = chain_head]
  /\ UNCHANGED <<chain_head, reply, voucher>>

\* The sidecar answers with the head it sees, or with an error document: the
\* code does not look at the status, and the document has no number.
SidecarReply(r) ==
  /\ pc[r] = "fetching"
  /\ pc' = [pc EXCEPT ![r] = "replied"]
  /\ \E block \in {chain_head, NoNumber} : reply' = [reply EXCEPT ![r] = block]
  /\ UNCHANGED <<chain_head, arrived, voucher>>

\* The connection is refused, or the body is not JSON: the promise rejects.
SidecarFails(r) ==
  /\ pc[r] = "fetching"
  /\ pc' = [pc EXCEPT ![r] = "refused"]
  /\ UNCHANGED <<chain_head, arrived, reply, voucher>>

\* Slip: a voucher is issued only for a block number, and nothing answers otherwise.
ResumeChecked(r) ==
  /\ pc[r] = "replied"
  /\ reply[r] # NoNumber
  /\ voucher' = [voucher EXCEPT ![r] = VoucherFor[reply[r]]]
  /\ pc' = [pc EXCEPT ![r] = "answered"]
  /\ UNCHANGED <<chain_head, arrived, reply>>

\* Slip: the request is answered before the voucher is there.
ResumeEarly(r) ==
  /\ pc[r] = "replied"
  /\ pc' = [pc EXCEPT ![r] = "answered"]
  /\ UNCHANGED <<chain_head, arrived, reply, voucher>>

\* The await returns: the voucher is packed and signed, and the request is
\* answered with status 200 and no body.
Resume(r) ==
  /\ pc[r] = "replied"
  /\ voucher' = [voucher EXCEPT ![r] = VoucherFor[reply[r]]]
  /\ pc' = [pc EXCEPT ![r] = "answered"]
  /\ UNCHANGED <<chain_head, arrived, reply>>

\* The catch of completePayment.get: the error is logged and the response is left open.
Catch(r) ==
  /\ pc[r] = "refused"
  /\ pc' = [pc EXCEPT ![r] = "abandoned"]
  /\ UNCHANGED <<chain_head, arrived, reply, voucher>>

Next ==
  \/ AdvanceChain
  \/ \E r \in Requests : \/ Arrive(r) \/ SidecarReply(r) \/ SidecarFails(r)
                         \/ Resume(r) \/ Catch(r)

\* The event loop runs every callback whose promise has settled.
Spec ==
  /\ Init
  /\ [][Next]_vars
  /\ \A r \in Requests : WF_vars(Resume(r)) /\ WF_vars(Catch(r))

-----------------------------------------------------------------------------
(* Properties. *)

Issued == {r \in Requests : voucher[r] # NoVoucher}

\* Every variable has its type.
TypeOK ==
  /\ chain_head \in Heads
  /\ pc \in [Requests -> {"idle", "fetching", "replied", "refused", "answered", "abandoned"}]
  /\ arrived \in [Requests -> Heads \cup {NoNumber}]
  /\ reply \in [Requests -> Heads \cup {NoNumber}]
  /\ \A r \in Requests : (pc[r] = "answered") <=> (r \in Issued)

\* What reaches the pallet.  Whatever the numbers spill over, it gets the commitment,
\* both keys and the nonce that were packed, and of the oracle block, the difficulty and
\* (up to the last block number of four digits) the value all four bytes and no other,
\* in the other order: packAndSignVoucher.js writes the fields in an order that repairs
\* every spill but the one from noRedeemBeforeBlock into valueIfPaid, and writes the
\* high byte first where Voucher::parse reads the low byte first.
FieldsSurvive ==
  \A r \in Issued :
    LET p == Parse(voucher[r])
    IN  /\ p.price_list_commit = FromLeBytes(SubSeq(Bytes32(Commit), 1, 16))
        /\ p.sender_pk = Bytes32(SenderKey)
        /\ p.recipient_pk = Bytes32(RecipientKey)
        /\ p.nonce = Bytes32(Nonce)
        /\ p.difficulty = Swapped(DIFFICULTY)
        /\ reply[r] # NoNumber => p.oracle_block = Swapped(OracleBlock(reply[r]))
        /\ reply[r] < 10000 => p.value_if_paid = Swapped(VALUE_IF_PAID)

\* The era of a voucher is one the chain was in between the arrival of its own
\* request and now, however the requests interleave and however late the answer
\* of the sidecar comes: payPaymentRequest reuses no earlier head.  It is about the
\* bytes that were written, so it undoes the order in which the pallet reads them.
EraIsFresh ==
  \A r \in Issued :
    reply[r] # NoNumber =>
      \E h \in Heads :
        /\ arrived[r] <= h /\ h <= chain_head
        /\ Parse(voucher[r]).oracle_block = Swapped(OracleBlock(h))

\* A request for which the sidecar answered gets a response, an answer without a
\* block number included.
RepliedIsAnswered ==
  \A r \in Requests : pc[r] = "replied" ~> pc[r] = "answered"

-----------------------------------------------------------------------------
(* What the documents say and the code does not do. *)

\* README.md:34-35, oracleBlock and difficulty are u32 fields of the voucher, and
\* README.md:45, "A difficulty of 5000 means that, on average, only 1 in every 5000
\* vouchers can be paid out": the pallet reads the numbers the local node wrote.
NumbersReadBack ==
  \A r \in Issued :
    LET p == Parse(voucher[r])
    IN  /\ p.difficulty = Number(DIFFICULTY)
        /\ reply[r] # NoNumber => p.oracle_block = Number(OracleBlock(reply[r]))

\* README.md:60, noRedeemBeforeBlock "is two eras on from the current block": in
\* neither byte order, so whichever side's order is taken for the right one.
NoRedeemIsTwoErasOn ==
  \A r \in Issued :
    reply[r] # NoNumber =>
      Parse(voucher[r]).no_redeem_before_block
        \in {Number(reply[r] + 2048), Swapped(reply[r] + 2048)}

\* README.md:41, Sr25519Sig( ^bytes 0-127^ ): the signature is over the first 128 bytes.
SignatureCoversUnsigned ==
  \A r \in Issued : voucher[r].signature.message = voucher[r].unsigned
=============================================================================
