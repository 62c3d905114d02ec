------------------------ MODULE VoucherIssuerProofs ------------------------
(***************************************************************************)
(* Theorems about VoucherIssuer, for any number of requests and all block  *)
(* numbers of 32 bits.                                                     *)
(***************************************************************************)
EXTENDS VoucherIssuer, VoucherWireProofs

\* A voucher is the one for the answer that its own request got.
OwnVoucher ==
  \A r \in Requests :
    voucher[r] = IF pc[r] = "answered" THEN VoucherFor[reply[r]] ELSE NoVoucher

\* No request knows a head that the chain did not have since the request came.
ReplyIsFresh ==
  \A r \in Requests :
    /\ arrived[r] <= chain_head
    /\ reply[r] # NoNumber => arrived[r] <= reply[r] /\ reply[r] <= chain_head

Typed ==
  /\ chain_head \in Heads
  /\ pc \in [Requests -> {"idle", "fetching", "replied", "refused", "answered", "abandoned"}]
  /\ arrived \in [Requests -> Heads \cup {NoNumber}]
  /\ reply \in [Requests -> Heads \cup {NoNumber}]
  /\ DOMAIN voucher = Requests /\ voucher = [r \in Requests |-> voucher[r]]
  /\ \A r \in Requests : pc[r] \in {"idle", "fetching"} => reply[r] = NoNumber

\* The inductive invariant.
Inv == Typed /\ OwnVoucher /\ ReplyIsFresh

-----------------------------------------------------------------------------
\* A signed voucher is never taken for none.
LEMMA VouchersAreSigned == \A b \in Heads \cup {NoNumber} : VoucherFor[b] # NoVoucher
<1> SUFFICES ASSUME NEW b \in Heads \cup {NoNumber} PROVE VoucherFor[b] # NoVoucher
  OBVIOUS
<1> DEFINE m == Pack(VoucherData(b))
           s == [signer |-> SigningKey, message |-> m]
           u == Unsigned(m)
<1>1. VoucherFor[b] = [unsigned |-> u, signature |-> s]
  BY DEF VoucherFor, PackAndSign
<1> HIDE DEF m, u
<1>2. s # <<>>
  <2>1. "signer" \in DOMAIN s /\ "signer" \notin DOMAIN <<>>
    OBVIOUS
  <2> QED BY <2>1
<1> HIDE DEF s
<1>3. VoucherFor[b].signature = s /\ NoVoucher.signature = <<>>
  BY <1>1 DEF NoVoucher
<1> QED BY <1>2, <1>3

LEMMA InvInit == Init => Inv
<1> SUFFICES ASSUME Init PROVE Inv
  OBVIOUS
<1>1. \A h \in Heads : NoNumber <= h
  BY HeadsAssumption DEF NoNumber
<1> QED BY <1>1 DEF Init, Inv, Typed, OwnVoucher, ReplyIsFresh

LEMMA InvStep == Inv /\ [Next]_vars => Inv'
<1> SUFFICES ASSUME Inv, [Next]_vars PROVE Inv'
  OBVIOUS
<1> USE DEF Inv
<1>0. Heads \subseteq Int /\ NoNumber \in Int /\ \A h \in Heads : NoNumber < h
  BY HeadsAssumption DEF NoNumber
<1>1. CASE AdvanceChain
  <2>1. chain_head' \in Heads /\ chain_head < chain_head' /\ UNCHANGED <<pc, arrived, reply, voucher>>
    BY <1>1 DEF AdvanceChain
  <2>2. ReplyIsFresh'
    BY <1>0, <2>1 DEF ReplyIsFresh, Typed
  <2> QED BY <2>1, <2>2 DEF Typed, OwnVoucher
<1>2. ASSUME NEW r \in Requests, Arrive(r) PROVE Inv'
  <2>1. Typed'
    BY <1>2 DEF Arrive, Typed
  <2>2. OwnVoucher'
    BY <1>2 DEF Arrive, Typed, OwnVoucher
  <2>3. ReplyIsFresh'
    <3>1. reply[r] = NoNumber
      BY <1>2 DEF Arrive, Typed
    <3> QED BY <1>0, <1>2, <3>1 DEF Arrive, Typed, ReplyIsFresh
  <2> QED BY <2>1, <2>2, <2>3
<1>3. ASSUME NEW r \in Requests, SidecarReply(r) PROVE Inv'
  <2>1. PICK b \in {chain_head, NoNumber} : reply' = [reply EXCEPT ![r] = b]
    BY <1>3 DEF SidecarReply
  <2>2. Typed'
    BY <1>3, <2>1 DEF SidecarReply, Typed
  <2>3. OwnVoucher'
    BY <1>3, <2>1 DEF SidecarReply, Typed, OwnVoucher
  <2>4. ReplyIsFresh'
    BY <1>0, <1>3, <2>1 DEF SidecarReply, Typed, ReplyIsFresh
  <2> QED BY <2>2, <2>3, <2>4
<1>4. ASSUME NEW r \in Requests, Resume(r) PROVE Inv'
  <2>1. Typed'
    BY <1>4 DEF Resume, Typed
  <2>2. OwnVoucher' /\ ReplyIsFresh'
    BY <1>4 DEF Resume, Typed, OwnVoucher, ReplyIsFresh
  <2> QED BY <2>1, <2>2
<1>5. ASSUME NEW r \in Requests, SidecarFails(r) \/ Catch(r) PROVE Inv'
  BY <1>5 DEF SidecarFails, Catch, Typed, OwnVoucher, ReplyIsFresh
<1>6. CASE UNCHANGED vars
  BY <1>6 DEF vars, Typed, OwnVoucher, ReplyIsFresh
<1> QED BY <1>1, <1>2, <1>3, <1>4, <1>5, <1>6 DEF Next

LEMMA InvHolds == Spec => []Inv
BY InvInit, InvStep, PTL DEF Spec

\* Every variable has its type; a request that was answered has its voucher, and no
\* other request has one (payPaymentRequest.js).
THEOREM TypeCorrect == Spec => []TypeOK
<1>1. Inv => TypeOK
  BY VouchersAreSigned DEF Inv, Typed, OwnVoucher, TypeOK, Issued
<1> QED BY <1>1, InvHolds, PTL

\* However the requests interleave, and however late the sidecar answers, the head that
\* a voucher was made for is one the chain had since its own request arrived.
THEOREM HeadIsFresh ==
  Spec => [](\A r \in Issued :
               /\ voucher[r] = VoucherFor[reply[r]]
               /\ reply[r] # NoNumber => arrived[r] <= reply[r] /\ reply[r] <= chain_head)
<1>1. Inv => \A r \in Issued :
               /\ voucher[r] = VoucherFor[reply[r]]
               /\ reply[r] # NoNumber => arrived[r] <= reply[r] /\ reply[r] <= chain_head
  BY DEF Inv, OwnVoucher, ReplyIsFresh, Issued
<1> QED BY <1>1, InvHolds, PTL

-----------------------------------------------------------------------------
(* The bytes of a voucher. *)

LEMMA HeadsAreU32 == Heads \subseteq U32
<1>1. \A h \in Nat : h \div 65536 < 65536 => h < 4294967296
  BY SMT
<1>2. Pow(16, 8) = 4294967296
  BY PowersOf16
<1> QED BY <1>1, <1>2, HeadsAssumption, SMT DEF U32

\* The oracle block is the first of the era of the head: not one the chain has yet to reach.
LEMMA OracleBlockStartsEra ==
  ASSUME NEW block \in U32
  PROVE  /\ OracleBlock(block) \in U32
         /\ OracleBlock(block) <= block
         /\ OracleBlock(block) \div 1024 = block \div 1024
<1>1. block \in Nat /\ Pow(16, 8) \in Nat
  BY PowersOf16, SMT DEF U32
<1>2. OracleBlock(block) = (block \div 1024) * 1024
  BY <1>1, SMT DEF OracleBlock, Sesh, ParsedNonceLow
<1>3. /\ (block \div 1024) * 1024 \in Nat /\ (block \div 1024) * 1024 <= block
      /\ ((block \div 1024) * 1024) \div 1024 = block \div 1024
  BY <1>1, SMT
<1> QED BY <1>1, <1>2, <1>3, SMT DEF U32

Names == {"number", Commit, SenderKey, RecipientKey, Nonce}

\* The texts of the numbers, an answer without a block number included.
LEMMA Texts ==
  ASSUME NEW block \in Heads \cup {NoNumber}
  PROVE  /\ OracleText(block) \in Seq(Nat) /\ Len(OracleText(block)) <= 8
         /\ block # NoNumber => Eight(OracleText(block), OracleBlock(block))
         /\ NoRedeemText(block) \in Seq(Nat) /\ Len(NoRedeemText(block)) <= 24
<1>1. NaNText \in Seq(Nat) /\ Len(NaNText) = 3
  BY DEF NaNText
<1>2. CASE block = NoNumber
  BY <1>1, <1>2 DEF OracleText, NoRedeemText
<1>3. CASE block # NoNumber
  <2>1. block \in U32 /\ OracleBlock(block) \in U32
    BY <1>3, HeadsAreU32, OracleBlockStartsEra
  <2>2. OracleText(block) = Digits(OracleBlock(block), 16)
    BY <1>3 DEF OracleText
  <2>3. /\ OracleText(block) \in Seq(Nat) /\ Len(OracleText(block)) <= 8
        /\ Eight(OracleText(block), OracleBlock(block))
    <3>1. /\ Digits(OracleBlock(block), 16) \in Seq(Nat)
          /\ Len(Digits(OracleBlock(block), 16)) \in 1..8
          /\ \A i \in 1..8 : PadStart(Digits(OracleBlock(block), 16))[i]
                               = (OracleBlock(block) \div Pow(16, 8 - i)) % 16
      BY <2>1, HexDigits
    <3>2. \A n \in 1..8 : n <= 8
      BY SMT
    <3> QED BY <2>2, <3>1, <3>2, Zenon DEF Eight
  <2>4. NoRedeemText(block) \in Seq(Nat) /\ Len(NoRedeemText(block)) <= 24
    <3> DEFINE a == Digits(block, 10)
               b == Digits(2048, 10)
    <3>1. 2048 \in U32
      BY PowersOf16, SMT DEF U32
    <3>2. a \in Seq(Nat) /\ Len(a) \in 1..10 /\ b \in Seq(Nat) /\ Len(b) \in 1..10
      BY <2>1, <3>1, DecimalDigits
    <3>3. NoRedeemText(block) = a \o b
      BY <1>3 DEF NoRedeemText
    <3> HIDE DEF a, b
    <3>4. a \o b \in Seq(Nat) /\ Len(a \o b) = Len(a) + Len(b)
      <4>1. a \in Seq(Nat) /\ b \in Seq(Nat)
        BY <3>2
      <4> QED BY <4>1, ConcatElements
    <3>5. \A m, n \in 1..10 : m + n <= 24
      BY SMT
    <3>6. Len(a) + Len(b) <= 24
      BY <3>2, <3>5
    <3> QED BY <3>3, <3>4, <3>6
  <2> QED BY <2>3, <2>4
<1> QED BY <1>2, <1>3

LEMMA IssuedData ==
  ASSUME NEW block \in Heads \cup {NoNumber}
  PROVE  /\ VoucherData(block) \in Data(Names)
         /\ Eight(Digits(DIFFICULTY, 16), DIFFICULTY)
         /\ Eight(Digits(VALUE_IF_PAID, 16), VALUE_IF_PAID)
<1> DEFINE data == VoucherData(block)
           hex(n) == Digits(n, 16)
<1>1. DIFFICULTY \in U32 /\ VALUE_IF_PAID \in U32
  BY PowersOf16, SMT DEF U32, DIFFICULTY, VALUE_IF_PAID
<1>2. ASSUME NEW n \in U32 PROVE hex(n) \in Seq(Nat) /\ Len(hex(n)) <= 8 /\ Eight(hex(n), n)
  <2>1. /\ hex(n) \in Seq(Nat) /\ Len(hex(n)) \in 1..8
        /\ \A i \in 1..8 : PadStart(hex(n))[i] = (n \div Pow(16, 8 - i)) % 16
    BY HexDigits
  <2>2. \A k \in 1..8 : k <= 8
    BY SMT
  <2> HIDE DEF hex
  <2> QED BY <2>1, <2>2, Zenon DEF Eight
<1>3. /\ hex(DIFFICULTY) \in Seq(Nat) /\ Len(hex(DIFFICULTY)) <= 8
      /\ hex(VALUE_IF_PAID) \in Seq(Nat) /\ Len(hex(VALUE_IF_PAID)) <= 8
      /\ Eight(hex(DIFFICULTY), DIFFICULTY) /\ Eight(hex(VALUE_IF_PAID), VALUE_IF_PAID)
  BY <1>1, <1>2, Zenon
<1>4. /\ data.oracleBlock = OracleText(block) /\ data.difficulty = hex(DIFFICULTY)
      /\ data.noRedeemBeforeBlock = NoRedeemText(block) /\ data.valueIfPaid = hex(VALUE_IF_PAID)
  BY DEF VoucherData
<1>5. data \in [oracleBlock : Seq(Nat), difficulty : Seq(Nat), noRedeemBeforeBlock : Seq(Nat),
                valueIfPaid : Seq(Nat), priceListCommit : Names, senderPubKey : Names,
                recipientPubKey : Names, nonce : Names]
  <2>1. /\ OracleText(block) \in Seq(Nat) /\ NoRedeemText(block) \in Seq(Nat)
        /\ hex(DIFFICULTY) \in Seq(Nat) /\ hex(VALUE_IF_PAID) \in Seq(Nat)
    BY <1>3, Texts
  <2>2. Commit \in Names /\ SenderKey \in Names /\ RecipientKey \in Names /\ Nonce \in Names
    BY DEF Names
  <2> QED BY <2>1, <2>2 DEF VoucherData
<1> HIDE DEF hex, data
<1>6. Len(NumberTexts(data)) <= 96
  <2>1. \A text \in Seq(Nat) : Len(text) <= 8 => Len(text) <= 24
    <3>1. \A n \in Nat : n <= 8 => n <= 24
      BY SMT
    <3> QED BY <3>1
  <2>2. /\ OracleText(block) \in Seq(Nat) /\ Len(OracleText(block)) <= 24
        /\ NoRedeemText(block) \in Seq(Nat) /\ Len(NoRedeemText(block)) <= 24
        /\ hex(DIFFICULTY) \in Seq(Nat) /\ Len(hex(DIFFICULTY)) <= 24
        /\ hex(VALUE_IF_PAID) \in Seq(Nat) /\ Len(hex(VALUE_IF_PAID)) <= 24
    BY <1>3, <2>1, Texts
  <2> QED BY <1>4, <2>2, ShortTextsFit
<1> QED BY <1>3, <1>5, <1>6 DEF Data, data, hex

-----------------------------------------------------------------------------
(* The text of noRedeemBeforeBlock: a block number with "2048" behind it. *)

LEMMA Text2048 ==
  LET e == Digits(2048, 10)
  IN  e \in Seq(Nat) /\ Len(e) = 4 /\ e[1] = 2 /\ e[2] = 0 /\ e[3] = 4 /\ e[4] = 8
<1> DEFINE n == 2048
           len == DigitCount(n, 10)
           e == Digits(n, 10)
<1>1. n \in U32
  BY PowersOf16, SMT DEF U32
<1>2. /\ len \in 1..10 /\ Fits(n, 10, len) /\ e \in Seq(Nat) /\ Len(e) = len
      /\ \A i \in 1..len : e[i] = (n \div Pow(10, len - i)) % 10
  <2> HIDE DEF n
  <2> QED BY <1>1, DecimalText
<1> HIDE DEF n, len, e
<1>3. len = 4
  <2>1. n < Pow(10, len) /\ (len = 1 \/ n >= Pow(10, len - 1))
    BY <1>2 DEF Fits
  <2>2. \/ len = 1 \/ len = 2 \/ len = 3 \/ len = 4 \/ len - 1 = 4 \/ len - 1 = 5
        \/ len - 1 = 6 \/ len - 1 = 7 \/ len - 1 = 8 \/ len - 1 = 9
    BY <1>2, SMT
  <2>3. /\ ~ n < Pow(10, 1) /\ ~ n < Pow(10, 2) /\ ~ n < Pow(10, 3)
        /\ ~ n >= Pow(10, 4) /\ ~ n >= Pow(10, 5) /\ ~ n >= Pow(10, 6)
        /\ ~ n >= Pow(10, 7) /\ ~ n >= Pow(10, 8) /\ ~ n >= Pow(10, 9)
    BY PowersOf10, SMT DEF n
  <2>4. len = 1 => len # 2 /\ len # 3 /\ len - 1 = 0
    BY SMT
  <2> QED BY <2>1, <2>2, <2>3, <2>4, Zenon
<1>4. \A i \in {1, 2, 3, 4} : e[i] = (n \div Pow(10, 4 - i)) % 10
  <2>1. \A i \in {1, 2, 3, 4} : i \in 1..4
    BY SMT
  <2> QED BY <1>2, <1>3, <2>1, Zenon
<1>5. /\ e[1] = (n \div Pow(10, 3)) % 10 /\ e[2] = (n \div Pow(10, 2)) % 10
      /\ e[3] = (n \div Pow(10, 1)) % 10 /\ e[4] = (n \div Pow(10, 0)) % 10
  <2>1. 4 - 1 = 3 /\ 4 - 2 = 2 /\ 4 - 3 = 1 /\ 4 - 4 = 0
    BY SMT
  <2> QED BY <1>4, <2>1, Zenon
<1>6. e[1] = 2 /\ e[2] = 0 /\ e[3] = 4 /\ e[4] = 8
  BY <1>5, PowersOf10, SMT DEF n
<1> QED BY <1>2, <1>3, <1>6 DEF e, n

\* Up to block 9999 that text has no more digits than its field.
LEMMA NoRedeemFits ==
  ASSUME NEW block \in Nat, block < Pow(10, 4)
  PROVE  Len(Digits(block, 10) \o Digits(2048, 10)) <= 8
<1> DEFINE d == Digits(block, 10)
           e == Digits(2048, 10)
           k == DigitCount(block, 10)
<1>1. block \in U32
  BY PowersOf10, PowersOf16, SMT DEF U32
<1>2. k \in 1..10 /\ Fits(block, 10, k) /\ d \in Seq(Nat) /\ Len(d) = k
  BY <1>1, DecimalText
<1>3. e \in Seq(Nat) /\ Len(e) = 4
  BY Text2048
<1> HIDE DEF d, e, k
<1>4. k \in {1, 2, 3, 4}
  <2>1. k \in {1, 2, 3, 4} \/ (k # 1 /\ k - 1 \in {4, 5, 6, 7, 8, 9})
    BY <1>2, SMT
  <2>2. \A m \in {4, 5, 6, 7, 8, 9} : ~ block >= Pow(10, m)
    BY PowersOf10, SMT
  <2>3. k = 1 \/ block >= Pow(10, k - 1)
    BY <1>2 DEF Fits
  <2> QED BY <2>1, <2>2, <2>3, Zenon
<1>5. Len(d \o e) = k + 4
  <2>1. d \in Seq(Nat) /\ e \in Seq(Nat)
    BY <1>2, <1>3
  <2>2. Len(d \o e) = Len(d) + Len(e)
    BY <2>1, ConcatElements
  <2> QED BY <1>2, <1>3, <2>2
<1> QED BY <1>4, <1>5, SMT DEF d, e

\* What the first eight characters of that text are: up to block 9999 they end in "2048"
\* behind the last digit of the block, later they start with a digit that is no zero.
ShortText(x, block) ==
  /\ block < 10000
  /\ x[4] = block % 10 /\ x[5] = 2 /\ x[6] = 0 /\ x[7] = 4 /\ x[8] = 8

LongText(x) ==
  /\ x[1] \in 1..9 /\ x[2] \in 0..9 /\ x[7] \in 0..9 /\ x[8] \in 0..9
  /\ x[7] # 0 \/ x[8] # 0

EraText(x, block) ==
  /\ \A i \in 1..8 : x[i] \in Nat
  /\ ShortText(x, block) \/ LongText(x)

LEMMA NoRedeemDigits ==
  ASSUME NEW block \in Nat, block < Pow(10, 7)
  PROVE  EraText(PadStart(Digits(block, 10) \o Digits(2048, 10)), block)
<1> DEFINE d == Digits(block, 10)
           e == Digits(2048, 10)
           t == d \o e
           x == PadStart(t)
           k == DigitCount(block, 10)
<1>1. block \in U32
  BY PowersOf10, PowersOf16, SMT DEF U32
<1>2. /\ k \in 1..10 /\ Fits(block, 10, k) /\ d \in Seq(Nat) /\ Len(d) = k
      /\ \A i \in 1..k : d[i] = (block \div Pow(10, k - i)) % 10
  BY <1>1, DecimalText
<1>3. e \in Seq(Nat) /\ Len(e) = 4 /\ e[1] = 2 /\ e[2] = 0 /\ e[3] = 4 /\ e[4] = 8
  BY Text2048
<1> HIDE DEF d, e, k
<1>4. /\ t \in Seq(Nat) /\ Len(t) = k + 4
      /\ \A i \in 1..k : t[i] = d[i]
      /\ \A i \in 1..4 : t[k + i] = e[i]
  <2>1. /\ t \in Seq(Nat) /\ Len(t) = Len(d) + Len(e)
        /\ \A i \in 1..Len(d) : t[i] = d[i]
        /\ \A i \in 1..Len(e) : t[Len(d) + i] = e[i]
    <3>1. d \in Seq(Nat) /\ e \in Seq(Nat)
      BY <1>2, <1>3
    <3> QED BY <3>1, ConcatElements
  <2>2. Len(d) = k /\ Len(e) = 4
    BY <1>2, <1>3
  <2> QED BY <2>1, <2>2, Zenon
<1> HIDE DEF t
<1>5. /\ x \in Seq(Nat) /\ 8 \in Nat /\ Len(x) = IF k + 4 <= 8 THEN 8 ELSE k + 4
      /\ k + 4 <= 8 => \A i \in 1..8 : x[i] = IF i <= 8 - (k + 4) THEN 0 ELSE t[i - (8 - (k + 4))]
      /\ ~ (k + 4 <= 8) => x = t
  <2>1. /\ x \in Seq(Nat)
        /\ Len(x) = IF Len(t) <= 8 THEN 8 ELSE Len(t)
        /\ Len(t) <= 8 => \A i \in 1..8 : x[i] = IF i <= 8 - Len(t) THEN 0 ELSE t[i - (8 - Len(t))]
    BY <1>4, PadStartDigits
  <2>2. ASSUME ~ (k + 4 <= 8) PROVE x = t
    <3>1. 8 - Len(t) <= 0
      <4>1. \A m \in 1..10 : ~ (m + 4 <= 8) => 8 - (m + 4) <= 0
        BY SMT
      <4> QED BY <1>2, <1>4, <2>2, <4>1
    <3> QED BY <3>1 DEF PadStart
  <2> QED BY <1>4, <2>1, <2>2
<1> HIDE DEF x
<1>6. \A i \in 1..8 : x[i] \in Nat
  <2>1. \A i \in 1..8 : i \in 1..(IF k + 4 <= 8 THEN 8 ELSE k + 4)
    BY <1>2, SMT
  <2>2. \A i \in 1..Len(x) : x[i] \in Nat
    <3>1. x \in Seq(Nat)
      BY <1>5
    <3> QED BY <3>1
  <2> QED BY <1>5, <2>1, <2>2, Zenon
<1>7. ASSUME k <= 4 PROVE ShortText(x, block)
  <2>1. block < 10000
    <3>1. \A m \in {1, 2, 3, 4} : Pow(10, m) \in Nat /\ Pow(10, m) <= 10000
      BY PowersOf10, SMT
    <3>2. block < Pow(10, k) /\ k \in {1, 2, 3, 4}
      BY <1>2, <1>7, SMT DEF Fits
    <3>3. Pow(10, k) \in Nat /\ Pow(10, k) <= 10000
      BY <3>1, <3>2
    <3> QED BY <3>2, <3>3, SMT
  <2>2. \A i \in 1..8 : x[i] = IF i <= 4 - k THEN 0 ELSE t[i - (4 - k)]
    <3>1. k + 4 <= 8
      BY <1>2, <1>7, SMT
    <3>2. \A i \in 1..8 : x[i] = IF i <= 8 - (k + 4) THEN 0 ELSE t[i - (8 - (k + 4))]
      BY <1>5, <3>1, Zenon
    <3> SUFFICES ASSUME NEW i \in 1..8 PROVE x[i] = IF i <= 4 - k THEN 0 ELSE t[i - (4 - k)]
      OBVIOUS
    <3>3. ((i <= 8 - (k + 4)) <=> (i <= 4 - k)) /\ i - (8 - (k + 4)) = i - (4 - k)
      BY <1>2, SMT
    <3>4. x[i] = IF i <= 8 - (k + 4) THEN 0 ELSE t[i - (8 - (k + 4))]
      BY <3>2
    <3> QED BY <3>3, <3>4, Zenon
  <2>3. x[4] = t[k] /\ x[5] = t[k + 1] /\ x[6] = t[k + 2] /\ x[7] = t[k + 3] /\ x[8] = t[k + 4]
    <3>1. /\ ~ (4 <= 4 - k) /\ ~ (5 <= 4 - k) /\ ~ (6 <= 4 - k) /\ ~ (7 <= 4 - k) /\ ~ (8 <= 4 - k)
          /\ 4 - (4 - k) = k /\ 5 - (4 - k) = k + 1 /\ 6 - (4 - k) = k + 2
          /\ 7 - (4 - k) = k + 3 /\ 8 - (4 - k) = k + 4
          /\ 4 \in 1..8 /\ 5 \in 1..8 /\ 6 \in 1..8 /\ 7 \in 1..8 /\ 8 \in 1..8
      BY <1>2, <1>7, SMT
    <3> QED BY <2>2, <3>1, Zenon
  <2>4. t[k + 1] = 2 /\ t[k + 2] = 0 /\ t[k + 3] = 4 /\ t[k + 4] = 8
    <3>1. 1 \in 1..4 /\ 2 \in 1..4 /\ 3 \in 1..4 /\ 4 \in 1..4
      BY SMT
    <3> QED BY <1>3, <1>4, <3>1, Zenon
  <2>5. t[k] = block % 10
    <3>1. k \in 1..k /\ k - k = 0
      BY <1>2, SMT
    <3>2. t[k] = (block \div Pow(10, 0)) % 10
      BY <1>2, <1>4, <3>1, Zenon
    <3>3. Pow(10, 0) = 1 /\ block \div 1 = block
      BY PowersOf10, SMT
    <3> QED BY <3>2, <3>3
  <2> QED BY <2>1, <2>3, <2>4, <2>5, SMT DEF ShortText
<1>8. ASSUME ~ (k <= 4) PROVE LongText(x)
  <2>1. k \in {5, 6, 7}
    <3>1. k \in {1, 2, 3, 4, 5, 6, 7} \/ (k # 1 /\ k - 1 \in {7, 8, 9})
      BY <1>2, SMT
    <3>2. \A m \in {7, 8, 9} : ~ block >= Pow(10, m)
      BY PowersOf10, SMT
    <3>3. k = 1 \/ block >= Pow(10, k - 1)
      BY <1>2 DEF Fits
    <3>4. k \in {1, 2, 3, 4, 5, 6, 7}
      BY <3>1, <3>2, <3>3, Zenon
    <3> QED BY <1>8, <3>4, SMT
  <2>2. x = t
    <3>1. ~ (k + 4 <= 8)
      BY <1>2, <1>8, SMT
    <3> QED BY <1>5, <3>1, Zenon
  <2>3. \A i \in 1..k : d[i] \in 0..9
    <3> SUFFICES ASSUME NEW i \in 1..k PROVE d[i] \in 0..9
      OBVIOUS
    <3> DEFINE power == Pow(10, k - i)
    <3>1. power \in Nat \ {0}
      <4>1. k - i \in 0..10
        BY <1>2, SMT
      <4> QED BY <4>1, PowersArePositive
    <3>2. d[i] = (block \div power) % 10
      BY <1>2
    <3> HIDE DEF power
    <3>3. block \div power \in Nat
      BY <3>1, SMT
    <3> QED BY <3>2, <3>3, SMT
  <2>4. d[1] # 0
    <3> DEFINE power == Pow(10, k - 1)
    <3>1. power \in Nat \ {0} /\ Pow(10, k) = 10 * power
      <4>1. (k = 5 /\ k - 1 = 4) \/ (k = 6 /\ k - 1 = 5) \/ (k = 7 /\ k - 1 = 6)
        BY <2>1, SMT
      <4> QED BY <4>1, PowersOf10, SMT
    <3>2. block < 10 * power /\ block >= power
      <4>1. k # 1
        BY <2>1, SMT
      <4> QED BY <1>2, <3>1, <4>1 DEF Fits
    <3>3. d[1] = (block \div power) % 10
      <4>1. 1 \in 1..k
        BY <1>2, SMT
      <4> QED BY <1>2, <4>1
    <3> HIDE DEF power
    <3>4. block \div power \in 1..9
      BY <3>1, <3>2, SMT
    <3> QED BY <3>3, <3>4, SMT
  <2>5. x[1] = d[1] /\ x[2] = d[2] /\ d[1] \in 0..9 /\ d[2] \in 0..9
    <3>1. 1 \in 1..k /\ 2 \in 1..k
      BY <2>1, SMT
    <3> QED BY <1>4, <2>2, <2>3, <3>1, Zenon
  <2>6. \A i \in {1, 2, 3, 4} : x[k + i] = e[i]
    <3>1. \A i \in {1, 2, 3, 4} : i \in 1..4
      BY SMT
    <3> QED BY <1>4, <2>2, <3>1, Zenon
  <2>7. x[7] \in 0..9 /\ x[8] \in 0..9 /\ (x[7] # 0 \/ x[8] # 0)
    <3>1. CASE k = 5
      <4>1. 5 + 2 = 7 /\ 5 + 3 = 8
        BY SMT
      <4>2. x[7] = 0 /\ x[8] = 4
        BY <1>3, <2>6, <3>1, <4>1, Zenon
      <4> QED BY <4>2, SMT
    <3>2. CASE k = 6
      <4>1. 6 + 1 = 7 /\ 6 + 2 = 8
        BY SMT
      <4>2. x[7] = 2 /\ x[8] = 0
        BY <1>3, <2>6, <3>2, <4>1, Zenon
      <4> QED BY <4>2, SMT
    <3>3. CASE k = 7
      <4>1. 7 + 1 = 8 /\ 7 \in 1..7
        BY SMT
      <4>2. x[7] = d[7] /\ d[7] \in 0..9
        BY <1>4, <2>2, <2>3, <3>3, <4>1, Zenon
      <4>3. x[8] = 2
        BY <1>3, <2>6, <3>3, <4>1, Zenon
      <4> QED BY <4>2, <4>3, SMT
    <3> QED BY <2>1, <3>1, <3>2, <3>3, Zenon
  <2>8. x[1] \in 1..9 /\ x[2] \in 0..9
    BY <2>4, <2>5, SMT
  <2> QED BY <2>7, <2>8, Zenon DEF LongText
<1>9. EraText(x, block)
  BY <1>6, <1>7, <1>8, Zenon DEF EraText
<1> QED BY <1>9 DEF x, t, d, e

\* Those characters are the number two eras on from the block in neither byte order.
LEMMA NeverTwoErasOn ==
  ASSUME NEW block \in Nat, block < Pow(10, 7), NEW text,
         EraText(PadStart(text), block)
  PROVE  FromLeBytes(FourBytes(PadStart(text))) \notin {Number(block + 2048), Swapped(block + 2048)}
<1> DEFINE x == PadStart(text)
           n == block + 2048
<1> SUFFICES FourBytes(x) # Number(n) /\ FourBytes(x) # Swapped(n)
  <2> HIDE DEF x, n
  <2> SUFFICES FromLeBytes(FourBytes(x)) # Number(n) /\ FromLeBytes(FourBytes(x)) # Swapped(n)
    BY DEF x, n
  <2>1. FromLeBytes(FromLeBytes(FourBytes(x))) = FourBytes(x)
    BY FourBytesTwice
  <2> QED BY <2>1, NumbersDecode, Zenon
<1>1. n \in Nat /\ n < 16777216
  BY PowersOf10, SMT
<1>2. /\ FourBytes(x)[1] = <<"number", 16 * x[1] + x[2]>>
      /\ FourBytes(x)[2] = <<"number", 16 * x[3] + x[4]>>
      /\ FourBytes(x)[3] = <<"number", 16 * x[5] + x[6]>>
      /\ FourBytes(x)[4] = <<"number", 16 * x[7] + x[8]>>
  <2> HIDE DEF x
  <2>1. \A j \in 1..4 : FourBytes(x)[j] = <<"number", 16 * x[2 * j - 1] + x[2 * j]>>
    BY Zenon DEF FourBytes
  <2>2. /\ 2 * 1 - 1 = 1 /\ 2 * 1 = 2 /\ 2 * 2 - 1 = 3 /\ 2 * 2 = 4
        /\ 2 * 3 - 1 = 5 /\ 2 * 3 = 6 /\ 2 * 4 - 1 = 7 /\ 2 * 4 = 8
        /\ 1 \in 1..4 /\ 2 \in 1..4 /\ 3 \in 1..4 /\ 4 \in 1..4
    BY SMT
  <2> QED BY <2>1, <2>2, Zenon
<1> HIDE DEF x, n
<1>3. ASSUME NEW a, NEW c, NEW e, <<"number", a>> = Byte(c, e)
      PROVE  a = (c \div Pow(256, e)) % 256
  BY <1>3, Zenon DEF Byte
<1>4. \A i \in 1..8 : x[i] \in Nat
  BY DEF EraText, x
<1>5. CASE LongText(x)
  <2>1. 16 * x[1] + x[2] # 0 /\ 16 * x[7] + x[8] # 0
    BY <1>5, SMT DEF LongText
  <2>2. (n \div Pow(256, 3)) % 256 = 0
    BY <1>1, PowersOf256, SMT
  <2>3. FourBytes(x)[1] # Byte(n, 3) /\ FourBytes(x)[4] # Byte(n, 3)
    BY <1>2, <1>3, <2>1, <2>2
  <2> QED BY <2>3, BytesInOrder, Zenon
<1>6. CASE ShortText(x, block)
  <2>1. 16 * x[5] + x[6] = 32 /\ 16 * x[7] + x[8] = 72
    BY <1>6, SMT DEF ShortText
  <2>2. (n \div Pow(256, 3)) % 256 = 0 /\ (n \div Pow(256, 2)) % 256 = 0
    BY <1>6, PowersOf256, SMT DEF ShortText, n
  <2>3. FourBytes(x)[4] # Byte(n, 3)
    <3>1. 72 # 0
      BY SMT
    <3> QED BY <1>2, <1>3, <2>1, <2>2, <3>1
  <2>4. ASSUME FourBytes(x) = Number(n) PROVE FALSE
    <3>1. /\ 16 * x[3] + x[4] = (n \div Pow(256, 2)) % 256
          /\ 16 * x[5] + x[6] = (n \div Pow(256, 1)) % 256
          /\ 16 * x[7] + x[8] = (n \div Pow(256, 0)) % 256
      <4>1. /\ FourBytes(x)[2] = Byte(n, 2) /\ FourBytes(x)[3] = Byte(n, 1)
            /\ FourBytes(x)[4] = Byte(n, 0)
        BY <2>4, BytesInOrder, Zenon
      <4>2. 16 * x[3] + x[4] = (n \div Pow(256, 2)) % 256
        <5>1. <<"number", 16 * x[3] + x[4]>> = Byte(n, 2)
          BY <1>2, <4>1, Zenon
        <5> QED BY <5>1, <1>3
      <4>3. 16 * x[5] + x[6] = (n \div Pow(256, 1)) % 256
        <5>1. <<"number", 16 * x[5] + x[6]>> = Byte(n, 1)
          BY <1>2, <4>1, Zenon
        <5> QED BY <5>1, <1>3
      <4>4. 16 * x[7] + x[8] = (n \div Pow(256, 0)) % 256
        <5>1. <<"number", 16 * x[7] + x[8]>> = Byte(n, 0)
          BY <1>2, <4>1, Zenon
        <5> QED BY <5>1, <1>3
      <4> QED BY <4>2, <4>3, <4>4
    <3>2. 16 * x[3] + x[4] = 0 /\ n < 65536 /\ (n \div 256) % 256 = 32 /\ n % 256 = 72
      BY <1>1, <1>6, <2>1, <2>2, <3>1, PowersOf256, SMT DEF ShortText, n
    <3>3. n = 8264
      BY <1>1, <3>2, SMT
    <3>4. block = 6216
      BY <3>3, SMT DEF n
    <3>5. x[4] = 6
      BY <1>6, <3>4, SMT DEF ShortText
    <3>6. x[3] \in Nat
      BY <1>4, SMT
    <3> QED BY <3>2, <3>5, <3>6, SMT
  <2> QED BY <2>3, <2>4, BytesInOrder, Zenon
<1>7. LongText(x) \/ ShortText(x, block)
  BY Zenon DEF EraText, x
<1> QED BY <1>5, <1>6, <1>7

-----------------------------------------------------------------------------
(* What is issued. *)

\* What the pallet reads in a voucher that was issued on an answer.
LEMMA IssuedFields ==
  ASSUME NEW block \in Heads \cup {NoNumber}
  PROVE  LET p == Parse(VoucherFor[block])
         IN  /\ p.price_list_commit = FromLeBytes(SubSeq(Bytes32(Commit), 1, 16))
             /\ p.sender_pk = Bytes32(SenderKey)
             /\ p.recipient_pk = Bytes32(RecipientKey)
             /\ p.nonce = Bytes32(Nonce)
             /\ p.difficulty = Swapped(DIFFICULTY)
             /\ block # NoNumber => p.oracle_block = Swapped(OracleBlock(block))
             /\ block < Pow(10, 4) => p.value_if_paid = Swapped(VALUE_IF_PAID)
<1> DEFINE data == VoucherData(block)
           v == PackAndSign(data, SigningKey)
           raw == RawFields(v)
           p == Parse(v)
<1>1. VoucherFor[block] = v
  BY DEF VoucherFor
<1>2. /\ data.oracleBlock = OracleText(block) /\ data.difficulty = Digits(DIFFICULTY, 16)
      /\ data.noRedeemBeforeBlock = NoRedeemText(block)
      /\ data.valueIfPaid = Digits(VALUE_IF_PAID, 16)
      /\ data.priceListCommit = Commit /\ data.senderPubKey = SenderKey
      /\ data.recipientPubKey = RecipientKey /\ data.nonce = Nonce
  BY DEF VoucherData
<1>3. /\ data \in Data(Names) /\ "number" \in Names
      /\ Eight(Digits(DIFFICULTY, 16), DIFFICULTY)
      /\ Eight(Digits(VALUE_IF_PAID, 16), VALUE_IF_PAID)
  BY IssuedData DEF Names
<1>4. /\ Len(OracleText(block)) <= 8
      /\ block # NoNumber => Eight(OracleText(block), OracleBlock(block))
  BY Texts
<1>5. block < Pow(10, 4) => Len(NoRedeemText(block)) <= 8
  <2>1. CASE block = NoNumber
    <3>1. Len(NoRedeemText(block)) = 3
      BY <2>1 DEF NoRedeemText, NaNText
    <3> QED BY <3>1, SMT
  <2>2. CASE block # NoNumber
    <3>1. block \in Nat /\ NoRedeemText(block) = Digits(block, 10) \o Digits(2048, 10)
      BY <2>2, HeadsAssumption DEF NoRedeemText
    <3> QED BY <3>1, NoRedeemFits
  <2> QED BY <2>1, <2>2
<1>6. /\ block # NoNumber => OracleBlock(block) \in Nat
      /\ DIFFICULTY \in Nat /\ VALUE_IF_PAID \in Nat
  BY HeadsAreU32, OracleBlockStartsEra DEF U32, DIFFICULTY, VALUE_IF_PAID
<1> HIDE DEF data, v, p, raw
<1>7. NumbersAreBytes(raw, HexToU8a(NumberTexts(data))) /\ NamesAreOwn(raw, data)
  BY <1>3, WrittenBytes DEF v, raw
<1>8. NumbersAreOwn(raw, data)
  BY <1>3, <1>7, NumbersInPlace
<1>9. Decoded(p, raw)
  BY ParseDecodes DEF p, raw
<1>10. \A n \in Nat : \A text : Eight(text, n)
         => Len(text) <= 8 /\ FromLeBytes(FourBytes(PadStart(text))) = Swapped(n)
  BY EightDecodes, Zenon DEF Eight
<1>11. /\ p.difficulty = Swapped(DIFFICULTY)
       /\ block # NoNumber => p.oracle_block = Swapped(OracleBlock(block))
       /\ block < Pow(10, 4) => p.value_if_paid = Swapped(VALUE_IF_PAID)
  <2>1. p.difficulty = Swapped(DIFFICULTY)
    BY <1>2, <1>3, <1>4, <1>6, <1>8, <1>9, <1>10, Zenon DEF NumbersAreOwn, Decoded
  <2>2. block # NoNumber => p.oracle_block = Swapped(OracleBlock(block))
    BY <1>2, <1>4, <1>6, <1>8, <1>9, <1>10, Zenon DEF NumbersAreOwn, Decoded
  <2>3. block < Pow(10, 4) => p.value_if_paid = Swapped(VALUE_IF_PAID)
    <3>1. Len(data.oracleBlock) <= 8 /\ Len(data.difficulty) <= 8
      BY <1>2, <1>3, <1>4, <1>6, <1>10, Zenon
    <3>2. FromLeBytes(FourBytes(PadStart(data.valueIfPaid))) = Swapped(VALUE_IF_PAID)
      BY <1>2, <1>3, <1>6, <1>10, Zenon
    <3>3. p.value_if_paid = FromLeBytes(raw.value_if_paid)
      BY <1>9, Zenon DEF Decoded
    <3>4. Len(data.noRedeemBeforeBlock) <= 8
            => raw.value_if_paid = FourBytes(PadStart(data.valueIfPaid))
      BY <1>8, <3>1, Zenon DEF NumbersAreOwn
    <3> QED BY <1>2, <1>5, <3>2, <3>3, <3>4
  <2> QED BY <2>1, <2>2, <2>3
<1>12. /\ p.price_list_commit = FromLeBytes([i \in 1..16 |-> <<Commit, i>>])
       /\ p.sender_pk = Bytes32(SenderKey)
       /\ p.recipient_pk = Bytes32(RecipientKey)
       /\ p.nonce = Bytes32(Nonce)
  BY <1>2, <1>7, <1>9, Zenon DEF NamesAreOwn, Decoded
<1>13. SubSeq(Bytes32(Commit), 1, 16) = [i \in 1..16 |-> <<Commit, i>>]
  <2> DEFINE m == 32
             none == 0
             to == 16
  <2>1. Bytes32(Commit) \in [1..m -> {Commit} \X Nat]
    BY DEF Bytes32
  <2>2. m \in Nat /\ none \in Nat /\ to \in Nat /\ none <= to /\ to <= m
    OBVIOUS
  <2> HIDE DEF m, none, to
  <2>3. SubSeq(Bytes32(Commit), none + 1, to) = [i \in 1..(to - none) |-> Bytes32(Commit)[none + i]]
    BY <2>1, <2>2, SliceIsFunction
  <2>4. SubSeq(Bytes32(Commit), 1, 16) = [i \in 1..16 |-> Bytes32(Commit)[i]]
    BY <2>3 DEF none, to
  <2> QED BY <2>4 DEF Bytes32
<1>14. p.price_list_commit = FromLeBytes(SubSeq(Bytes32(Commit), 1, 16))
  BY <1>12, <1>13, Zenon
<1>15. p = Parse(VoucherFor[block])
  BY <1>1 DEF p
<1> QED BY <1>11, <1>12, <1>14, <1>15, Zenon

\* For every block number of 32 bits, and for an answer without one, the commitment, the
\* keys and the nonce reach the pallet, and so do all bytes of the oracle block, of the
\* difficulty and, up to block 9999, of the value, in the other order
\* (packAndSignVoucher.js, Voucher::parse).
THEOREM VouchersSurvive == Spec => []FieldsSurvive
<1>1. Inv => FieldsSurvive
  <2> SUFFICES ASSUME Inv, NEW r \in Issued
               PROVE  LET p == Parse(voucher[r])
                      IN  /\ p.price_list_commit = FromLeBytes(SubSeq(Bytes32(Commit), 1, 16))
                          /\ p.sender_pk = Bytes32(SenderKey)
                          /\ p.recipient_pk = Bytes32(RecipientKey)
                          /\ p.nonce = Bytes32(Nonce)
                          /\ p.difficulty = Swapped(DIFFICULTY)
                          /\ reply[r] # NoNumber => p.oracle_block = Swapped(OracleBlock(reply[r]))
                          /\ reply[r] < 10000 => p.value_if_paid = Swapped(VALUE_IF_PAID)
    BY DEF FieldsSurvive
  <2>1. voucher[r] = VoucherFor[reply[r]] /\ reply[r] \in Heads \cup {NoNumber}
    BY DEF Inv, Typed, OwnVoucher, Issued
  <2>2. Pow(10, 4) = 10000
    BY PowersOf10, SMT
  <2> QED BY <2>1, <2>2, IssuedFields
<1> QED BY <1>1, InvHolds, PTL

\* The finding of run numbers_read_back holds of every voucher: whatever the sidecar
\* answered, the difficulty the pallet reads is not the one the local node wrote
\* (packAndSignVoucher.js:24-28, lib.rs:54).
THEOREM DifficultyNeverReadsBack ==
  Spec => [](\A r \in Issued : Parse(voucher[r]).difficulty # Number(DIFFICULTY))
<1>1. Swapped(DIFFICULTY) # Number(DIFFICULTY)
  <2> DEFINE n == DIFFICULTY
  <2>1. (n \div Pow(256, 3)) % 256 = 0 /\ (n \div Pow(256, 0)) % 256 = 136 /\ 136 # 0
    BY PowersOf256, SMT DEF DIFFICULTY
  <2> HIDE DEF n
  <2>2. Number(n)[4] = Byte(n, 0) /\ Swapped(n)[4] = Byte(n, 3)
    BY BytesInOrder, Zenon
  <2>3. Byte(n, 0) # Byte(n, 3)
    <3>1. ASSUME NEW a, NEW b, a # b PROVE <<"number", a>> # <<"number", b>>
      BY <3>1
    <3> QED BY <2>1, <3>1, Zenon DEF Byte
  <2> QED BY <2>2, <2>3, Zenon DEF n
<1>2. Inv => \A r \in Issued : Parse(voucher[r]).difficulty # Number(DIFFICULTY)
  <2> SUFFICES ASSUME Inv, NEW r \in Issued
               PROVE  Parse(voucher[r]).difficulty # Number(DIFFICULTY)
    OBVIOUS
  <2>1. voucher[r] = VoucherFor[reply[r]] /\ reply[r] \in Heads \cup {NoNumber}
    BY DEF Inv, Typed, OwnVoucher, Issued
  <2>2. Parse(voucher[r]).difficulty = Swapped(DIFFICULTY)
    BY <2>1, IssuedFields
  <2> QED BY <1>1, <2>2
<1> QED BY <1>2, InvHolds, PTL

\* However the requests interleave, and however late the sidecar answers, the era in the
\* bytes of a voucher is one the chain was in since its own request arrived.
THEOREM ErasAreFresh == Spec => []EraIsFresh
<1>1. Inv => EraIsFresh
  <2> SUFFICES ASSUME Inv, NEW r \in Issued, reply[r] # NoNumber
               PROVE  \E h \in Heads :
                        /\ arrived[r] <= h /\ h <= chain_head
                        /\ Parse(voucher[r]).oracle_block = Swapped(OracleBlock(h))
    BY DEF EraIsFresh
  <2>1. /\ voucher[r] = VoucherFor[reply[r]] /\ reply[r] \in Heads
        /\ arrived[r] <= reply[r] /\ reply[r] <= chain_head
    BY DEF Inv, Typed, OwnVoucher, ReplyIsFresh, Issued
  <2>2. Parse(voucher[r]).oracle_block = Swapped(OracleBlock(reply[r]))
    BY <2>1, IssuedFields
  <2> QED BY <2>1, <2>2
<1> QED BY <1>1, InvHolds, PTL

\* The oracle block a voucher names is the first of the era the head was in, a block the
\* chain had already passed, and never in the era README.md:58 promises, the next one
\* (payPaymentRequest.js:38).
THEOREM OracleIsDrawn ==
  Spec => [](\A r \in Issued : reply[r] # NoNumber =>
               /\ OracleBlock(reply[r]) <= reply[r] /\ reply[r] <= chain_head
               /\ OracleBlock(reply[r]) \div 1024 = reply[r] \div 1024)
<1>1. Inv => \A r \in Issued : reply[r] # NoNumber =>
               /\ OracleBlock(reply[r]) <= reply[r] /\ reply[r] <= chain_head
               /\ OracleBlock(reply[r]) \div 1024 = reply[r] \div 1024
  <2> SUFFICES ASSUME Inv, NEW r \in Issued, reply[r] # NoNumber
               PROVE  /\ OracleBlock(reply[r]) <= reply[r] /\ reply[r] <= chain_head
                      /\ OracleBlock(reply[r]) \div 1024 = reply[r] \div 1024
    OBVIOUS
  <2>1. reply[r] \in Heads /\ reply[r] <= chain_head
    BY DEF Inv, Typed, ReplyIsFresh, Issued
  <2> QED BY <2>1, HeadsAreU32, OracleBlockStartsEra
<1> QED BY <1>1, InvHolds, PTL

\* The finding of run no_redeem_two_eras holds of every voucher up to block 9,999,999: what
\* the pallet reads as noRedeemBeforeBlock is the block two eras on in neither byte order,
\* though README.md:60 promises it (payPaymentRequest.js:39, a + between two texts).
THEOREM NoRedeemNeverTwoErasOn ==
  Spec => [](\A r \in Issued : reply[r] # NoNumber /\ reply[r] < 10000000 =>
               Parse(voucher[r]).no_redeem_before_block
                 \notin {Number(reply[r] + 2048), Swapped(reply[r] + 2048)})
<1>1. ASSUME NEW block \in Heads, block < 10000000
      PROVE  Parse(VoucherFor[block]).no_redeem_before_block
               \notin {Number(block + 2048), Swapped(block + 2048)}
  <2> DEFINE data == VoucherData(block)
             p == Parse(PackAndSign(data, SigningKey))
             text == Digits(block, 10) \o Digits(2048, 10)
  <2>1. block \in Nat /\ block # NoNumber /\ block < Pow(10, 7)
    BY <1>1, HeadsAssumption, PowersOf10, SMT DEF NoNumber
  <2>2. p = Parse(VoucherFor[block])
    BY DEF VoucherFor
  <2>3. /\ data \in Data(Names) /\ "number" \in Names
        /\ data.oracleBlock = OracleText(block) /\ data.difficulty = Digits(DIFFICULTY, 16)
        /\ data.noRedeemBeforeBlock = text
    <3>1. data \in Data(Names) /\ "number" \in Names
      BY <2>1, IssuedData DEF Names
    <3>2. /\ data.oracleBlock = OracleText(block) /\ data.difficulty = Digits(DIFFICULTY, 16)
          /\ data.noRedeemBeforeBlock = NoRedeemText(block)
      BY DEF VoucherData
    <3>3. NoRedeemText(block) = text
      BY <2>1 DEF NoRedeemText
    <3> QED BY <3>1, <3>2, <3>3
  <2>4. Len(data.oracleBlock) <= 8 /\ Len(data.difficulty) <= 8
    BY <2>3, Texts, IssuedData DEF Eight
  <2> HIDE DEF data, text
  <2>5. p.no_redeem_before_block = FromLeBytes(FourBytes(PadStart(text)))
    <3> DEFINE v == PackAndSign(data, SigningKey)
               raw == RawFields(v)
    <3>1. NumbersAreBytes(raw, HexToU8a(NumberTexts(data)))
      BY <2>3, WrittenBytes
    <3>2. Decoded(p, raw)
      BY ParseDecodes
    <3> HIDE DEF raw, p
    <3>3. NumbersAreOwn(raw, data)
      BY <2>3, <3>1, NumbersInPlace
    <3> QED BY <2>3, <2>4, <3>2, <3>3, Zenon DEF NumbersAreOwn, Decoded
  <2> HIDE DEF p
  <2>6. EraText(PadStart(text), block)
    BY <2>1, NoRedeemDigits DEF text
  <2>7. FromLeBytes(FourBytes(PadStart(text))) \notin {Number(block + 2048), Swapped(block + 2048)}
    BY <2>1, <2>6, NeverTwoErasOn
  <2> QED BY <2>2, <2>5, <2>7
<1>2. Inv => \A r \in Issued : reply[r] # NoNumber /\ reply[r] < 10000000 =>
               Parse(voucher[r]).no_redeem_before_block
                 \notin {Number(reply[r] + 2048), Swapped(reply[r] + 2048)}
  <2> SUFFICES ASSUME Inv, NEW r \in Issued, reply[r] # NoNumber, reply[r] < 10000000
               PROVE  Parse(voucher[r]).no_redeem_before_block
                        \notin {Number(reply[r] + 2048), Swapped(reply[r] + 2048)}
    OBVIOUS
  <2>1. voucher[r] = VoucherFor[reply[r]] /\ reply[r] \in Heads
    BY DEF Inv, Typed, OwnVoucher, Issued
  <2> QED BY <1>1, <2>1
<1> QED BY <1>2, InvHolds, PTL

\* The finding of run signed_range holds of every voucher: the message that is signed has
\* 192 bytes, never the 128 that the pallet verifies (packAndSignVoucher.js:37).
THEOREM SignatureNeverFits ==
  Spec => [](\A r \in Issued :
               /\ Len(voucher[r].signature.message) = 192
               /\ Len(voucher[r].unsigned) = 128
               /\ voucher[r].signature.message # voucher[r].unsigned)
<1>1. ASSUME NEW block \in Heads \cup {NoNumber}
      PROVE  /\ Len(VoucherFor[block].signature.message) = 192
             /\ Len(VoucherFor[block].unsigned) = 128
  <2> DEFINE bytes == Pack(VoucherData(block))
             m == 192
             k == 128
             none == 0
  <2>1. VoucherFor[block].signature.message = bytes /\ VoucherFor[block].unsigned = Unsigned(bytes)
    BY DEF VoucherFor, PackAndSign
  <2>2. bytes \in Array(192, Names \X Nat)
    <3>1. VoucherData(block) \in Data(Names) /\ "number" \in Names
      BY IssuedData DEF Names
    <3> QED BY <3>1, PackBytes
  <2> HIDE DEF bytes
  <2>3. bytes \in [1..m -> Names \X Nat]
    BY <2>2 DEF Array
  <2>4. m \in Nat /\ none \in Nat /\ k \in Nat /\ none <= k /\ k <= m
    OBVIOUS
  <2> HIDE DEF m, k, none
  <2>5. SubSeq(bytes, none + 1, k) = [i \in 1..(k - none) |-> bytes[none + i]]
    BY <2>3, <2>4, SliceIsFunction
  <2>6. Len(bytes) = m
    BY <2>3, <2>4
  <2>7. Unsigned(bytes) = [i \in 1..128 |-> bytes[i]]
    BY <2>5 DEF Unsigned, none, k
  <2>8. Len(Unsigned(bytes)) = 128
    BY <2>7
  <2> QED BY <2>1, <2>6, <2>8 DEF m
<1>2. Inv => \A r \in Issued :
               /\ Len(voucher[r].signature.message) = 192
               /\ Len(voucher[r].unsigned) = 128
               /\ voucher[r].signature.message # voucher[r].unsigned
  <2> SUFFICES ASSUME Inv, NEW r \in Issued
               PROVE  /\ Len(voucher[r].signature.message) = 192
                      /\ Len(voucher[r].unsigned) = 128
                      /\ voucher[r].signature.message # voucher[r].unsigned
    OBVIOUS
  <2>1. voucher[r] = VoucherFor[reply[r]] /\ reply[r] \in Heads \cup {NoNumber}
    BY DEF Inv, Typed, OwnVoucher, Issued
  <2>2. Len(voucher[r].signature.message) = 192 /\ Len(voucher[r].unsigned) = 128
    BY <1>1, <2>1
  <2>3. 192 # 128
    BY SMT
  <2>4. voucher[r].signature.message # voucher[r].unsigned
    BY <2>2, <2>3
  <2> QED BY <2>2, <2>4
<1> QED BY <1>2, InvHolds, PTL
=============================================================================
