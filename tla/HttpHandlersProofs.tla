-------------------------- MODULE HttpHandlersProofs --------------------------
(***************************************************************************)
(* Proof, for every set of requests and accounts, that the decision of     *)
(* newSession is backed by funds the looked-up account held meanwhile.     *)
(***************************************************************************)
EXTENDS HttpHandlers, TLAPS

\* A request under way has seen the accounts that hold funds now.
SeesFunds == \A r \in Requests : pc[r] # "idle" => Funded(free) \subseteq funded[r]

\* A positive balance in an answer was held by the account that was looked up.
RepliesWereFunded == \A r \in Requests : reply[r] > 0 => pc[r] # "idle" /\ AliceAddy \in funded[r]

\* The inductive invariant: AcceptedWereFunded needs to know that an accepted
\* request is under way, and where a positive answer comes from.
IInv ==
  /\ TypeOK
  /\ SeesFunds
  /\ RepliesWereFunded
  /\ AcceptedWereFunded
  /\ \A r \in accepted : pc[r] # "idle"

\* The invariant holds before the first request.
LEMMA InitIInv == Init => IInv
BY MaxFreeAssumption
   DEF Init, IInv, TypeOK, SeesFunds, RepliesWereFunded, AcceptedWereFunded, NotANumber

\* A transfer adds to what the requests under way have seen.
LEMMA TransferIInv == IInv /\ Transfer => IInv'
<1>. SUFFICES ASSUME IInv, Transfer PROVE IInv'
  OBVIOUS
<1>1. PICK a \in Accounts, amount \in 0..MaxFree : free' = [free EXCEPT ![a] = amount]
  BY DEF Transfer
<1>2. /\ funded' = [r \in Requests |-> IF pc[r] = "idle" THEN {} ELSE funded[r] \cup Funded(free')]
      /\ UNCHANGED <<pc, reply, accepted>>
  BY DEF Transfer
<1>3. Funded(free') \subseteq Accounts
  BY DEF Funded
<1>4. TypeOK'
  BY <1>1, <1>2, <1>3 DEF IInv, TypeOK
<1>5. SeesFunds'
  BY <1>2, <1>3 DEF SeesFunds, Funded
<1>6. \A r \in Requests : pc[r] # "idle" => funded[r] \subseteq funded'[r]
  BY <1>2
<1>7. RepliesWereFunded'
  BY <1>2, <1>6 DEF IInv, RepliesWereFunded
<1>8. AcceptedWereFunded' /\ (\A r \in accepted' : pc'[r] # "idle")
  BY <1>2, <1>6 DEF IInv, AcceptedWereFunded, TypeOK, Requests
<1>. QED
  BY <1>4, <1>5, <1>7, <1>8 DEF IInv

\* A request arrives: all three handlers look at the funds of the moment.
LEMMA ArrivalIInv ==
  ASSUME IInv, NEW r \in Requests, pc[r] = "idle",
         NEW step \in {"fetching", "logged"}, Goto(r, step),
         funded' = [funded EXCEPT ![r] = Funded(free)],
         UNCHANGED <<free, reply, accepted>>
  PROVE  IInv'
<1>1. Funded(free) \subseteq Accounts
  BY DEF Funded
<1>2. TypeOK'
  BY <1>1 DEF IInv, TypeOK, Goto
<1>3. SeesFunds'
  BY DEF IInv, TypeOK, SeesFunds, Goto
<1>4. RepliesWereFunded'
  BY DEF IInv, TypeOK, RepliesWereFunded, Goto
<1>5. AcceptedWereFunded' /\ (\A q \in accepted' : pc'[q] # "idle")
  BY DEF IInv, TypeOK, AcceptedWereFunded, Goto, Requests
<1>. QED
  BY <1>2, <1>3, <1>4, <1>5 DEF IInv

\* The answer of the sidecar is a balance of the moment.
LEMMA BalanceReplyIInv ==
  ASSUME IInv, NEW r \in OpenRequests, BalanceReply(r)
  PROVE  IInv'
<1>1. PICK balance \in {free[AliceAddy], NotANumber} : reply' = [reply EXCEPT ![r] = balance]
  BY DEF BalanceReply
<1>2. balance > 0 => AliceAddy \in funded[r]
  BY AccountAssumption DEF IInv, TypeOK, SeesFunds, Funded, BalanceReply, NotANumber, Requests
<1>3. balance \in {NotANumber} \cup 0..MaxFree
  BY AccountAssumption DEF IInv, TypeOK
<1>4. r \in Requests
  BY DEF Requests
<1>5. TypeOK'
  BY <1>1, <1>3, <1>4 DEF IInv, TypeOK, BalanceReply, Goto
<1>6. SeesFunds'
  BY <1>4 DEF IInv, TypeOK, SeesFunds, BalanceReply, Goto
<1>7. RepliesWereFunded'
  BY <1>1, <1>2, <1>4 DEF IInv, TypeOK, RepliesWereFunded, BalanceReply, Goto
<1>8. AcceptedWereFunded' /\ (\A q \in accepted' : pc'[q] # "idle")
  BY <1>4 DEF IInv, TypeOK, AcceptedWereFunded, BalanceReply, Goto, Requests
<1>. QED
  BY <1>5, <1>6, <1>7, <1>8 DEF IInv

\* The decision rests on the answer.
LEMMA JudgePeerIInv ==
  ASSUME IInv, NEW r \in OpenRequests, JudgePeer(r)
  PROVE  IInv'
<1>1. r \in Requests
  BY DEF Requests
<1>2. TypeOK'
  BY <1>1 DEF IInv, TypeOK, JudgePeer, Goto
<1>3. SeesFunds'
  BY <1>1 DEF IInv, TypeOK, SeesFunds, JudgePeer, Goto
<1>4. RepliesWereFunded'
  BY <1>1 DEF IInv, TypeOK, RepliesWereFunded, JudgePeer, Goto
<1>5. AcceptedWereFunded' /\ (\A q \in accepted' : pc'[q] # "idle")
  BY <1>1 DEF IInv, TypeOK, RepliesWereFunded, AcceptedWereFunded, JudgePeer, Goto, Requests
<1>. QED
  BY <1>2, <1>3, <1>4, <1>5 DEF IInv

\* A request under way moves on and nothing else changes.
LEMMA MoveIInv ==
  ASSUME IInv, NEW r \in Requests, pc[r] # "idle",
         NEW step \in {"fetched", "logged"}, Goto(r, step),
         UNCHANGED <<free, funded, reply, accepted>>
  PROVE  IInv'
BY DEF IInv, TypeOK, SeesFunds, RepliesWereFunded, AcceptedWereFunded, Goto, Requests

\* Every step preserves the invariant.
LEMMA NextIInv == IInv /\ [Next]_vars => IInv'
<1>. SUFFICES ASSUME IInv, [Next]_vars PROVE IInv'
  OBVIOUS
<1>1. CASE Transfer
  BY <1>1, TransferIInv
<1>2. CASE \E r \in OpenRequests : OpenSession(r)
  BY <1>2, ArrivalIInv DEF OpenSession, Requests
<1>3. CASE \E r \in OpenRequests : BalanceReply(r)
  BY <1>3, BalanceReplyIInv
<1>4. CASE \E r \in OpenRequests : JudgePeer(r)
  BY <1>4, JudgePeerIInv
<1>5. CASE \E r \in OpenRequests \cup PageRequests : UpstreamFails(r)
  BY <1>5, MoveIInv DEF UpstreamFails, Requests
<1>6. CASE \E r \in PageRequests : AcceptPage(r)
  <2>1. PICK r \in PageRequests : AcceptPage(r)
    BY <1>6
  <2>2. CASE From(r) \in Accounts
    BY <2>1, <2>2, ArrivalIInv DEF AcceptPage, Requests
  <2>3. CASE From(r) \notin Accounts
    BY <2>1, <2>3, ArrivalIInv DEF AcceptPage, Requests
  <2>. QED
    BY <2>2, <2>3
<1>7. CASE \E r \in PageRequests : PageReply(r)
  BY <1>7, MoveIInv DEF PageReply, Requests
<1>8. CASE \E r \in PageRequests : PipePage(r)
  BY <1>8, MoveIInv DEF PipePage, Requests
<1>9. CASE \E r \in ForwardRequests : ForwardRequest(r)
  BY <1>9, ArrivalIInv DEF ForwardRequest, Requests
<1>10. CASE UNCHANGED vars
  BY <1>10 DEF vars, IInv, TypeOK, SeesFunds, RepliesWereFunded, AcceptedWereFunded
<1>. QED
  BY <1>1, <1>2, <1>3, <1>4, <1>5, <1>6, <1>7, <1>8, <1>9, <1>10 DEF Next

\* newSession accepts a client only if the account it looked up held funds between
\* the request and the decision, for any number of requests and accounts.
THEOREM AcceptanceIsFunded == Spec => []AcceptedWereFunded
<1>1. IInv => AcceptedWereFunded
  BY DEF IInv
<1>. QED
  BY <1>1, InitIInv, NextIInv, PTL DEF Spec

\* Every variable of the handlers keeps its type.
THEOREM HandlersTyped == Spec => []TypeOK
<1>1. IInv => TypeOK
  BY DEF IInv
<1>. QED
  BY <1>1, InitIInv, NextIInv, PTL DEF Spec
=============================================================================
