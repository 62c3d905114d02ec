----------------------------- MODULE HttpHandlers -----------------------------
(***************************************************************************)
(* The HTTP requests the two Guillotine nodes serve, besides the payment   *)
(* of VoucherIssuer: /openSession/:from (openSession.js) and               *)
(* /page/:url/:from (acceptPageRequest.js) of the remote node, /request    *)
(* (forwardRequest.js) of the local one.                                   *)
(*                                                                         *)
(* A handler runs up to its await, the upstream server answers or fails,   *)
(* and the continuation runs to its end: one action each.  A continuation  *)
(* that throws rejects its promise, and the catch of the handler logs the  *)
(* error in the same turn of the event loop and leaves the response open.  *)
(***************************************************************************)
EXTENDS Integers

CONSTANTS
  OpenRequests,     \* requests to /openSession/:from
  PageRequests,     \* requests to /page/:url/:from
  ForwardRequests,  \* requests to /request
  Accounts,         \* accounts with a balance on the chain
  AliceAddy,        \* the account openSession.js looks up
  From(_),          \* From(r): the :from parameter of a request
  MaxFree           \* bound: the largest free balance

Requests == OpenRequests \cup PageRequests \cup ForwardRequests

ASSUME AccountAssumption == AliceAddy \in Accounts
ASSUME MaxFreeAssumption == MaxFree \in Nat \ {0}

VARIABLES
  free,      \* free[a]: the free balance of an account, on the chain
  funded,    \* funded[r]: the accounts that held funds at some time since r arrived
  pc,        \* pc[r]: how far the handler of r has come
  reply,     \* reply[r]: the balance in the sidecar's answer
  accepted   \* the requests whose client newSession decided to serve

vars == <<free, funded, pc, reply, accepted>>

NotANumber == -1  \* parseInt of a balance that is missing

Funded(balances) == {a \in Accounts : balances[a] > 0}

Goto(r, step) == pc' = [pc EXCEPT ![r] = step]

Init ==
  /\ free \in [Accounts -> 0..MaxFree]
  /\ funded = [r \in Requests |-> {}]
  /\ pc = [r \in Requests |-> "idle"]
  /\ reply = [r \in Requests |-> NotANumber]
  /\ accepted = {}

\* The chain moves funds.
Transfer ==
  /\ \E a \in Accounts, amount \in 0..MaxFree : free' = [free EXCEPT ![a] = amount]
  /\ funded' = [r \in Requests |-> IF pc[r] = "idle" THEN {} ELSE funded[r] \cup Funded(free')]
  /\ UNCHANGED <<pc, reply, accepted>>

\* A server asked over fetch cannot be reached, or its body is not JSON where JSON
\* is awaited: the await throws into the catch.
UpstreamFails(r) ==
  /\ pc[r] = "fetching"
  /\ Goto(r, "logged")
  /\ UNCHANGED <<free, funded, reply, accepted>>

-----------------------------------------------------------------------------
(* openSession.js *)

\* openSession.get and newSession up to the await; the route sets params.from.
OpenSession(r) ==
  /\ pc[r] = "idle"
  /\ Goto(r, "fetching")
  /\ funded' = [funded EXCEPT ![r] = Funded(free)]
  /\ UNCHANGED <<free, reply, accepted>>

\* Slip: reserved funds are added to the free ones.
BalanceReplySummed(r) ==
  /\ pc[r] = "fetching"
  /\ Goto(r, "replied")
  /\ \E reserved \in 0..MaxFree :
       reply' = [reply EXCEPT ![r] = free[AliceAddy] + reserved]
  /\ UNCHANGED <<free, funded, accepted>>

\* The sidecar answers with the balance of AliceAddy, or with an error document:
\* the status is not looked at, and the document has no balance.
BalanceReply(r) ==
  /\ pc[r] = "fetching"
  /\ Goto(r, "replied")
  /\ \E balance \in {free[AliceAddy], NotANumber} : reply' = [reply EXCEPT ![r] = balance]
  /\ UNCHANGED <<free, funded, accepted>>

\* Slip: a client is refused only if the balance is known to be zero.
JudgePeerLenient(r) ==
  /\ pc[r] = "replied"
  /\ accepted' = IF reply[r] # 0 THEN accepted \cup {r} ELSE accepted
  /\ Goto(r, "logged")
  /\ UNCHANGED <<free, funded, reply>>

\* Slip: the error is handled without leaving the handler.
JudgePeerLoops(r) ==
  /\ pc[r] = "replied"
  /\ accepted' = IF reply[r] > 0 THEN accepted \cup {r} ELSE accepted
  /\ Goto(r, IF reply[r] > 0 THEN "logged" ELSE "fetching")
  /\ UNCHANGED <<free, funded, reply>>

\* newSession after the await.  A client judged too poor is refused by a throw; for
\* one judged solvent the session is built until the undeclared remotePubkey
\* throws, before the session is stored.  Both end in the catch.
JudgePeer(r) ==
  /\ pc[r] = "replied"
  /\ accepted' = IF reply[r] > 0 THEN accepted \cup {r} ELSE accepted
  /\ Goto(r, "logged")
  /\ UNCHANGED <<free, funded, reply>>

-----------------------------------------------------------------------------
(* acceptPageRequest.js *)

\* processRequest up to the await: decodeAddress throws on what is no address.
AcceptPage(r) ==
  /\ pc[r] = "idle"
  /\ Goto(r, IF From(r) \in Accounts THEN "fetching" ELSE "logged")
  /\ funded' = [funded EXCEPT ![r] = Funded(free)]
  /\ UNCHANGED <<free, reply, accepted>>

\* The page arrives: the status is set to 200, then response.body.stream, which
\* fetch does not have, throws before a byte is sent.
PageReply(r) ==
  /\ pc[r] = "fetching"
  /\ Goto(r, "fetched")
  /\ UNCHANGED <<free, funded, reply, accepted>>

PipePage(r) ==
  /\ pc[r] = "fetched"
  /\ Goto(r, "logged")
  /\ UNCHANGED <<free, funded, reply, accepted>>

-----------------------------------------------------------------------------
(* forwardRequest.js *)

\* processRequest fetches a URL without a scheme, which rejects at once.
ForwardRequest(r) ==
  /\ pc[r] = "idle"
  /\ Goto(r, "logged")
  /\ funded' = [funded EXCEPT ![r] = Funded(free)]
  /\ UNCHANGED <<free, reply, accepted>>

Next ==
  \/ Transfer
  \/ \E r \in OpenRequests : OpenSession(r) \/ BalanceReply(r) \/ UpstreamFails(r) \/ JudgePeer(r)
  \/ \E r \in PageRequests : AcceptPage(r) \/ PageReply(r) \/ UpstreamFails(r) \/ PipePage(r)
  \/ \E r \in ForwardRequests : ForwardRequest(r)

\* The event loop runs every continuation whose promise has settled, and a fetch
\* settles: the server answers or the fetch times out.
Spec ==
  /\ Init
  /\ [][Next]_vars
  /\ \A r \in OpenRequests : WF_vars(BalanceReply(r) \/ UpstreamFails(r)) /\ WF_vars(JudgePeer(r))
  /\ \A r \in PageRequests : WF_vars(PageReply(r) \/ UpstreamFails(r)) /\ WF_vars(PipePage(r))

-----------------------------------------------------------------------------
(* Properties. *)

\* Every variable has its type.
TypeOK ==
  /\ free \in [Accounts -> 0..MaxFree]
  /\ funded \in [Requests -> SUBSET Accounts]
  /\ pc \in [Requests -> {"idle", "fetching", "replied", "fetched", "logged"}]
  /\ reply \in [Requests -> {NotANumber} \cup 0..MaxFree]
  /\ accepted \subseteq OpenRequests

\* newSession serves a client only if the account it looked up held funds at some
\* time between the request and the decision: an answer that arrives late is old
\* by no more than the request, and an answer without a balance is no yes.
AcceptedWereFunded == \A r \in accepted : AliceAddy \in funded[r]

\* However the upstream servers answer or fail and however the funds move, every
\* handler that has started comes to its end; none waits for another.
HandlersEnd == \A r \in Requests : pc[r] # "idle" ~> pc[r] = "logged"
=============================================================================
