--------------------------- MODULE ConsentedCalls ---------------------------
(***************************************************************************)
(* Tool calls through the confirmation seam, end to end: the handler       *)
(* (bridge.py) asks the seam for the user's consent when its binding says  *)
(* the card requires one, turns an approval into the server's confirmation *)
(* token, and makes the call.  One glyph of one server; a key is one input *)
(* of it.  The agent may repeat a call at any time, as one more call with  *)
(* the same key: after CONFIRMATION_PENDING, or when the response was lost.*)
(*                                                                         *)
(* The seam's own steps are those of Confirmation, which this module       *)
(* extends; the server, its redeployments and the resyncs are external.    *)
(***************************************************************************)
EXTENDS Confirmation

CONSTANT MaxDeploy  \* bound: changes of the deployed or the bound card

ASSUME ConsentedCallsAssumption == MaxDeploy \in Nat

VARIABLES
  bound,     \* whether the bound card requires confirmation
  deployed,  \* external: whether the deployed one does
  deploys,   \* number of changes of either
  tool,      \* where the handler of a call is
  input,     \* the key of a call's own glyph and input (NoKey while no consent
             \* is asked for it)
  tokens,    \* external: calls the server holds an unused token for
  runs       \* history: how often the server executed a card that requires
             \* confirmation, by glyph and input

handlerVars == <<bound, deployed, deploys, tool, input, tokens, runs>>
allVars == <<vars, handlerVars>>

Handler(c, from, to) == tool[c] = from /\ tool' = [tool EXCEPT ![c] = to]

----------------------------------------------------------------------------
(* The handler.                                                            *)

\* Mutant: the key of a call that needs consent is left out of the request.
Begin_OneKeyForAll(c, k) ==
  /\ Handler(c, "new", IF bound THEN "confirm" ELSE "send")
  /\ IF bound THEN Request(c, CHOOSE j \in Key : TRUE) ELSE UNCHANGED vars
  /\ input' = IF bound THEN [input EXCEPT ![c] = k] ELSE input
  /\ UNCHANGED <<bound, deployed, deploys, tokens, runs>>

\* The gate has let the call through; requires_confirmation decides.
Begin(c, k) ==
  /\ Handler(c, "new", IF bound THEN "confirm" ELSE "send")
  /\ IF bound THEN Request(c, k) ELSE UNCHANGED vars
  /\ input' = IF bound THEN [input EXCEPT ![c] = k] ELSE input
  /\ UNCHANGED <<bound, deployed, deploys, tokens, runs>>

Outcome(c) == IF call[c].pc = "returned" THEN call[c].result ELSE ""

\* The seam's answer is anything but an approval: the handler returns it.
Stopped(c) ==
  /\ Outcome(c) \notin {"", "approved"}
  /\ Handler(c, "confirm", "done")
  /\ UNCHANGED <<vars, bound, deployed, deploys, input, tokens, runs>>

\* Mutant: a question that is still pending is treated like an approval.
Prepare_PendingToo(c) ==
  /\ Outcome(c) \in {"approved", "pending"}
  /\ \/ Handler(c, "confirm", "send") /\ tokens' = tokens \union {c}
     \/ Handler(c, "confirm", "done") /\ tokens' \in {tokens, tokens \union {c}}
  /\ UNCHANGED <<vars, bound, deployed, deploys, input, runs>>

\* client.prepare: a token for this glyph and this input.  It fails, or its
\* response is lost: the call ends, and its consent is spent.
Prepare(c) ==
  /\ Outcome(c) = "approved"
  /\ \/ Handler(c, "confirm", "send") /\ tokens' = tokens \union {c}
     \/ Handler(c, "confirm", "done") /\ tokens' \in {tokens, tokens \union {c}}
  /\ UNCHANGED <<vars, bound, deployed, deploys, input, runs>>

\* Mutant: when the response is lost, the handler prepares and calls again.
Execute_RetriesLost(c) ==
  /\ deployed => c \in tokens
  /\ \/ Handler(c, "send", "done")
     \/ Handler(c, "send", IF deployed THEN "confirm" ELSE "done")
  /\ tokens' = IF deployed THEN tokens \ {c} ELSE tokens
  /\ runs' = IF deployed THEN [runs EXCEPT ![input[c]] = @ + 1] ELSE runs
  /\ UNCHANGED <<vars, bound, deployed, deploys, input>>

\* client.call reaches the server, which executes it if its card asks for no
\* confirmation or the call's token is there, and uses the token up.  The
\* handler answers with the sealed result, or with SERVER_UNREACHABLE when the
\* response is lost; it is done either way.
Execute(c) ==
  /\ deployed => c \in tokens
  /\ Handler(c, "send", "done")
  /\ tokens' = IF deployed THEN tokens \ {c} ELSE tokens
  /\ runs' = IF deployed THEN [runs EXCEPT ![input[c]] = @ + 1] ELSE runs
  /\ UNCHANGED <<vars, bound, deployed, deploys, input>>

\* The server rejects the call, or never sees it.
SendFails(c) ==
  /\ Handler(c, "send", "done")
  /\ UNCHANGED <<vars, bound, deployed, deploys, input, tokens, runs>>

\* The seam at work for some call.
Seam(c) ==
  /\ \/ RouteGateway(c) \/ RouteLocal(c) \/ Prompt(c) \/ PromptRaises(c)
     \/ Await(c) \/ AwaitTimeout(c) \/ AwaitRaises(c)
     \/ Submit(c) \/ SubmitFails(c)
     \/ Decide(c) \/ Drop(c) \/ Hook(c)
  /\ UNCHANGED handlerVars

----------------------------------------------------------------------------
(* Around it.                                                              *)

GrantExpires(k) == Expire(k) /\ UNCHANGED handlerVars

\* A new deployment of the glyph, and a resync that binds it.
Redeploy ==
  /\ deploys < MaxDeploy
  /\ deploys' = deploys + 1
  /\ deployed' = ~deployed
  /\ UNCHANGED <<vars, bound, tool, input, tokens, runs>>

Rebind ==
  /\ bound # deployed
  /\ bound' = deployed
  /\ UNCHANGED <<vars, deployed, deploys, tool, input, tokens, runs>>

----------------------------------------------------------------------------
ConsentInit ==
  /\ Init
  /\ bound \in BOOLEAN /\ deployed \in BOOLEAN
  /\ deploys = 0
  /\ tool = [c \in Call |-> "new"]
  /\ input = [c \in Call |-> NoKey]
  /\ tokens = {}
  /\ runs = [k \in Key |-> 0]

ConsentNext ==
  \/ \E c \in Call :
       \/ \E k \in Key : Begin(c, k)
       \/ Seam(c) \/ Stopped(c) \/ Prepare(c) \/ Execute(c) \/ SendFails(c)
  \/ \E k \in Key : GrantExpires(k)
  \/ Redeploy \/ Rebind

ConsentSpec == ConsentInit /\ [][ConsentNext]_allVars

----------------------------------------------------------------------------
(* Properties.                                                             *)

ConsentTypeOK ==
  /\ TypeOK
  /\ bound \in BOOLEAN /\ deployed \in BOOLEAN
  /\ deploys \in 0..MaxDeploy
  /\ tool \in [Call -> {"new", "confirm", "send", "done"}]
  /\ input \in [Call -> Key \union {NoKey}]
  /\ tokens \subseteq Call
  /\ runs \in [Key -> Nat]

\* OneConsentOneExecution made inductive.  An approval is spent once its call
\* is done and holds no token; the executions of a key are covered by these.
Spent(k) == {c \in Approved(k) : tool[c] = "done" /\ c \notin tokens}

\* The seam is asked about the call's own glyph and input; a token is held by a
\* call that was approved and has prepared.
CallsInv ==
  /\ \A c \in Call : input[c] = call[c].key
  /\ \A c \in tokens : call[c].result = "approved" /\ tool[c] \in {"send", "done"}
  /\ \A k \in Key : runs[k] <= Cardinality(Spent(k))

\* What the user agreed to, by glyph and input of the calls themselves.
Given(k) == Cardinality({c \in Call : input[c] = k /\ said[c] \in Consent})

\* The calls of a handler and their executions keep the promise of
\* ConsentLedger: each execution of a card that requires confirmation uses a
\* consent the user gave to this tool and this input, and no consent is used
\* twice, over every tier, retry, lost response, redeployment and resync
\* (README: approvals are "bound to the exact tool + input, consumed on use").
Ledger == INSTANCE ConsentLedger WITH
  given <- [k \in Key |-> Given(k)],
  used <- runs

OneConsentOneExecution == Ledger!Spec
=============================================================================
