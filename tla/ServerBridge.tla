---------------------------- MODULE ServerBridge ----------------------------
(***************************************************************************)
(* ServerBridge (bridge.py): one Glyph server's lexicon as gated tools, in *)
(* one Hermes process.  Three kinds of activity share the bridge and hold  *)
(* no common lock: resyncs (one at a time, under the runtime's lock),      *)
(* operator commands (/glyph trust, /glyph revoke) and tool calls.  All    *)
(* call into the TrustManager this module extends.                         *)
(*                                                                         *)
(* A sync publishes a new dict of new bindings; calls and commands that    *)
(* looked a binding up before that keep their reference to the old one.    *)
(* heap keeps every dict published so far, the last one being              *)
(* self.bindings; a reference is a position in heap and a glyph.           *)
(***************************************************************************)
EXTENDS TrustManager, Sequences

CONSTANTS
  Syncer,          \* the thread that resyncs
  Command,         \* operator commands; each runs once, in a thread of its own
  Call,            \* tool calls; each is made once, in a thread of its own
  NoBinding,       \* no binding for this glyph
  ReceiptsVerify,  \* receipts.verify
  OnFailureBlock,  \* receipts.on_failure = block
  MaxSync,         \* bound: syncs that publish
  MaxDeploy        \* bound: redeployments of the server

\* No code: the binding is callable, the call has no result.  No glyph yet.
NoCode == ""
NoGlyph == ""

Codes == {NoCode, "TRUST_REQUIRED", "CARD_CHANGED", "CARD_REVOKED", "CARD_INVALID",
          "ATTESTATION_REQUIRED", "ATTESTATION_UNTRUSTED"}
Binding == [card : Cards, blocked : Codes]

ASSUME BridgeAssumption ==
  /\ Actor = {Syncer} \union Command /\ Syncer \notin Command
  /\ NoBinding \notin Binding
  /\ {ReceiptsVerify, OnFailureBlock} \subseteq BOOLEAN
  /\ {MaxSync, MaxDeploy} \subseteq Nat

VARIABLES
  server,   \* external: the card the server has deployed for each glyph
  deploys,  \* number of redeployments
  tickets,  \* external: calls the server holds an unused confirmation token for
  heap,     \* the dicts of bindings published so far
  sync,     \* the sync under way
  cmd,      \* the operator commands
  call,     \* the tool calls
  audit     \* the audit log: the verdict recorded for a call

bridgeVars == <<server, deploys, tickets, heap, sync, cmd, call, audit>>
vars == <<trustVars, bridgeVars>>

Dict == [Glyph -> Binding \union {NoBinding}]
Unbound == [g \in Glyph |-> NoBinding]

Bindings == heap[Len(heap)]

----------------------------------------------------------------------------
(* sync.                                                                   *)

NoSync == [pc |-> "idle", todo |-> {}, glyph |-> NoGlyph, dict |-> Unbound]

Running(o) == cmd[o].pc \notin {"new", "done"}

\* A handshake that fails changes nothing but last_report, which is not kept.
Handshake ==
  /\ sync.pc = "idle" /\ Len(heap) <= MaxSync
  /\ sync' = [NoSync EXCEPT !.pc = "fetch",
                            !.todo = {g \in Glyph : server[g] # NoCard}]
  /\ cmd' = [o \in Command |-> [cmd[o] EXCEPT !.overlapped = @ \/ Running(o)]]
  /\ UNCHANGED <<trustVars, server, deploys, tickets, heap, call, audit>>

\* get_card, and the first step of trust.evaluate on its answer.
FetchCard ==
  \E g \in sync.todo :
    /\ sync.pc = "fetch" /\ server[g] # NoCard
    /\ Evaluate(Syncer, server[g])
    /\ sync' = [sync EXCEPT !.pc = "evaluate", !.glyph = g]
    /\ UNCHANGED <<server, deploys, tickets, heap, cmd, call, audit>>

\* The card cannot be fetched: the glyph is left out of the new bindings.
FetchFails ==
  \E g \in sync.todo :
    /\ sync.pc = "fetch"
    /\ sync' = [sync EXCEPT !.todo = @ \ {g}]
    /\ UNCHANGED <<trustVars, server, deploys, tickets, heap, cmd, call, audit>>

\* Mutant: the status itself becomes the code.
BlockedCode_Raw(status, c) ==
  IF status = "pinned" THEN AttestationCode(c) ELSE status

\* _STATUS_TO_CODE, and the attestation gate for a card that is allowed.
\* evaluate and the gate may raise.
BlockedCode(status, c) ==
  IF status = "pinned" THEN AttestationCode(c)
  ELSE [new |-> "TRUST_REQUIRED", changed |-> "CARD_CHANGED",
        revoked |-> "CARD_REVOKED", invalid |-> "CARD_INVALID",
        raised |-> GateRaised][status]

Bind ==
  /\ sync.pc = "evaluate" /\ At(Syncer, "done")
  /\ LET c == op[Syncer].card
         code == BlockedCode(op[Syncer].status, c)
     IN  /\ code # GateRaised
         /\ sync' = [sync EXCEPT !.pc = "fetch", !.todo = @ \ {sync.glyph},
                       !.dict[sync.glyph] = [card |-> c, blocked |-> code],
                       !.glyph = NoGlyph]
  /\ Return(Syncer)
  /\ UNCHANGED <<server, deploys, tickets, heap, cmd, call, audit>>

\* Mutant: what the attestation gate raises is not handled.
SyncAborts_GateUncaught ==
  /\ sync.pc = "evaluate" /\ At(Syncer, "done")
  /\ op[Syncer].status = "raised"
  /\ sync' = NoSync
  /\ Return(Syncer)
  /\ UNCHANGED <<server, deploys, tickets, heap, cmd, call, audit>>

\* sync_all swallows the exception, the old bindings stay.
SyncAborts ==
  /\ sync.pc = "evaluate" /\ At(Syncer, "done")
  /\ BlockedCode(op[Syncer].status, op[Syncer].card) = GateRaised
  /\ sync' = NoSync
  /\ Return(Syncer)
  /\ UNCHANGED <<server, deploys, tickets, heap, cmd, call, audit>>

Publish ==
  /\ sync.pc = "fetch" /\ sync.todo = {}
  /\ heap' = Append(heap, sync.dict)
  /\ sync' = NoSync
  /\ UNCHANGED <<trustVars, server, deploys, tickets, cmd, call, audit>>

----------------------------------------------------------------------------
(* /glyph trust (trust_tool) and /glyph revoke (revoke_tool).              *)

\* overlapped, a history variable: whether a sync or another command ran at the
\* same time.  shown: the parked card whose diff `/glyph trust' renders.
NewCommand == [pc |-> "new", glyph |-> NoGlyph, ref |-> 0, card |-> NoCard,
               shown |-> NoCard, overlapped |-> FALSE]

AtRest == sync.pc = "idle" /\ \A o \in Command : ~Running(o)

Parked(o, g) == pending[ProcOf[o]][g]

Start(o, g, pc, shown) ==
  /\ cmd[o].pc = "new"
  /\ Bindings[g] # NoBinding
  /\ cmd' = [p \in Command |->
       IF p = o
       THEN [NewCommand EXCEPT !.pc = pc, !.glyph = g, !.ref = Len(heap),
                               !.shown = shown, !.overlapped = ~AtRest]
       ELSE [cmd[p] EXCEPT !.overlapped = @ \/ Running(p)]]

\* `/glyph trust' finds the tool and renders the diff of its parked card.
TrustTool(o, g) ==
  /\ Start(o, g, "pick", Parked(o, g))
  /\ UNCHANGED <<trustVars, server, deploys, tickets, heap, sync, call, audit>>

\* Mutant: what the server has by now is approved.
CardToTrust_Deployed(o, g) ==
  IF server[g] # NoCard THEN server[g] ELSE Bindings[g].card

\* The card trust_tool approves: the parked one, else the bound one.
CardToTrust(o, g) == IF Parked(o, g) # NoCard THEN Parked(o, g) ELSE Bindings[g].card

\* trust_tool looks the binding and the parked card up anew.
PickCard(o) ==
  LET g == cmd[o].glyph
  IN  /\ cmd[o].pc = "pick"
      /\ cmd' = [cmd EXCEPT ![o] =
           IF Bindings[g] = NoBinding THEN [@ EXCEPT !.pc = "done"]
           ELSE [@ EXCEPT !.pc = "approve", !.ref = Len(heap),
                          !.card = CardToTrust(o, g)]]
      /\ UNCHANGED <<trustVars, server, deploys, tickets, heap, sync, call, audit>>

TrustApprove(o) ==
  /\ cmd[o].pc = "approve"
  /\ Approve(o, cmd[o].card) \/ RefuseApproval(o, cmd[o].card)
  /\ cmd' = [cmd EXCEPT ![o].pc = "approving"]
  /\ UNCHANGED <<server, deploys, tickets, heap, sync, call, audit>>

RevokeTool(o, g) ==
  /\ Start(o, g, "revoking", NoCard)
  /\ Revoke(o, g)
  /\ UNCHANGED <<server, deploys, tickets, heap, sync, call, audit>>

\* Mutant: a refused approval goes on like a successful one.
TrustReturns_IgnoresRefusal(o) ==
  /\ At(o, "done") /\ cmd[o].pc \in {"approving", "revoking"}
  /\ cmd' = [cmd EXCEPT ![o].pc = IF cmd[o].pc = "approving" THEN "bind" ELSE "block"]
  /\ Return(o)
  /\ UNCHANGED <<server, deploys, tickets, heap, sync, call, audit>>

\* The trust manager's part of the command is over: with its success the
\* command goes on, with anything else it ends.
TrustReturns(o) ==
  /\ At(o, "done") /\ cmd[o].pc \in {"approving", "revoking"}
  /\ cmd' = [cmd EXCEPT ![o].pc =
       CASE op[o].status = "approved" -> "bind"
         [] op[o].status = "revoked" -> "block"
         [] OTHER -> "done"]
  /\ Return(o)
  /\ UNCHANGED <<server, deploys, tickets, heap, sync, call, audit>>

\* An assignment to the binding the command looked up.
SetCard(o, c) == heap' = [heap EXCEPT ![cmd[o].ref][cmd[o].glyph].card = c]
SetBlocked(o, code) ==
  heap' = [heap EXCEPT ![cmd[o].ref][cmd[o].glyph].blocked = code]

BindCard(o) ==
  /\ cmd[o].pc = "bind"
  /\ SetCard(o, cmd[o].card)
  /\ cmd' = [cmd EXCEPT ![o].pc = "unblock"]
  /\ UNCHANGED <<trustVars, server, deploys, tickets, sync, call, audit>>

Unblock(o) ==
  /\ cmd[o].pc = "unblock"
  /\ SetBlocked(o, NoCode)
  /\ cmd' = [cmd EXCEPT ![o].pc = "gate"]
  /\ UNCHANGED <<trustVars, server, deploys, tickets, sync, call, audit>>

\* Mutant: explicit trust skips the attestation policy.
GateAttestation_Skipped(o) ==
  /\ cmd[o].pc = "gate"
  /\ cmd' = [cmd EXCEPT ![o].pc = "done"]
  /\ UNCHANGED <<trustVars, server, deploys, tickets, heap, sync, call, audit>>

\* Explicit trust does not bypass the policy, except by an attestation the gate
\* raises on: the handler of /glyph swallows that, and the binding has been
\* unblocked.
GateAttestation(o) ==
  /\ cmd[o].pc = "gate"
  /\ IF AttestationCode(cmd[o].card) \in {NoCode, GateRaised} THEN UNCHANGED heap
     ELSE SetBlocked(o, AttestationCode(cmd[o].card))
  /\ cmd' = [cmd EXCEPT ![o].pc = "done"]
  /\ UNCHANGED <<trustVars, server, deploys, tickets, sync, call, audit>>

BlockRevoked(o) ==
  /\ cmd[o].pc = "block"
  /\ SetBlocked(o, "CARD_REVOKED")
  /\ cmd' = [cmd EXCEPT ![o].pc = "done"]
  /\ UNCHANGED <<trustVars, server, deploys, tickets, sync, call, audit>>

----------------------------------------------------------------------------
(* The tool handler.  A call's frame: where it is, the binding it looked   *)
(* up, what the user answered, the card it executed under (NoCard while    *)
(* it has not run), whether the response arrived intact, and its result.   *)

NewCall == [pc |-> "new", glyph |-> NoGlyph, ref |-> 0, confirmed |-> FALSE,
            ran |-> NoCard, intact |-> FALSE, result |-> NoCode]

BindingOf(h) == heap[call[h].ref][call[h].glyph]

\* Steps of a call that change nothing but its frame.
Step(h, pc) ==
  /\ call' = [call EXCEPT ![h].pc = pc]
  /\ UNCHANGED <<trustVars, server, deploys, tickets, heap, sync, cmd, audit>>

Answer(h, result) ==
  /\ call' = [call EXCEPT ![h].pc = "returned", ![h].result = result]
  /\ UNCHANGED <<trustVars, server, deploys, tickets, heap, sync, cmd, audit>>

Lookup(h, g) ==
  /\ call[h].pc = "new"
  /\ call' = [call EXCEPT ![h] =
       [NewCall EXCEPT !.glyph = g, !.ref = Len(heap),
          !.pc = IF Bindings[g] = NoBinding THEN "returned" ELSE "gate",
          !.result = IF Bindings[g] = NoBinding THEN "NOT_FOUND" ELSE NoCode]]
  /\ UNCHANGED <<trustVars, server, deploys, tickets, heap, sync, cmd, audit>>

Gate(h) ==
  /\ call[h].pc = "gate"
  /\ IF BindingOf(h).blocked # NoCode THEN Answer(h, BindingOf(h).blocked)
     ELSE Step(h, "ask")

\* requires_confirmation, read after the gate.
Ask(h) ==
  /\ call[h].pc = "ask"
  /\ Step(h, IF BindingOf(h).card.confirm THEN "confirm" ELSE "send")

\* Mutant: only a refusal stops the call; a pending answer lets it through.
Confirm_DeniedOnly(h) ==
  /\ call[h].pc = "confirm"
  /\ \/ /\ \E yes \in BOOLEAN :
             call' = [call EXCEPT ![h].pc = "prepare", ![h].confirmed = yes]
        /\ UNCHANGED <<trustVars, server, deploys, tickets, heap, sync, cmd, audit>>
     \/ Answer(h, "USER_DENIED")

\* External: the confirmer's answer, which comes after any time.
Confirm(h) ==
  /\ call[h].pc = "confirm"
  /\ \/ /\ call' = [call EXCEPT ![h].pc = "prepare", ![h].confirmed = TRUE]
        /\ UNCHANGED <<trustVars, server, deploys, tickets, heap, sync, cmd, audit>>
     \/ \E answer \in {"USER_DENIED", "CONFIRMATION_PENDING", "CONFIRMATION_TIMEOUT",
                       "CONFIRMATION_UNAVAILABLE"} : Answer(h, answer)

\* client.prepare: the server issues a token for this glyph and this input,
\* or refuses, or is out of reach; its answer may be lost.
Prepare(h) ==
  /\ call[h].pc = "prepare" /\ server[call[h].glyph] # NoCard
  /\ tickets' = tickets \union {h}
  /\ call' = [call EXCEPT ![h].pc = "send"]
  /\ UNCHANGED <<trustVars, server, deploys, heap, sync, cmd, audit>>

PrepareFails(h) ==
  /\ call[h].pc = "prepare"
  /\ Answer(h, "SERVER_ERROR")

\* The server's check of a call, external: the glyph exists, and a card that
\* requires confirmation finds the call's token, which it uses up.
Accepts(h) ==
  LET c == server[call[h].glyph]
  IN  c # NoCard /\ (c.confirm => h \in tickets)

\* client.call executed.  The response arrives, intact or not, or is lost.
Execute(h) ==
  /\ call[h].pc = "send" /\ Accepts(h)
  /\ tickets' = IF server[call[h].glyph].confirm THEN tickets \ {h} ELSE tickets
  /\ \/ \E intact \in BOOLEAN :
          call' = [call EXCEPT ![h].pc = "seal", ![h].ran = server[call[h].glyph],
                               ![h].intact = intact]
     \/ call' = [call EXCEPT ![h].pc = "returned", ![h].ran = server[call[h].glyph],
                              ![h].result = "SERVER_UNREACHABLE"]
  /\ UNCHANGED <<trustVars, server, deploys, heap, sync, cmd, audit>>

\* The server rejects the call, or never sees it.
SendFails(h) ==
  /\ call[h].pc = "send"
  /\ Answer(h, "SERVER_ERROR")

\* Mutant: the receipt is checked against the card it names itself.
Seal_SelfChosenCard(h) ==
  LET verified == ReceiptsVerify =>
        CheckEnvelope([card |-> call[h].ran, intact |-> call[h].intact], call[h].ran)
  IN  /\ call[h].pc = "seal"
      /\ audit' = [audit EXCEPT ![h] = IF verified THEN "verified" ELSE "failed"]
      /\ call' = [call EXCEPT ![h].pc = "returned",
           ![h].result = IF verified THEN "released"
                         ELSE IF OnFailureBlock THEN "RECEIPT_INVALID" ELSE "warned"]
      /\ UNCHANGED <<trustVars, server, deploys, tickets, heap, sync, cmd>>

\* _seal: the receipt is checked against the card pinned by now, the verdict
\* is recorded, then the result is released, with a warning or not at all.
Seal(h) ==
  LET pin == pins[call[h].glyph]
      pinned == IF pin # NoPin THEN pin.card ELSE BindingOf(h).card
      verified == ReceiptsVerify =>
        CheckEnvelope([card |-> call[h].ran, intact |-> call[h].intact], pinned)
  IN  /\ call[h].pc = "seal"
      /\ audit' = [audit EXCEPT ![h] = IF verified THEN "verified" ELSE "failed"]
      /\ call' = [call EXCEPT ![h].pc = "returned",
           ![h].result = IF verified THEN "released"
                         ELSE IF OnFailureBlock THEN "RECEIPT_INVALID" ELSE "warned"]
      /\ UNCHANGED <<trustVars, server, deploys, tickets, heap, sync, cmd>>

\* The audit log cannot be written: the exception reaches the caller.
SealRaises(h) ==
  /\ WriteFaults /\ call[h].pc = "seal"
  /\ Answer(h, "raised")

----------------------------------------------------------------------------
(* The server, external.                                                   *)

\* A new deployment of a glyph, or its removal.
Deploy(g, c) ==
  /\ deploys < MaxDeploy
  /\ server[g] # c
  /\ c # NoCard => c.name = g
  /\ server' = [server EXCEPT ![g] = c]
  /\ deploys' = deploys + 1
  /\ UNCHANGED <<trustVars, tickets, heap, sync, cmd, call, audit>>

\* Tokens live CONFIRMATION_TTL_SECONDS.
Expire(h) ==
  /\ h \in tickets
  /\ tickets' = tickets \ {h}
  /\ UNCHANGED <<trustVars, server, deploys, heap, sync, cmd, call, audit>>

----------------------------------------------------------------------------
BridgeInit ==
  /\ TrustInit
  /\ server \in [Glyph -> Cards \union {NoCard}]
  /\ \A g \in Glyph : server[g] # NoCard => server[g].name = g
  /\ deploys = 0
  /\ tickets = {}
  /\ heap = <<Unbound>>
  /\ sync = NoSync
  /\ cmd = [o \in Command |-> NewCommand]
  /\ call = [h \in Call |-> NewCall]
  /\ audit = [h \in Call |-> "none"]

\* The steps of the trust manager's operations, once they are under way.
TrustStep(a) == Continue(a) /\ UNCHANGED bridgeVars

SyncStep == FetchCard \/ FetchFails \/ TrustStep(Syncer) \/ Bind \/ SyncAborts \/ Publish

CommandStep(o) ==
  \/ PickCard(o) \/ TrustApprove(o) \/ TrustStep(o) \/ TrustReturns(o)
  \/ BindCard(o) \/ Unblock(o) \/ GateAttestation(o) \/ BlockRevoked(o)

CallStep(h) ==
  \/ Gate(h) \/ Ask(h) \/ Confirm(h) \/ Prepare(h) \/ PrepareFails(h)
  \/ Execute(h) \/ SendFails(h) \/ Seal(h) \/ SealRaises(h)

BridgeNext ==
  \/ Handshake \/ SyncStep
  \/ \E o \in Command :
       \/ \E g \in Glyph : TrustTool(o, g) \/ RevokeTool(o, g)
       \/ CommandStep(o)
  \/ \E h \in Call :
       \/ \E g \in Glyph : Lookup(h, g)
       \/ CallStep(h) \/ Expire(h)
  \/ \E g \in Glyph, c \in Cards \union {NoCard} : Deploy(g, c)

BridgeSpec == BridgeInit /\ [][BridgeNext]_vars

\* Worker threads run, the HTTP client times out, and the gateway bounds its
\* confirmation waits (README, Concurrency model).
Fairness ==
  /\ WF_vars(SyncStep)
  /\ \A o \in Command : WF_vars(CommandStep(o))
  /\ \A h \in Call : WF_vars(CallStep(h))

FairBridgeSpec == BridgeSpec /\ Fairness

----------------------------------------------------------------------------
(* Properties.                                                             *)

Results == Codes \union
  {"NOT_FOUND", "USER_DENIED", "CONFIRMATION_PENDING", "CONFIRMATION_TIMEOUT",
   "CONFIRMATION_UNAVAILABLE", "SERVER_ERROR", "SERVER_UNREACHABLE", "released",
   "RECEIPT_INVALID", "warned", "raised"}

\* Every variable holds what the code keeps there.
BridgeTypeOK ==
  /\ TypeOK
  /\ server \in [Glyph -> Cards \union {NoCard}]
  /\ deploys \in 0..MaxDeploy
  /\ tickets \subseteq Call
  /\ heap \in Seq(Dict) /\ Len(heap) \in 1..MaxSync + 1
  /\ sync \in [pc : {"idle", "fetch", "evaluate"}, todo : SUBSET Glyph,
                glyph : Glyph \union {NoGlyph}, dict : Dict]
  /\ cmd \in [Command ->
       [pc : {"new", "pick", "approve", "approving", "revoking", "bind", "unblock",
              "gate", "block", "done"},
        glyph : Glyph \union {NoGlyph}, ref : 0..Len(heap),
        card : Cards \union {NoCard}, shown : Cards \union {NoCard},
        overlapped : BOOLEAN]]
  /\ call \in [Call ->
       [pc : {"new", "gate", "ask", "confirm", "prepare", "send", "seal", "returned"},
        glyph : Glyph \union {NoGlyph}, ref : 0..Len(heap), confirmed : BOOLEAN,
        ran : Cards \union {NoCard}, intact : BOOLEAN, result : Results]]
  /\ audit \in [Call -> {"none", "verified", "failed"}]

\* A binding that is not blocked, in the published dict or in one that calls
\* still hold on to, carries a verified card with an endorsed contract
\* (README: a card whose signature is invalid is "never callable", a breaking
\* change "needs /glyph trust").
CallableEndorsed ==
  \A i \in 1..Len(heap), g \in Glyph :
    heap[i][g] # NoBinding /\ heap[i][g].blocked = NoCode => Endorsed(heap[i][g].card)

\* The server executes a card that requires confirmation only for a call the
\* user said yes to, whatever was redeployed, resynced or re-trusted between
\* the gate and the call.
ConfirmedExecution ==
  \A h \in Call : call[h].ran # NoCard /\ call[h].ran.confirm => call[h].confirmed

\* With receipts verified, the model is handed only results that arrived
\* intact, from a card with an endorsed contract (of its own signature nobody
\* asks again), and that the audit log records as verified.
ReleasedIsEndorsed ==
  \A h \in Call : call[h].result = "released" =>
    /\ call[h].intact /\ audit[h] = "verified"
    /\ \E e \in Cards : Endorsed(e) /\ SameContract(e, call[h].ran)

\* With nothing under way, and as long as syncs and commands came one after
\* the other, a callable tool has a live pin of the contract it is bound to,
\* whatever was deployed, approved and revoked in between (bridge.py: "/glyph
\* trust/revoke take effect on already-registered tools"), and passes the
\* attestation policy, unless the gate raises on its card.
CallableMatchesStore ==
  AtRest /\ (\A o \in Command : ~cmd[o].overlapped) => \A g \in Glyph :
    Bindings[g] # NoBinding /\ Bindings[g].blocked = NoCode =>
      /\ pins[g] # NoPin /\ ~pins[g].revoked
      /\ SameContract(pins[g].card, Bindings[g].card)
      /\ AttestationCode(Bindings[g].card) \in {NoCode, GateRaised}

\* The card `/glyph trust' approves is the one whose diff it shows, if it shows
\* one and neither a sync nor another command parks or takes a card meanwhile
\* (README: "approve a new/changed card (diff shown first)").
ShownIsApproved ==
  \A o \in Command :
    cmd[o].card # NoCard /\ cmd[o].shown # NoCard /\ ~cmd[o].overlapped
      => cmd[o].card = cmd[o].shown

\* What the code does not give: a callable tool passes the attestation policy
\* (bridge.py: "explicit trust does not bypass policy").  One `/glyph trust' of
\* a card the gate raises on is enough, and no run checks it.
CallablePassesPolicy ==
  AtRest => \A g \in Glyph :
    Bindings[g] # NoBinding /\ Bindings[g].blocked = NoCode =>
      AttestationCode(Bindings[g].card) = NoCode

\* With nothing under way, a tool whose pin is revoked is not callable
\* (README: "Revoked | blocked until re-approved").
RevokedNotCallable ==
  AtRest => \A g \in Glyph :
    pins[g] # NoPin /\ pins[g].revoked =>
      Bindings[g] = NoBinding \/ Bindings[g].blocked # NoCode

\* Every call and every command returns, and every sync ends.
EverythingReturns ==
  /\ \A h \in Call : call[h].pc # "new" ~> call[h].pc = "returned"
  /\ \A o \in Command : cmd[o].pc # "new" ~> cmd[o].pc = "done"
  /\ sync.pc # "idle" ~> sync.pc = "idle"
=============================================================================
