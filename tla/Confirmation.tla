---------------------------- MODULE Confirmation ----------------------------
(***************************************************************************)
(* The confirmation seam (_hermes.py): how a tool call that needs the      *)
(* user's consent gets an answer.  A grant left by an earlier approval is  *)
(* used up first.  Otherwise the call asks: through a blocking gateway     *)
(* decision (tier 1), through Hermes' approval queue, to be made again     *)
(* once the user has approved (tier 2), or through the CLI prompt.         *)
(*                                                                         *)
(* Identical calls share an approval key; calls run in threads of their    *)
(* own.  Hermes' side (the queue, the user, the hook) is external.         *)
(***************************************************************************)
EXTENDS Integers, FiniteSets

CONSTANTS
  Key,             \* approval keys glyph:<alias>:<glyph>:<input hash>
  Call,            \* calls of request_user_confirmation; each is made once
  NoKey,           \* the key of a call not made yet
  HookOnBlocking   \* whether Hermes fires post_approval_response for
                   \* blocking decisions too (external)

ASSUME ConfirmationAssumption ==
  IsFiniteSet(Call) /\ NoKey \notin Key /\ HookOnBlocking \in BOOLEAN

VARIABLES
  caps,     \* the approval symbols detect_caps found in Hermes
  env,      \* HERMES_CRON_SESSION, HERMES_INTERACTIVE
  grants,   \* OneShotGrantStore: no grant, a live one, or one past its TTL
  call,     \* the calls under way
  queue,    \* external: the queued question of a call, the answer to it until
            \* its hook has run
  said      \* history: what the user said when asked about a call

vars == <<caps, env, grants, call, queue, said>>

\* What the user can choose; `session' is taken like `once' everywhere.
Choice == {"once", "always", "approve", "deny"}
Consent == Choice \ {"deny"}

----------------------------------------------------------------------------
(* Grants.                                                                 *)

\* Mutant: looks the grant up and leaves it there.
Consume_Peek(k) == UNCHANGED grants

\* The pop of OneShotGrantStore.consume, whether or not the grant is live.
Consume(k) == grants' = [grants EXCEPT ![k] = "none"]

\* Mutant: whatever the user chose is recorded.
Hook_AnyChoice(c) ==
  /\ queue[c] \in Choice
  /\ grants' = [grants EXCEPT ![call[c].key] = "live"]
  /\ queue' = [queue EXCEPT ![c] = "closed"]
  /\ UNCHANGED <<caps, env, call, said>>

\* The hook, once the user has answered the question asked for c.
Hook(c) ==
  /\ queue[c] \in Choice
  /\ grants' = IF queue[c] \in {"once", "always", "approve"}
               THEN [grants EXCEPT ![call[c].key] = "live"] ELSE grants
  /\ queue' = [queue EXCEPT ![c] = "closed"]
  /\ UNCHANGED <<caps, env, call, said>>

\* ttl_seconds go by.
Expire(k) ==
  /\ grants[k] = "live"
  /\ grants' = [grants EXCEPT ![k] = "stale"]
  /\ UNCHANGED <<caps, env, call, queue, said>>

----------------------------------------------------------------------------
(* request_user_confirmation.                                              *)

Request(c, k) ==
  /\ call[c].pc = "new"
  /\ call' = [call EXCEPT ![c] =
       IF grants[k] = "live"
       THEN [pc |-> "returned", key |-> k, result |-> "approved"]
       ELSE [pc |-> "route", key |-> k, result |-> ""]]
  /\ Consume(k)
  /\ UNCHANGED <<caps, env, queue, said>>

Goto(c, pc) == call' = [call EXCEPT ![c].pc = pc]

Return(c, result) ==
  call' = [call EXCEPT ![c].pc = "returned", ![c].result = result]

\* Hermes says this is a gateway session; its notify callback may be missing.
RouteGateway(c) ==
  /\ call[c].pc = "route"
  /\ \/ "tier1" \in caps /\ Goto(c, "await")
     \/ Goto(c, "submit")
  /\ UNCHANGED <<caps, env, grants, queue, said>>

\* Hermes says it is not one, or cannot tell.
RouteLocal(c) ==
  /\ call[c].pc = "route"
  /\ IF "cron" \notin env /\ "interactive" \in env /\ "prompt" \in caps
     THEN Goto(c, "prompt") ELSE Return(c, "unavailable")
  /\ UNCHANGED <<caps, env, grants, queue, said>>

Prompt(c) ==
  /\ call[c].pc = "prompt"
  /\ \E choice \in Choice :
       /\ said' = [said EXCEPT ![c] = choice]
       /\ Return(c, IF choice = "once" THEN "approved" ELSE "denied")
  /\ UNCHANGED <<caps, env, grants, queue>>

PromptRaises(c) ==
  /\ call[c].pc = "prompt"
  /\ Return(c, "unavailable")
  /\ UNCHANGED <<caps, env, grants, queue, said>>

\* Mutant: anything but an approval falls through to the queue.
Await_RefusalFallsThrough(c) ==
  /\ call[c].pc = "await"
  /\ \E choice \in Choice :
       /\ said' = [said EXCEPT ![c] = choice]
       /\ IF choice \in {"once", "always"} THEN Return(c, "approved")
          ELSE Goto(c, "submit")
       /\ queue' = [queue EXCEPT ![c] = IF HookOnBlocking THEN choice ELSE @]
  /\ UNCHANGED <<caps, env, grants>>

\* Mutant: the outcome is the user's choice itself.
Await_RawChoice(c) ==
  /\ call[c].pc = "await"
  /\ \E choice \in Choice :
       /\ said' = [said EXCEPT ![c] = choice]
       /\ Return(c, choice)
       /\ queue' = [queue EXCEPT ![c] = IF HookOnBlocking THEN choice ELSE @]
  /\ UNCHANGED <<caps, env, grants>>

\* Tier 1: the user decides while the call waits.
Await(c) ==
  /\ call[c].pc = "await"
  /\ \E choice \in Choice :
       /\ said' = [said EXCEPT ![c] = choice]
       /\ Return(c, IF choice \in {"once", "always"} THEN "approved" ELSE "denied")
       /\ queue' = [queue EXCEPT ![c] = IF HookOnBlocking THEN choice ELSE @]
  /\ UNCHANGED <<caps, env, grants>>

\* Nobody answered within Hermes' gateway timeout.
AwaitTimeout(c) ==
  /\ call[c].pc = "await"
  /\ Return(c, "timeout")
  /\ UNCHANGED <<caps, env, grants, queue, said>>

AwaitRaises(c) ==
  /\ call[c].pc = "await"
  /\ Goto(c, "submit")
  /\ UNCHANGED <<caps, env, grants, queue, said>>

\* Tier 2: the question is queued and the call returns.
Submit(c) ==
  /\ call[c].pc = "submit" /\ "tier2" \in caps
  /\ queue' = [queue EXCEPT ![c] = "asked"]
  /\ Return(c, "pending")
  /\ UNCHANGED <<caps, env, grants, said>>

\* submit_pending is missing, or raises before or after it has queued.
SubmitFails(c) ==
  /\ call[c].pc = "submit"
  /\ \/ UNCHANGED queue
     \/ "tier2" \in caps /\ queue' = [queue EXCEPT ![c] = "asked"]
  /\ Return(c, "unavailable")
  /\ UNCHANGED <<caps, env, grants, said>>

----------------------------------------------------------------------------
(* Hermes and the user, external.                                          *)

Decide(c) ==
  /\ queue[c] = "asked"
  /\ \E choice \in Choice :
       /\ queue' = [queue EXCEPT ![c] = choice]
       /\ said' = [said EXCEPT ![c] = choice]
  /\ UNCHANGED <<caps, env, grants, call>>

\* A queued question can get lost: another one replaces it, Hermes restarts.
Drop(c) ==
  /\ queue[c] = "asked"
  /\ queue' = [queue EXCEPT ![c] = "closed"]
  /\ UNCHANGED <<caps, env, grants, call, said>>

----------------------------------------------------------------------------
Init ==
  /\ caps \in SUBSET {"tier1", "tier2", "prompt"}
  /\ env \in SUBSET {"cron", "interactive"}
  /\ grants = [k \in Key |-> "none"]
  /\ call = [c \in Call |-> [pc |-> "new", key |-> NoKey, result |-> ""]]
  /\ queue = [c \in Call |-> "none"]
  /\ said = [c \in Call |-> "nothing"]

Next ==
  \/ \E c \in Call :
       \/ \E k \in Key : Request(c, k)
       \/ RouteGateway(c) \/ RouteLocal(c) \/ Prompt(c) \/ PromptRaises(c)
       \/ Await(c) \/ AwaitTimeout(c) \/ AwaitRaises(c)
       \/ Submit(c) \/ SubmitFails(c)
       \/ Decide(c) \/ Drop(c) \/ Hook(c)
  \/ \E k \in Key : Expire(k)

Spec == Init /\ [][Next]_vars

----------------------------------------------------------------------------
(* Properties.                                                             *)

Pcs == {"new", "route", "await", "submit", "prompt", "returned"}
Results == {"", "approved", "denied", "pending", "timeout", "unavailable"}
CallFrame == [pc : Pcs, key : Key \union {NoKey}, result : Results]

TypeOK ==
  /\ caps \subseteq {"tier1", "tier2", "prompt"}
  /\ env \subseteq {"cron", "interactive"}
  /\ grants \in [Key -> {"none", "live", "stale"}]
  /\ call \in [Call -> CallFrame]
  /\ \A c \in Call : call[c].pc # "new" => call[c].key \in Key
  /\ queue \in [Call -> {"none", "asked", "closed"} \union Choice]
  /\ said \in [Call -> {"nothing"} \union Choice]

Approved(k) == {c \in Call : call[c].key = k /\ call[c].result = "approved"}
Consented(k) == {c \in Call : call[c].key = k /\ said[c] \in Consent}

\* Every consent of the user covers at most one call, whatever tiers the
\* calls went through, how often they were retried before the answer and when
\* the hook ran: a confirmation "must never silently cover a later identical
\* call" (OneShotGrantStore).
OneShot == \A k \in Key : Cardinality(Approved(k)) <= Cardinality(Consented(k))

\* Consents on their way to a call: answers whose hook has not run, and the
\* grant in the store.
Answered(k) == {c \in Call : call[c].key = k /\ queue[c] \in Consent}
Stored(k) == IF grants[k] = "none" THEN 0 ELSE 1

\* OneShot made inductive: what is approved, stored and on its way is covered
\* by consents, one for one.
OneShotInv ==
  \A k \in Key :
    Cardinality(Approved(k)) + Cardinality(Answered(k)) + Stored(k)
      <= Cardinality(Consented(k))

\* The user is asked about a call once: a question is queued only for a call
\* whose blocking question was not answered ("fall through to tier 2" is for a
\* decision that failed, not for a refusal).
AskedOnce == \A c \in Call : queue[c] = "asked" => said[c] = "nothing"

\* A call that has not returned has neither been answered nor queued.
Frames ==
  \A c \in Call : call[c].pc # "returned" =>
    /\ call[c].result = "" /\ queue[c] = "none" /\ said[c] = "nothing"
    /\ call[c].pc = "new" => call[c].key = NoKey
=============================================================================
