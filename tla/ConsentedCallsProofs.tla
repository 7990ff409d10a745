------------------------ MODULE ConsentedCallsProofs ------------------------
(***************************************************************************)
(* What the confirmation seam guarantees for any number of calls and keys: *)
(* its types, that nobody is asked twice about a call, and, when Hermes    *)
(* fires its hook for queued questions only, that every consent covers at  *)
(* most one call.  Then the seam and the tool handler together: their      *)
(* types, and that each execution of a card that requires confirmation     *)
(* uses one consent to its tool and input.                                 *)
(***************************************************************************)
EXTENDS ConsentedCalls, FiniteSetTheorems, TLAPS

----------------------------------------------------------------------------
(* Types and frames.                                                       *)

\* Types, but for the keys: what each update of a variable preserves.
LEMMA GotoFrame ==
  ASSUME TypeOK, NEW c \in Call, NEW pc \in Pcs, Goto(c, pc), call[c].pc # "new"
  PROVE  /\ call' \in [Call -> CallFrame]
         /\ call'[c].pc = pc /\ call'[c].key = call[c].key
         /\ call'[c].result = call[c].result
         /\ \A d \in Call \ {c} : call'[d] = call[d]
         /\ \A d \in Call : call'[d].pc # "new" => call'[d].key \in Key
BY DEF TypeOK, Goto, CallFrame

LEMMA ReturnFrame ==
  ASSUME TypeOK, NEW c \in Call, NEW r \in Results, Return(c, r),
         call[c].pc # "new"
  PROVE  /\ call' \in [Call -> CallFrame]
         /\ call'[c].pc = "returned" /\ call'[c].key = call[c].key
         /\ call'[c].result = r
         /\ \A d \in Call \ {c} : call'[d] = call[d]
         /\ \A d \in Call : call'[d].pc # "new" => call'[d].key \in Key
<1>1. "returned" \in Pcs
  BY DEF Pcs
<1> QED BY <1>1 DEF TypeOK, Return, CallFrame

LEMMA RequestFrame ==
  ASSUME TypeOK, NEW c \in Call, NEW k \in Key, Request(c, k)
  PROVE  /\ call' \in [Call -> CallFrame]
         /\ call'[c].pc \in {"route", "returned"} /\ call'[c].key = k
         /\ call'[c].result = IF grants[k] = "live" THEN "approved" ELSE ""
         /\ call'[c].pc = "returned" <=> grants[k] = "live"
         /\ \A d \in Call \ {c} : call'[d] = call[d]
         /\ \A d \in Call : call'[d].pc # "new" => call'[d].key \in Key
BY DEF TypeOK, Request, CallFrame, Pcs, Results

LEMMA TypeStep == TypeOK /\ [Next]_vars => TypeOK'
<1> SUFFICES ASSUME TypeOK, [Next]_vars PROVE TypeOK'
  OBVIOUS
<1>1. ASSUME NEW c \in Call, NEW k \in Key, Request(c, k) PROVE TypeOK'
  <2>1. grants' \in [Key -> {"none", "live", "stale"}]
    BY <1>1 DEF TypeOK, Request, Consume
  <2> QED BY <1>1, <2>1, RequestFrame DEF TypeOK, Request
<1>2. ASSUME NEW c \in Call, RouteGateway(c) \/ RouteLocal(c) PROVE TypeOK'
  <2>1. call[c].pc # "new"
    BY <1>2 DEF RouteGateway, RouteLocal
  <2>2. "unavailable" \in Results /\ {"await", "submit", "prompt"} \subseteq Pcs
    BY DEF Results, Pcs
  <2>3. /\ call' \in [Call -> CallFrame]
        /\ \A d \in Call : call'[d].pc # "new" => call'[d].key \in Key
    BY <1>2, <2>1, <2>2, GotoFrame, ReturnFrame DEF RouteGateway, RouteLocal
  <2> QED BY <1>2, <2>3 DEF TypeOK, RouteGateway, RouteLocal
<1>3. ASSUME NEW c \in Call, Prompt(c) \/ PromptRaises(c) PROVE TypeOK'
  <2>1. call[c].pc # "new"
    BY <1>3 DEF Prompt, PromptRaises
  <2>2. {"approved", "denied", "unavailable"} \subseteq Results
    BY DEF Results
  <2>3. PICK r \in Results : Return(c, r)
    BY <1>3, <2>2 DEF Prompt, PromptRaises
  <2>4. said' \in [Call -> {"nothing"} \union Choice]
    BY <1>3 DEF TypeOK, Prompt, PromptRaises
  <2> QED BY <1>3, <2>1, <2>3, <2>4, ReturnFrame DEF TypeOK, Prompt, PromptRaises
<1>4. ASSUME NEW c \in Call, Await(c) PROVE TypeOK'
  <2>1. call[c].pc # "new"
    BY <1>4 DEF Await
  <2>2. {"approved", "denied"} \subseteq Results
    BY DEF Results
  <2>3. PICK choice \in Choice :
          /\ said' = [said EXCEPT ![c] = choice]
          /\ Return(c, IF choice \in {"once", "always"} THEN "approved" ELSE "denied")
          /\ queue' = [queue EXCEPT ![c] = IF HookOnBlocking THEN choice ELSE @]
    BY <1>4 DEF Await
  <2>4. PICK r \in Results : Return(c, r)
    BY <2>2, <2>3
  <2>5. /\ said' \in [Call -> {"nothing"} \union Choice]
        /\ queue' \in [Call -> {"none", "asked", "closed"} \union Choice]
    BY <2>3 DEF TypeOK
  <2> QED BY <1>4, <2>1, <2>4, <2>5, ReturnFrame DEF TypeOK, Await
<1>5. ASSUME NEW c \in Call, AwaitTimeout(c) \/ AwaitRaises(c) PROVE TypeOK'
  <2>1. call[c].pc # "new"
    BY <1>5 DEF AwaitTimeout, AwaitRaises
  <2>2. "timeout" \in Results /\ "submit" \in Pcs
    BY DEF Results, Pcs
  <2>3. /\ call' \in [Call -> CallFrame]
        /\ \A d \in Call : call'[d].pc # "new" => call'[d].key \in Key
    BY <1>5, <2>1, <2>2, GotoFrame, ReturnFrame DEF AwaitTimeout, AwaitRaises
  <2> QED BY <1>5, <2>3 DEF TypeOK, AwaitTimeout, AwaitRaises
<1>6. ASSUME NEW c \in Call, Submit(c) \/ SubmitFails(c) PROVE TypeOK'
  <2>1. call[c].pc # "new"
    BY <1>6 DEF Submit, SubmitFails
  <2>2. {"pending", "unavailable"} \subseteq Results
    BY DEF Results
  <2>3. PICK r \in Results : Return(c, r)
    BY <1>6, <2>2 DEF Submit, SubmitFails
  <2>4. queue' \in [Call -> {"none", "asked", "closed"} \union Choice]
    BY <1>6 DEF TypeOK, Submit, SubmitFails
  <2> QED BY <1>6, <2>1, <2>3, <2>4, ReturnFrame DEF TypeOK, Submit, SubmitFails
<1>7. ASSUME NEW c \in Call, Decide(c) \/ Drop(c) PROVE TypeOK'
  BY <1>7 DEF TypeOK, Decide, Drop
<1>8. ASSUME NEW c \in Call, Hook(c) PROVE TypeOK'
  BY <1>8 DEF TypeOK, Hook
<1>9. ASSUME NEW k \in Key, Expire(k) PROVE TypeOK'
  BY <1>9 DEF TypeOK, Expire
<1>10. CASE UNCHANGED vars
  BY <1>10 DEF TypeOK, vars
<1> QED BY <1>1, <1>2, <1>3, <1>4, <1>5, <1>6, <1>7, <1>8, <1>9, <1>10 DEF Next

LEMMA TypeInit == Init => TypeOK
<1> SUFFICES ASSUME Init PROVE TypeOK
  OBVIOUS
<1>1. [pc |-> "new", key |-> NoKey, result |-> ""] \in CallFrame
  BY DEF CallFrame, Pcs, Results
<1>2. call \in [Call -> CallFrame] /\ \A c \in Call : call[c].pc = "new"
  BY <1>1 DEF Init
<1> QED BY <1>2 DEF Init, TypeOK

\* The seam keeps its types; in particular it never answers with anything but
\* the five outcomes bridge.py knows.
THEOREM TypeCorrect == Spec => []TypeOK
<1> QED BY TypeInit, TypeStep, PTL DEF Spec

----------------------------------------------------------------------------
(* Nobody is asked twice about a call.                                     *)

IInv == TypeOK /\ Frames /\ AskedOnce

LEMMA FramesStep == IInv /\ [Next]_vars => Frames' /\ AskedOnce'
<1> SUFFICES ASSUME IInv, [Next]_vars PROVE Frames' /\ AskedOnce'
  OBVIOUS
<1> USE DEF IInv, Frames, AskedOnce
<1>1. ASSUME NEW c \in Call, NEW k \in Key, Request(c, k) PROVE Frames' /\ AskedOnce'
  <2>1. /\ call[c].pc = "new" /\ UNCHANGED <<queue, said>>
        /\ call'[c].pc \in {"route", "returned"}
        /\ call'[c].pc = "returned" \/ call'[c].result = ""
        /\ \A d \in Call \ {c} : call'[d] = call[d]
    BY <1>1, RequestFrame DEF Request
  <2> QED BY <2>1
<1>2. ASSUME NEW c \in Call, RouteGateway(c) \/ RouteLocal(c)
      PROVE  Frames' /\ AskedOnce'
  <2>1. call[c].pc = "route" /\ UNCHANGED <<queue, said>>
    BY <1>2 DEF RouteGateway, RouteLocal
  <2>2. "unavailable" \in Results /\ {"await", "submit", "prompt"} \subseteq Pcs
    BY DEF Results, Pcs
  <2>3. \/ \E pc \in {"await", "submit", "prompt"} : Goto(c, pc)
        \/ Return(c, "unavailable")
    BY <1>2 DEF RouteGateway, RouteLocal
  <2>4. /\ call'[c].pc \in {"await", "submit", "prompt", "returned"}
        /\ call'[c].pc = "returned" \/ call'[c].result = call[c].result
        /\ \A d \in Call \ {c} : call'[d] = call[d]
    <3>1. call[c].pc # "new"
      BY <2>1
    <3>2. CASE \E pc \in {"await", "submit", "prompt"} : Goto(c, pc)
      BY <3>1, <3>2, <2>2, GotoFrame
    <3>3. CASE Return(c, "unavailable")
      BY <3>1, <3>3, <2>2, ReturnFrame
    <3> QED BY <2>3, <3>2, <3>3
  <2> QED BY <2>1, <2>4
<1>3. ASSUME NEW c \in Call, NEW r \in Results, Return(c, r),
             call[c].pc \notin {"new", "returned"},
             \A d \in Call \ {c} : queue'[d] = queue[d] /\ said'[d] = said[d],
             queue'[c] = "asked" => said'[c] = "nothing"
      PROVE  Frames' /\ AskedOnce'
  <2>1. call'[c].pc = "returned" /\ \A d \in Call \ {c} : call'[d] = call[d]
    BY <1>3, ReturnFrame
  <2> QED BY <1>3, <2>1
<1>4. ASSUME NEW c \in Call, Prompt(c) \/ PromptRaises(c) \/ AwaitTimeout(c)
      PROVE  Frames' /\ AskedOnce'
  <2>1. call[c].pc \in {"prompt", "await"} /\ queue' = queue
    BY <1>4 DEF Prompt, PromptRaises, AwaitTimeout
  <2>2. {"approved", "denied", "unavailable", "timeout"} \subseteq Results
    BY DEF Results
  <2>3. PICK r \in Results : Return(c, r)
    BY <1>4, <2>2 DEF Prompt, PromptRaises, AwaitTimeout
  <2>4. \A d \in Call \ {c} : said'[d] = said[d]
    BY <1>4 DEF Prompt, PromptRaises, AwaitTimeout, TypeOK
  <2> QED BY <1>3, <2>1, <2>3, <2>4
<1>5. ASSUME NEW c \in Call, Await(c) PROVE Frames' /\ AskedOnce'
  <2>1. {"approved", "denied"} \subseteq Results /\ "asked" \notin Choice
    BY DEF Results, Choice
  <2>2. PICK choice \in Choice :
          /\ said' = [said EXCEPT ![c] = choice]
          /\ Return(c, IF choice \in {"once", "always"} THEN "approved" ELSE "denied")
          /\ queue' = [queue EXCEPT ![c] = IF HookOnBlocking THEN choice ELSE @]
    BY <1>5 DEF Await
  <2>3. PICK r \in Results : Return(c, r)
    BY <2>1, <2>2
  <2>4. call[c].pc = "await" /\ queue[c] = "none"
    BY <1>5 DEF Await
  <2>5. \A d \in Call \ {c} : queue'[d] = queue[d] /\ said'[d] = said[d]
    BY <2>2 DEF TypeOK
  <2>6. queue'[c] # "asked"
    BY <2>1, <2>2, <2>4 DEF TypeOK
  <2> QED BY <1>3, <2>3, <2>4, <2>5, <2>6
<1>6. ASSUME NEW c \in Call, AwaitRaises(c) PROVE Frames' /\ AskedOnce'
  <2>1. call[c].pc = "await" /\ Goto(c, "submit") /\ UNCHANGED <<queue, said>>
    BY <1>6 DEF AwaitRaises
  <2>2. "submit" \in Pcs
    BY DEF Pcs
  <2>3. /\ call'[c].pc = "submit" /\ call'[c].result = call[c].result
        /\ \A d \in Call \ {c} : call'[d] = call[d]
    BY <2>1, <2>2, GotoFrame
  <2> QED BY <2>1, <2>3
<1>7. ASSUME NEW c \in Call, Submit(c) \/ SubmitFails(c) PROVE Frames' /\ AskedOnce'
  <2>1. call[c].pc = "submit" /\ said' = said
    BY <1>7 DEF Submit, SubmitFails
  <2>2. {"pending", "unavailable"} \subseteq Results
    BY DEF Results
  <2>3. PICK r \in Results : Return(c, r)
    BY <1>7, <2>2 DEF Submit, SubmitFails
  <2>4. \A d \in Call \ {c} : queue'[d] = queue[d]
    BY <1>7 DEF Submit, SubmitFails, TypeOK
  <2> QED BY <1>3, <2>1, <2>3, <2>4
<1>8. ASSUME NEW c \in Call, Decide(c) \/ Drop(c) \/ Hook(c)
      PROVE  Frames' /\ AskedOnce'
  <2>1. queue[c] # "none" /\ call' = call /\ "asked" \notin Choice
    BY <1>8 DEF Decide, Drop, Hook, Choice
  <2>2. queue'[c] # "asked"
    BY <1>8, <2>1 DEF Decide, Drop, Hook, TypeOK
  <2>3. \A d \in Call \ {c} : queue'[d] = queue[d] /\ said'[d] = said[d]
    BY <1>8 DEF Decide, Drop, Hook, TypeOK
  <2>4. call[c].pc = "returned"
    BY <2>1
  <2> QED BY <2>1, <2>2, <2>3, <2>4
<1>9. ASSUME NEW k \in Key, Expire(k) PROVE Frames' /\ AskedOnce'
  BY <1>9 DEF Expire
<1>10. CASE UNCHANGED vars
  BY <1>10 DEF vars
<1> QED BY <1>1, <1>2, <1>4, <1>5, <1>6, <1>7, <1>8, <1>9, <1>10 DEF Next

LEMMA IInvInvariant == Spec => []IInv
<1>1. Init => Frames /\ AskedOnce
  <2> SUFFICES ASSUME Init PROVE Frames /\ AskedOnce
    OBVIOUS
  <2>1. \A c \in Call : /\ call[c].key = NoKey /\ call[c].result = ""
                        /\ queue[c] = "none" /\ said[c] = "nothing"
    BY DEF Init
  <2> QED BY <2>1 DEF Frames, AskedOnce
<1>2. Init => IInv
  BY <1>1, TypeInit DEF IInv
<1>3. IInv /\ [Next]_vars => IInv'
  BY TypeStep, FramesStep DEF IInv
<1> QED BY <1>2, <1>3, PTL DEF Spec

\* A question is queued only for a call nobody has answered yet.
THEOREM AsksOnce == Spec => []AskedOnce
<1>1. IInv => AskedOnce
  BY DEF IInv
<1> QED BY <1>1, IInvInvariant, PTL

----------------------------------------------------------------------------
(* Every consent covers at most one call.                                  *)

LEMMA AddOne ==
  ASSUME NEW S \in SUBSET Call, NEW c \in Call, c \notin S
  PROVE  Cardinality(S \union {c}) = Cardinality(S) + 1
BY ConfirmationAssumption, FS_Subset, FS_AddElement

LEMMA RemoveOne ==
  ASSUME NEW S \in SUBSET Call, NEW c \in S
  PROVE  Cardinality(S \ {c}) = Cardinality(S) - 1
BY ConfirmationAssumption, FS_Subset, FS_RemoveElement

LEMMA CountNat == \A S \in SUBSET Call : Cardinality(S) \in Nat
BY ConfirmationAssumption, FS_Subset, FS_CardinalityType

\* The balance of one key: consents cover what is approved, stored and on its
\* way.
Balance(k) ==
  Cardinality(Approved(k)) + Cardinality(Answered(k)) + Stored(k)
    <= Cardinality(Consented(k))

\* A step that moves nothing between the four parts of a key's balance.
LEMMA BalanceKept ==
  ASSUME NEW k \in Key, Balance(k),
         Approved(k)' = Approved(k), Answered(k)' = Answered(k),
         Stored(k)' \in {0, Stored(k)}, Consented(k)' = Consented(k)
  PROVE  Balance(k)'
<1>1. /\ Cardinality(Approved(k)) \in Nat /\ Cardinality(Answered(k)) \in Nat
      /\ Cardinality(Consented(k)) \in Nat
  BY CountNat DEF Approved, Answered, Consented
<1>2. Stored(k) \in {0, 1}
  BY DEF Stored
<1>3. Balance(k)' <=> Cardinality(Approved(k)) + Cardinality(Answered(k)) + Stored(k)'
                        <= Cardinality(Consented(k))
  BY DEF Balance
<1> QED BY <1>1, <1>2, <1>3 DEF Balance

\* The calls a step leaves alone stay where they are in the balance.
LEMMA Others ==
  ASSUME NEW k \in Key, NEW c \in Call,
         \A d \in Call \ {c} :
           call'[d] = call[d] /\ queue'[d] = queue[d] /\ said'[d] = said[d]
  PROVE  /\ Approved(k)' \ {c} = Approved(k) \ {c}
         /\ Answered(k)' \ {c} = Answered(k) \ {c}
         /\ Consented(k)' \ {c} = Consented(k) \ {c}
BY DEF Approved, Answered, Consented

\* The user said something about c: with a consent the balance gains as much
\* on the right as on the left, with a refusal nothing.
LEMMA BalanceSaid ==
  ASSUME NEW k \in Key, NEW c \in Call, Balance(k), Stored(k)' = Stored(k),
         \A d \in Call \ {c} :
           call'[d] = call[d] /\ queue'[d] = queue[d] /\ said'[d] = said[d],
         c \notin Approved(k), c \notin Answered(k), c \notin Consented(k),
         ~(c \in Approved(k)' /\ c \in Answered(k)'),
         c \in Approved(k)' \/ c \in Answered(k)' => c \in Consented(k)'
  PROVE  Balance(k)'
<1> DEFINE A == Approved(k)  W == Answered(k)  C == Consented(k)
<1>1. A \subseteq Call /\ W \subseteq Call /\ C \subseteq Call
  BY DEF Approved, Answered, Consented
<1>2. /\ A' = A \/ (A' = A \union {c} /\ c \in A')
      /\ W' = W \/ (W' = W \union {c} /\ c \in W')
      /\ C' = C \/ C' = C \union {c}
  <2>1. A' \ {c} = A \ {c} /\ W' \ {c} = W \ {c} /\ C' \ {c} = C \ {c}
    BY Others
  <2>2. c \notin A /\ c \notin W /\ c \notin C
    OBVIOUS
  <2> HIDE DEF A, W, C
  <2>3. A' = A \/ (A' = A \union {c} /\ c \in A')
    BY <2>1, <2>2
  <2>4. W' = W \/ (W' = W \union {c} /\ c \in W')
    BY <2>1, <2>2
  <2>5. C' = C \/ C' = C \union {c}
    BY <2>1, <2>2
  <2> QED BY <2>3, <2>4, <2>5
<1>3. C' = C => A' = A /\ W' = W
  BY <1>2
<1>4. A' = A \/ W' = W
  BY <1>2
<1>5. /\ Cardinality(A) \in Nat /\ Cardinality(W) \in Nat /\ Cardinality(C) \in Nat
      /\ Stored(k) \in {0, 1}
  BY <1>1, CountNat DEF Stored
<1>6. /\ Cardinality(A \union {c}) = Cardinality(A) + 1
      /\ Cardinality(W \union {c}) = Cardinality(W) + 1
      /\ Cardinality(C \union {c}) = Cardinality(C) + 1
  BY <1>1, AddOne
<1>7. Cardinality(A) + Cardinality(W) + Stored(k) <= Cardinality(C)
  BY DEF Balance
<1>8. Balance(k)' <=>
        Cardinality(A') + Cardinality(W') + Stored(k)' <= Cardinality(C')
  BY DEF Balance
<1>9. /\ Cardinality(A') \in {Cardinality(A), Cardinality(A) + 1}
      /\ Cardinality(W') \in {Cardinality(W), Cardinality(W) + 1}
      /\ Cardinality(A') + Cardinality(W') <= Cardinality(A) + Cardinality(W) + 1
  <2> HIDE DEF A, W, C
  <2>1. A' = A \/ A' = A \union {c}
    BY <1>2
  <2>2. W' = W \/ W' = W \union {c}
    BY <1>2
  <2>3. /\ Cardinality(A') = Cardinality(A) \/ Cardinality(A') = Cardinality(A) + 1
        /\ A' = A => Cardinality(A') = Cardinality(A)
    BY <1>6, <2>1
  <2>4. /\ Cardinality(W') = Cardinality(W) \/ Cardinality(W') = Cardinality(W) + 1
        /\ W' = W => Cardinality(W') = Cardinality(W)
    BY <1>6, <2>2
  <2>5. \/ Cardinality(A') = Cardinality(A)
        \/ Cardinality(W') = Cardinality(W)
    BY <1>4, <2>3, <2>4
  <2> QED BY <1>5, <2>3, <2>4, <2>5
<1>10. CASE C' = C
  <2>1. Stored(k)' = Stored(k) /\ A' = A /\ W' = W
    BY <1>3, <1>10
  <2> HIDE DEF A, W, C
  <2> QED BY <1>7, <1>8, <1>10, <2>1
<1>11. CASE C' = C \union {c}
  <2>1. Cardinality(C') = Cardinality(C) + 1
    BY <1>6, <1>11
  <2>2. Stored(k)' = Stored(k)
    OBVIOUS
  <2> HIDE DEF A, W, C
  <2> QED BY <1>5, <1>7, <1>8, <1>9, <2>1, <2>2
<1> QED BY <1>2, <1>10, <1>11

LEMMA BalanceStep ==
  ASSUME IInv, IInv', ~HookOnBlocking, [Next]_vars, NEW k \in Key, Balance(k)
  PROVE  Balance(k)'
<1> USE DEF IInv
<1> USE ConfirmationAssumption
<1>1. ASSUME NEW c \in Call, NEW k2 \in Key, Request(c, k2) PROVE Balance(k)'
  <2>1. /\ call[c].pc = "new" /\ call[c].key = NoKey /\ queue[c] = "none"
        /\ said[c] = "nothing" /\ call[c].result = ""
        /\ UNCHANGED <<queue, said>> /\ grants' = [grants EXCEPT ![k2] = "none"]
    BY <1>1 DEF Request, Consume, Frames
  <2>2. /\ call'[c].key = k2
        /\ call'[c].result = IF grants[k2] = "live" THEN "approved" ELSE ""
        /\ \A d \in Call \ {c} : call'[d] = call[d]
    BY <1>1, RequestFrame
  <2>3. "none" \notin Consent /\ "nothing" \notin Consent
    BY DEF Consent, Choice
  <2>4. Answered(k)' = Answered(k) /\ Consented(k)' = Consented(k)
    BY <2>1, <2>2, <2>3 DEF Answered, Consented
  <2>5. CASE k2 = k /\ grants[k] = "live"
    <3>1. Approved(k)' = Approved(k) \union {c} /\ c \notin Approved(k)
      BY <2>1, <2>2, <2>5 DEF Approved
    <3>2. Stored(k) = 1 /\ Stored(k)' = 0
      BY <2>1, <2>5 DEF Stored, TypeOK
    <3>3. Approved(k) \subseteq Call /\ Answered(k) \subseteq Call /\ Consented(k) \subseteq Call
      BY DEF Approved, Answered, Consented
    <3>4. Cardinality(Approved(k)') = Cardinality(Approved(k)) + 1
      BY <3>1, <3>3, AddOne
    <3>5. /\ Cardinality(Approved(k)) \in Nat /\ Cardinality(Answered(k)) \in Nat
          /\ Cardinality(Consented(k)) \in Nat
      BY <3>3, CountNat
    <3>6. Balance(k)' <=> Cardinality(Approved(k)') + Cardinality(Answered(k)) + Stored(k)'
                            <= Cardinality(Consented(k))
      BY <2>4 DEF Balance
    <3> QED BY <3>2, <3>4, <3>5, <3>6 DEF Balance
  <2>6. CASE k2 = k /\ grants[k] # "live"
    <3>1. Approved(k)' = Approved(k)
      BY <2>1, <2>2, <2>6 DEF Approved
    <3>2. Stored(k)' = 0
      BY <2>1, <2>6 DEF Stored, TypeOK
    <3> QED BY <2>4, <3>1, <3>2, BalanceKept
  <2>7. CASE k2 # k
    <3>1. Approved(k)' = Approved(k)
      BY <2>1, <2>2, <2>7 DEF Approved
    <3>2. Stored(k)' = Stored(k)
      BY <2>1, <2>7 DEF Stored, TypeOK
    <3> QED BY <2>4, <3>1, <3>2, BalanceKept
  <2> QED BY <2>5, <2>6, <2>7
<1>2. ASSUME NEW c \in Call, call[c].pc \notin {"new", "returned"},
             \A d \in Call \ {c} : call'[d] = call[d],
             call'[c].key = call[c].key, call'[c].result # "approved",
             UNCHANGED <<grants, said>>,
             \A d \in Call \ {c} : queue'[d] = queue[d],
             queue'[c] \notin Choice
      PROVE  Balance(k)'
  <2>1. call[c].result = "" /\ queue[c] = "none"
    BY <1>2 DEF Frames
  <2>2. "none" \notin Consent /\ Consent \subseteq Choice
    BY DEF Consent, Choice
  <2>3. Approved(k)' = Approved(k) /\ Consented(k)' = Consented(k)
    BY <1>2, <2>1 DEF Approved, Consented
  <2>4. Answered(k)' = Answered(k)
    BY <1>2, <2>1, <2>2 DEF Answered
  <2>5. Stored(k)' = Stored(k)
    BY <1>2 DEF Stored
  <2> QED BY <2>3, <2>4, <2>5, BalanceKept
<1>3. ASSUME NEW c \in Call, call[c].pc # "new",
             \/ \E pc \in Pcs : Goto(c, pc)
             \/ \E r \in Results \ {"approved"} : Return(c, r),
             call[c].pc # "returned"
      PROVE  /\ \A d \in Call \ {c} : call'[d] = call[d]
             /\ call'[c].key = call[c].key /\ call'[c].result # "approved"
  <2>1. call[c].result = ""
    BY <1>3 DEF Frames
  <2>2. CASE \E pc \in Pcs : Goto(c, pc)
    BY <1>3, <2>1, <2>2, GotoFrame
  <2>3. CASE \E r \in Results \ {"approved"} : Return(c, r)
    BY <1>3, <2>3, ReturnFrame
  <2> QED BY <1>3, <2>2, <2>3
<1>4. ASSUME NEW c \in Call,
             \/ RouteGateway(c) \/ RouteLocal(c) \/ PromptRaises(c)
             \/ AwaitTimeout(c) \/ AwaitRaises(c) \/ Submit(c) \/ SubmitFails(c)
      PROVE  Balance(k)'
  <2> USE DEF RouteGateway, RouteLocal, PromptRaises, AwaitTimeout, AwaitRaises,
              Submit, SubmitFails
  <2>1. call[c].pc \notin {"new", "returned"} /\ UNCHANGED <<grants, said>>
    BY <1>4
  <2>2. /\ {"await", "submit", "prompt"} \subseteq Pcs
        /\ {"unavailable", "timeout", "pending"} \subseteq Results \ {"approved"}
    BY DEF Pcs, Results
  <2>3. \/ \E pc \in Pcs : Goto(c, pc)
        \/ \E r \in Results \ {"approved"} : Return(c, r)
    BY <1>4, <2>2
  <2>4. /\ \A d \in Call \ {c} : queue'[d] = queue[d]
        /\ queue'[c] \in {"none", "asked"}
    <3>1. queue[c] = "none"
      BY <2>1 DEF Frames
    <3>2. queue' = queue \/ queue' = [queue EXCEPT ![c] = "asked"]
      BY <1>4
    <3> QED BY <3>1, <3>2 DEF TypeOK
  <2>5. {"none", "asked"} \intersect Choice = {}
    BY DEF Choice
  <2> QED BY <1>2, <1>3, <2>1, <2>3, <2>4, <2>5
<1>5. ASSUME NEW c \in Call, Prompt(c) \/ Await(c) PROVE Balance(k)'
  <2>1. /\ call[c].pc \in {"prompt", "await"} /\ call[c].result = ""
        /\ queue[c] = "none" /\ said[c] = "nothing" /\ grants' = grants
    BY <1>5 DEF Prompt, Await, Frames
  <2>2. /\ {"approved", "denied"} \subseteq Results
        /\ "none" \notin Consent /\ "nothing" \notin Consent
        /\ {"once", "always"} \subseteq Consent
    BY DEF Results, Consent, Choice
  <2>3. PICK choice \in Choice, r \in {"approved", "denied"} :
          /\ said' = [said EXCEPT ![c] = choice] /\ Return(c, r)
          /\ r = "approved" => choice \in {"once", "always"}
    BY <1>5 DEF Prompt, Await
  <2>4. queue' = queue
    BY <1>5, <2>1 DEF Prompt, Await, TypeOK
  <2>5. /\ \A d \in Call \ {c} : call'[d] = call[d]
        /\ call'[c].key = call[c].key /\ call'[c].result = r
    BY <2>1, <2>2, <2>3, ReturnFrame
  <2>6. said'[c] = choice /\ \A d \in Call \ {c} : said'[d] = said[d]
    BY <2>3 DEF TypeOK
  <2>7. c \notin Approved(k) /\ c \notin Answered(k) /\ c \notin Consented(k)
    BY <2>1, <2>2 DEF Approved, Answered, Consented
  <2>8. c \notin Answered(k)'
    BY <2>1, <2>2, <2>4 DEF Answered
  <2>9. c \in Approved(k)' => c \in Consented(k)'
    BY <2>2, <2>3, <2>5, <2>6 DEF Approved, Consented
  <2>10. Stored(k)' = Stored(k)
    BY <2>1 DEF Stored
  <2> QED BY <2>4, <2>5, <2>6, <2>7, <2>8, <2>9, <2>10, BalanceSaid
<1>6. ASSUME NEW c \in Call, Decide(c) PROVE Balance(k)'
  <2>1. /\ queue[c] = "asked" /\ said[c] = "nothing"
        /\ UNCHANGED <<grants, call>> /\ call[c].pc = "returned"
    BY <1>6 DEF Decide, Frames, AskedOnce
  <2>2. PICK choice \in Choice :
          /\ queue' = [queue EXCEPT ![c] = choice]
          /\ said' = [said EXCEPT ![c] = choice]
    BY <1>6 DEF Decide
  <2>3. /\ queue'[c] = choice /\ said'[c] = choice
        /\ \A d \in Call \ {c} : queue'[d] = queue[d] /\ said'[d] = said[d]
    BY <2>2 DEF TypeOK
  <2>4. /\ "asked" \notin Consent /\ "nothing" \notin Consent
    BY DEF Consent, Choice
  <2>5. c \notin Answered(k) /\ c \notin Consented(k)
    BY <2>1, <2>4 DEF Answered, Consented
  <2>6. Approved(k)' = Approved(k) /\ Stored(k)' = Stored(k)
    BY <2>1 DEF Approved, Stored
  <2>7. c \in Answered(k)' <=> c \in Consented(k)'
    BY <2>1, <2>3 DEF Answered, Consented
  <2>8. CASE c \notin Consented(k)'
    <3>1. Answered(k)' = Answered(k) /\ Consented(k)' = Consented(k)
      BY <2>1, <2>3, <2>5, <2>7, <2>8, Others
    <3> QED BY <2>6, <3>1, BalanceKept
  <2>9. CASE c \in Consented(k)'
    <3>1. /\ Answered(k)' = Answered(k) \union {c}
          /\ Consented(k)' = Consented(k) \union {c}
      BY <2>1, <2>3, <2>5, <2>7, <2>9, Others
    <3>2. Approved(k) \subseteq Call /\ Answered(k) \subseteq Call /\ Consented(k) \subseteq Call
      BY DEF Approved, Answered, Consented
    <3>3. /\ Cardinality(Answered(k)') = Cardinality(Answered(k)) + 1
          /\ Cardinality(Consented(k)') = Cardinality(Consented(k)) + 1
      BY <2>5, <3>1, <3>2, AddOne
    <3>4. /\ Cardinality(Approved(k)) \in Nat /\ Cardinality(Answered(k)) \in Nat
          /\ Cardinality(Consented(k)) \in Nat /\ Stored(k) \in {0, 1}
      BY <3>2, CountNat DEF Stored
    <3>5. Balance(k)' <=> Cardinality(Approved(k)) + Cardinality(Answered(k)') + Stored(k)
                            <= Cardinality(Consented(k)')
      BY <2>6 DEF Balance
    <3> QED BY <3>3, <3>4, <3>5 DEF Balance
  <2> QED BY <2>8, <2>9
<1>7. ASSUME NEW c \in Call, Drop(c) PROVE Balance(k)'
  <2>1. /\ queue[c] = "asked" /\ queue' = [queue EXCEPT ![c] = "closed"]
        /\ UNCHANGED <<grants, call, said>>
    BY <1>7 DEF Drop
  <2>2. "asked" \notin Consent /\ "closed" \notin Consent
    BY DEF Consent, Choice
  <2>3. Answered(k)' = Answered(k)
    BY <2>1, <2>2 DEF Answered, TypeOK
  <2>4. /\ Approved(k)' = Approved(k) /\ Consented(k)' = Consented(k)
        /\ Stored(k)' = Stored(k)
    BY <2>1 DEF Approved, Consented, Stored
  <2> QED BY <2>3, <2>4, BalanceKept
<1>8. ASSUME NEW c \in Call, Hook(c) PROVE Balance(k)'
  <2>1. /\ queue[c] \in Choice /\ queue'[c] = "closed"
        /\ \A d \in Call \ {c} : queue'[d] = queue[d]
        /\ UNCHANGED <<call, said>>
    BY <1>8 DEF Hook, TypeOK
  <2>2. "closed" \notin Consent /\ Consent = {"once", "always", "approve"}
    BY DEF Consent, Choice
  <2>3. Approved(k)' = Approved(k) /\ Consented(k)' = Consented(k)
    BY <2>1 DEF Approved, Consented
  <2>4. Answered(k)' = Answered(k) \ {c}
    BY <2>1, <2>2 DEF Answered
  <2>5. CASE c \notin Answered(k)
    <3>1. Stored(k)' = Stored(k)
      <4>1. queue[c] \notin Consent \/ call[c].key # k
        BY <2>5 DEF Answered
      <4>2. grants'[k] = grants[k]
        BY <1>8, <2>2, <4>1 DEF Hook, TypeOK
      <4> QED BY <4>2 DEF Stored
    <3>2. Answered(k)' = Answered(k)
      BY <2>4, <2>5
    <3> QED BY <2>3, <3>1, <3>2, BalanceKept
  <2>6. CASE c \in Answered(k)
    <3>1. Approved(k) \subseteq Call /\ Answered(k) \subseteq Call /\ Consented(k) \subseteq Call
      BY DEF Approved, Answered, Consented
    <3>2. Cardinality(Answered(k)') = Cardinality(Answered(k)) - 1
      BY <2>4, <2>6, <3>1, RemoveOne
    <3>3. /\ Cardinality(Approved(k)) \in Nat /\ Cardinality(Answered(k)) \in Nat
          /\ Cardinality(Consented(k)) \in Nat
          /\ Stored(k) \in {0, 1} /\ Stored(k)' \in {0, 1}
      BY <3>1, CountNat DEF Stored
    <3>4. Balance(k)' <=> Cardinality(Approved(k)) + Cardinality(Answered(k)') + Stored(k)'
                            <= Cardinality(Consented(k))
      BY <2>3 DEF Balance
    <3> QED BY <3>2, <3>3, <3>4 DEF Balance
  <2> QED BY <2>5, <2>6
<1>9. ASSUME NEW k2 \in Key, Expire(k2) PROVE Balance(k)'
  <2>1. /\ Approved(k)' = Approved(k) /\ Answered(k)' = Answered(k)
        /\ Consented(k)' = Consented(k)
    BY <1>9 DEF Expire, Approved, Answered, Consented
  <2>2. Stored(k)' = Stored(k)
    BY <1>9 DEF Expire, Stored, TypeOK
  <2> QED BY <2>1, <2>2, BalanceKept
<1>10. CASE UNCHANGED vars
  <2>1. /\ Approved(k)' = Approved(k) /\ Answered(k)' = Answered(k)
        /\ Consented(k)' = Consented(k) /\ Stored(k)' = Stored(k)
    BY <1>10 DEF vars, Approved, Answered, Consented, Stored
  <2> QED BY <2>1, BalanceKept
<1> QED BY <1>1, <1>4, <1>5, <1>6, <1>7, <1>8, <1>9, <1>10 DEF Next

\* When Hermes fires post_approval_response for queued questions only, no
\* consent covers two calls, for any number of calls, keys and retries.
THEOREM ConsentsAreOneShot == ~HookOnBlocking /\ Spec => []OneShot
<1> SUFFICES ASSUME ~HookOnBlocking PROVE Spec => []OneShot
  OBVIOUS
<1>1. Init => OneShotInv
  <2> SUFFICES ASSUME Init, NEW k \in Key PROVE Balance(k)
    BY DEF OneShotInv, Balance
  <2>1. "none" \notin Consent
    BY DEF Consent, Choice
  <2>2. Approved(k) = {} /\ Answered(k) = {} /\ Consented(k) = {} /\ Stored(k) = 0
    BY <2>1, ConfirmationAssumption DEF Init, Approved, Answered, Consented, Stored
  <2> QED BY <2>2, FS_EmptySet DEF Balance
<1>2. OneShotInv /\ IInv /\ IInv' /\ [Next]_vars => OneShotInv'
  BY BalanceStep DEF OneShotInv, Balance
<1>3. OneShotInv => OneShot
  <2> SUFFICES ASSUME OneShotInv, NEW k \in Key
               PROVE  Cardinality(Approved(k)) <= Cardinality(Consented(k))
    BY DEF OneShot
  <2>1. /\ Cardinality(Approved(k)) \in Nat /\ Cardinality(Answered(k)) \in Nat
        /\ Cardinality(Consented(k)) \in Nat /\ Stored(k) \in {0, 1}
    BY CountNat DEF Approved, Answered, Consented, Stored
  <2> QED BY <2>1 DEF OneShotInv
<1> QED BY <1>1, <1>2, <1>3, IInvInvariant, PTL DEF Spec

----------------------------------------------------------------------------
(* The calls run the seam: what is proved of it above holds of them.       *)

LEMMA CallsStepSeam == [ConsentNext]_allVars => [Next]_vars
<1> SUFFICES ASSUME [ConsentNext]_allVars PROVE [Next]_vars
  OBVIOUS
<1>1. ASSUME NEW c \in Call, NEW k \in Key, Begin(c, k) PROVE [Next]_vars
  BY <1>1 DEF Begin, Next
<1>2. ASSUME NEW c \in Call, Seam(c) PROVE [Next]_vars
  BY <1>2 DEF Seam, Next
<1>3. ASSUME NEW c \in Call, Stopped(c) \/ Prepare(c) \/ Execute(c) \/ SendFails(c)
      PROVE  [Next]_vars
  BY <1>3 DEF Stopped, Prepare, Execute, SendFails
<1>4. ASSUME NEW k \in Key, GrantExpires(k) PROVE [Next]_vars
  BY <1>4 DEF GrantExpires, Next
<1>5. CASE Redeploy \/ Rebind
  BY <1>5 DEF Redeploy, Rebind
<1>6. CASE UNCHANGED allVars
  BY <1>6 DEF allVars
<1> QED BY <1>1, <1>2, <1>3, <1>4, <1>5, <1>6 DEF ConsentNext

LEMMA CallsRunTheSeam == ConsentSpec => Spec
<1>1. ConsentInit => Init
  BY DEF ConsentInit
<1> QED BY <1>1, CallsStepSeam, PTL DEF ConsentSpec, Spec

----------------------------------------------------------------------------
(* Types and CallsInv.                                                     *)

\* What ConsentTypeOK says of the handler's own variables.
HandlerTypeOK ==
  /\ bound \in BOOLEAN /\ deployed \in BOOLEAN
  /\ deploys \in 0..MaxDeploy
  /\ tool \in [Call -> {"new", "confirm", "send", "done"}]
  /\ input \in [Call -> Key \union {NoKey}]
  /\ tokens \subseteq Call
  /\ runs \in [Key -> Nat]

CInv == HandlerTypeOK /\ CallsInv

\* A step of the seam keeps the key of every call, and approvals are final.
LEMMA SeamKeeps ==
  ASSUME IInv, NEW c \in Call, Seam(c)
  PROVE  \A d \in Call :
           /\ call'[d].key = call[d].key
           /\ call[d].result = "approved" => call'[d] = call[d]
<1> USE DEF IInv
<1>1. CASE Decide(c) \/ Drop(c) \/ Hook(c)
  BY <1>1 DEF Decide, Drop, Hook
<1>2. CASE ~(Decide(c) \/ Drop(c) \/ Hook(c))
  <2> USE DEF RouteGateway, RouteLocal, Prompt, PromptRaises, Await, AwaitTimeout,
              AwaitRaises, Submit, SubmitFails
  <2>1. call[c].pc \notin {"new", "returned"}
    BY <1>2 DEF Seam
  <2>2. call[c].result = ""
    BY <2>1 DEF Frames
  <2>3. /\ {"await", "submit", "prompt"} \subseteq Pcs
        /\ {"unavailable", "timeout", "pending", "approved", "denied"} \subseteq Results
    BY DEF Pcs, Results
  <2>4. (\E pc \in Pcs : Goto(c, pc)) \/ (\E r \in Results : Return(c, r))
    BY <1>2, <2>3 DEF Seam
  <2>5. call'[c].key = call[c].key /\ \A d \in Call \ {c} : call'[d] = call[d]
    BY <2>1, <2>4, GotoFrame, ReturnFrame
  <2> QED BY <2>2, <2>5
<1> QED BY <1>1, <1>2

LEMMA CountsAreFinite == \A S \in SUBSET Call : IsFiniteSet(S)
BY ConfirmationAssumption, FS_Subset

\* The executions of a key stay covered while its spent approvals only grow.
LEMMA SpentGrows ==
  ASSUME CInv, runs' = runs,
         \A k \in Key : Spent(k) \subseteq Spent(k)' /\ Spent(k)' \subseteq Call
  PROVE  \A k \in Key : runs'[k] <= Cardinality(Spent(k)')
<1> SUFFICES ASSUME NEW k \in Key PROVE runs[k] <= Cardinality(Spent(k)')
  OBVIOUS
<1>1. Cardinality(Spent(k)) <= Cardinality(Spent(k)')
  BY CountsAreFinite, FS_Subset
<1>2. Cardinality(Spent(k)) \in Nat /\ Cardinality(Spent(k)') \in Nat
  BY CountNat DEF Spent, Approved
<1>3. runs[k] \in Nat /\ runs[k] <= Cardinality(Spent(k))
  BY DEF CInv, CallsInv, HandlerTypeOK
<1> QED BY <1>1, <1>2, <1>3

\* The key of a call that was approved is one of the keys.
LEMMA ApprovedKey ==
  ASSUME IInv, NEW c \in Call, call[c].result = "approved" PROVE call[c].key \in Key
<1>1. call[c].pc = "returned"
  BY DEF IInv, Frames
<1> QED BY <1>1 DEF IInv, TypeOK

LEMMA HandlerTypeStep == IInv /\ CInv /\ [ConsentNext]_allVars => HandlerTypeOK'
<1> SUFFICES ASSUME IInv, CInv, [ConsentNext]_allVars PROVE HandlerTypeOK'
  OBVIOUS
<1> USE DEF CInv, HandlerTypeOK
<1>1. ASSUME NEW c \in Call, NEW k \in Key, Begin(c, k) PROVE HandlerTypeOK'
  BY <1>1 DEF Begin, Handler
<1>2. ASSUME NEW c \in Call, Seam(c) PROVE HandlerTypeOK'
  BY <1>2 DEF Seam, handlerVars
<1>3. ASSUME NEW c \in Call, Stopped(c) \/ Prepare(c) \/ SendFails(c)
      PROVE  HandlerTypeOK'
  BY <1>3 DEF Stopped, Prepare, SendFails, Handler
<1>4. ASSUME NEW c \in Call, Execute(c) PROVE HandlerTypeOK'
  <2>1. tool' \in [Call -> {"new", "confirm", "send", "done"}] /\ tokens' \subseteq Call
    BY <1>4 DEF Execute, Handler
  <2>2. runs' \in [Key -> Nat]
    <3>1. CASE ~deployed
      BY <1>4, <3>1 DEF Execute
    <3>2. CASE deployed
      <4>1. c \in tokens /\ call[c].result = "approved" /\ input[c] = call[c].key
        BY <1>4, <3>2 DEF Execute, CallsInv
      <4>2. input[c] \in Key
        BY <4>1, ApprovedKey
      <4>3. runs' = [runs EXCEPT ![input[c]] = runs[input[c]] + 1]
        BY <1>4, <3>2 DEF Execute
      <4>4. runs[input[c]] + 1 \in Nat
        BY <4>2
      <4> QED BY <4>2, <4>3, <4>4
    <3> QED BY <3>1, <3>2
  <2> QED BY <1>4, <2>1, <2>2 DEF Execute
<1>5. ASSUME NEW k \in Key, GrantExpires(k) PROVE HandlerTypeOK'
  BY <1>5 DEF GrantExpires, handlerVars
<1>6. CASE Redeploy
  BY <1>6, ConsentedCallsAssumption DEF Redeploy
<1>7. CASE Rebind
  BY <1>7 DEF Rebind
<1>8. CASE UNCHANGED allVars
  BY <1>8 DEF allVars, handlerVars
<1> QED BY <1>1, <1>2, <1>3, <1>4, <1>5, <1>6, <1>7, <1>8 DEF ConsentNext

LEMMA CallsInvStep == IInv /\ CInv /\ [ConsentNext]_allVars => CallsInv'
<1> SUFFICES ASSUME IInv, CInv, [ConsentNext]_allVars PROVE CallsInv'
  OBVIOUS
<1> USE DEF CInv
<1>0. /\ \A c \in Call : input[c] = call[c].key
      /\ \A c \in tokens : /\ c \in Call /\ call[c].result = "approved"
                          /\ tool[c] \in {"send", "done"}
  BY DEF CallsInv, HandlerTypeOK
<1>1. ASSUME NEW c \in Call, NEW k \in Key, Begin(c, k) PROVE CallsInv'
  <2>1. /\ tool[c] = "new" /\ c \notin tokens /\ UNCHANGED <<tokens, runs>>
        /\ \A d \in Call \ {c} : tool'[d] = tool[d]
    BY <1>0, <1>1 DEF Begin, Handler, HandlerTypeOK
  <2>2. /\ \A d \in Call \ {c} : call'[d] = call[d] /\ input'[d] = input[d]
        /\ input'[c] = call'[c].key
    <3>1. CASE bound
      <4>1. Request(c, k) /\ input' = [input EXCEPT ![c] = k]
        BY <1>1, <3>1 DEF Begin
      <4>2. call'[c].key = k /\ \A d \in Call \ {c} : call'[d] = call[d]
        BY <4>1, RequestFrame DEF IInv
      <4> QED BY <4>1, <4>2 DEF HandlerTypeOK
    <3>2. CASE ~bound
      BY <1>0, <1>1, <3>2 DEF Begin, vars
    <3> QED BY <3>1, <3>2
  <2>3. ASSUME NEW j \in Key PROVE Spent(j) \subseteq Spent(j)' /\ Spent(j)' \subseteq Call
    BY <2>1, <2>2 DEF Spent, Approved
  <2>4. \A j \in Key : runs'[j] <= Cardinality(Spent(j)')
    BY <2>1, <2>3, SpentGrows
  <2>5. \A d \in Call : input'[d] = call'[d].key
    BY <1>0, <2>2
  <2>6. \A d \in tokens' : call'[d].result = "approved" /\ tool'[d] \in {"send", "done"}
    BY <1>0, <2>1, <2>2
  <2> QED BY <2>4, <2>5, <2>6 DEF CallsInv
<1>2. ASSUME NEW c \in Call, Seam(c) PROVE CallsInv'
  <2>1. tool' = tool /\ input' = input /\ tokens' = tokens /\ runs' = runs
    BY <1>2 DEF Seam, handlerVars
  <2>2. \A d \in Call : call'[d].key = call[d].key
    BY <1>2, SeamKeeps
  <2>3. \A d \in Call : call[d].result = "approved" => call'[d] = call[d]
    BY <1>2, SeamKeeps
  <2>4. ASSUME NEW j \in Key PROVE Spent(j) \subseteq Spent(j)' /\ Spent(j)' \subseteq Call
    <3>1. Approved(j) \subseteq Approved(j)' /\ Approved(j)' \subseteq Call
      <4>1. Approved(j)' = {d \in Call : call'[d].key = j /\ call'[d].result = "approved"}
        BY DEF Approved
      <4>2. Approved(j) = {d \in Call : call[d].key = j /\ call[d].result = "approved"}
        BY DEF Approved
      <4>3. ASSUME NEW d \in Approved(j) PROVE d \in Approved(j)'
        <5>1. d \in Call /\ call[d].key = j /\ call[d].result = "approved"
          BY <4>2
        <5>2. call'[d] = call[d]
          BY <2>3, <5>1
        <5> QED BY <4>1, <5>1, <5>2
      <4> QED BY <4>1, <4>3
    <3>2. Spent(j)' = {d \in Approved(j)' : tool[d] = "done" /\ d \notin tokens}
      BY <2>1 DEF Spent
    <3> QED BY <3>1, <3>2 DEF Spent
  <2>5. \A j \in Key : runs'[j] <= Cardinality(Spent(j)')
    BY <2>1, <2>4, SpentGrows
  <2>6. \A d \in Call : input'[d] = call'[d].key
    BY <1>0, <2>1, <2>2
  <2>7. \A d \in tokens' : call'[d].result = "approved" /\ tool'[d] \in {"send", "done"}
    <3> SUFFICES ASSUME NEW d \in tokens
                 PROVE  call'[d].result = "approved" /\ tool[d] \in {"send", "done"}
      BY <2>1
    <3>1. d \in Call /\ call[d].result = "approved" /\ tool[d] \in {"send", "done"}
      BY <1>0
    <3>2. call'[d] = call[d]
      BY <2>3, <3>1
    <3> QED BY <3>1, <3>2
  <2> QED BY <2>5, <2>6, <2>7 DEF CallsInv
<1>3. ASSUME NEW c \in Call, Stopped(c) \/ Prepare(c) \/ SendFails(c) PROVE CallsInv'
  <2>1. /\ UNCHANGED <<call, input, runs>>
        /\ tool[c] \in {"confirm", "send"}
        /\ tool' = [tool EXCEPT ![c] = tool'[c]] /\ tool'[c] \in {"send", "done"}
        /\ tokens' \in {tokens, tokens \union {c}}
        /\ tokens' # tokens => tool[c] = "confirm" /\ call[c].result = "approved"
    BY <1>3 DEF Stopped, Prepare, SendFails, Handler, HandlerTypeOK, Outcome, vars
  <2>2. \A d \in Call \ {c} : tool'[d] = tool[d]
    BY <2>1 DEF HandlerTypeOK
  <2>3. ASSUME NEW j \in Key PROVE Spent(j) \subseteq Spent(j)' /\ Spent(j)' \subseteq Call
    BY <2>1, <2>2 DEF Spent, Approved
  <2>4. \A j \in Key : runs'[j] <= Cardinality(Spent(j)')
    BY <2>1, <2>3, SpentGrows
  <2>5. \A d \in tokens' : call'[d].result = "approved" /\ tool'[d] \in {"send", "done"}
    BY <1>0, <2>1, <2>2
  <2> QED BY <1>0, <2>1, <2>4, <2>5 DEF CallsInv
<1>4. ASSUME NEW c \in Call, Execute(c) PROVE CallsInv'
  <2>1. /\ UNCHANGED <<call, input>> /\ tool[c] = "send" /\ tool'[c] = "done"
        /\ \A d \in Call \ {c} : tool'[d] = tool[d]
    BY <1>4 DEF Execute, Handler, HandlerTypeOK, vars
  <2>2. tokens' \subseteq tokens
    BY <1>4 DEF Execute
  <2>3. \A d \in tokens' : call'[d].result = "approved" /\ tool'[d] \in {"send", "done"}
    BY <1>0, <2>1, <2>2
  <2>4. CASE ~deployed
    <3>1. tokens' = tokens /\ runs' = runs
      BY <1>4, <2>4 DEF Execute
    <3>2. ASSUME NEW j \in Key
          PROVE  Spent(j) \subseteq Spent(j)' /\ Spent(j)' \subseteq Call
      BY <2>1, <3>1 DEF Spent, Approved
    <3>3. \A j \in Key : runs'[j] <= Cardinality(Spent(j)')
      BY <3>1, <3>2, SpentGrows
    <3> QED BY <1>0, <2>1, <2>3, <3>3 DEF CallsInv
  <2>5. CASE deployed
    <3>1. /\ c \in tokens /\ tokens' = tokens \ {c} /\ input[c] = call[c].key
          /\ call[c].result = "approved"
          /\ runs' = [runs EXCEPT ![input[c]] = @ + 1]
      BY <1>0, <1>4, <2>5 DEF Execute
    <3>2. ASSUME NEW j \in Key PROVE runs'[j] <= Cardinality(Spent(j)')
      <4>1. /\ Cardinality(Spent(j)) \in Nat /\ runs[j] \in Nat
            /\ runs[j] <= Cardinality(Spent(j))
        BY CountNat DEF Spent, Approved, HandlerTypeOK, CallsInv
      <4>2. CASE j # input[c]
        <5>1. Spent(j)' = Spent(j)
          BY <2>1, <3>1, <4>2 DEF Spent, Approved
        <5>2. runs'[j] = runs[j]
          BY <3>1, <4>2 DEF HandlerTypeOK
        <5> QED BY <4>1, <5>1, <5>2
      <4>3. CASE j = input[c]
        <5>1. Spent(j)' = Spent(j) \union {c} /\ c \notin Spent(j)
          BY <2>1, <3>1, <4>3 DEF Spent, Approved
        <5>2. Spent(j) \subseteq Call
          BY DEF Spent, Approved
        <5>3. Cardinality(Spent(j)') = Cardinality(Spent(j)) + 1
          BY <5>1, <5>2, AddOne
        <5>4. runs'[j] = runs[j] + 1
          BY <3>1, <4>3 DEF HandlerTypeOK
        <5> QED BY <4>1, <5>3, <5>4
      <4> QED BY <4>2, <4>3
    <3> QED BY <1>0, <2>1, <2>3, <3>2 DEF CallsInv
  <2> QED BY <2>4, <2>5
<1>5. CASE UNCHANGED <<call, tool, input, tokens, runs>>
  <2>1. \A j \in Key : Spent(j)' = Spent(j)
    BY <1>5 DEF Spent, Approved
  <2> QED BY <1>5, <2>1 DEF CallsInv
<1>6. CASE (\E k \in Key : GrantExpires(k)) \/ Redeploy \/ Rebind \/ UNCHANGED allVars
  BY <1>5, <1>6 DEF GrantExpires, Expire, Redeploy, Rebind, allVars, handlerVars, vars
<1> QED BY <1>1, <1>2, <1>3, <1>4, <1>6 DEF ConsentNext

LEMMA CInvInit == ConsentInit => CInv
<1> SUFFICES ASSUME ConsentInit PROVE CInv
  OBVIOUS
<1>1. HandlerTypeOK
  BY ConsentedCallsAssumption DEF ConsentInit, HandlerTypeOK
<1>2. \A k \in Key : Spent(k) = {} /\ runs[k] = 0
  BY DEF ConsentInit, Init, Spent, Approved
<1>3. \A k \in Key : runs[k] <= Cardinality(Spent(k))
  BY <1>2, FS_EmptySet
<1> QED BY <1>1, <1>3 DEF ConsentInit, Init, CInv, CallsInv

LEMMA CInvInvariant == ConsentSpec => [](IInv /\ CInv)
<1>1. ConsentSpec => []IInv
  BY CallsRunTheSeam, IInvInvariant, PTL
<1>2. IInv /\ CInv /\ [ConsentNext]_allVars => CInv'
  BY HandlerTypeStep, CallsInvStep DEF CInv
<1> QED BY <1>1, <1>2, CInvInit, PTL DEF ConsentSpec

\* The calls and the seam keep their types.
THEOREM ConsentTypeCorrect == ConsentSpec => []ConsentTypeOK
<1>1. IInv /\ CInv => ConsentTypeOK
  BY DEF IInv, CInv, HandlerTypeOK, ConsentTypeOK
<1> QED BY <1>1, CInvInvariant, PTL

----------------------------------------------------------------------------
(* Each execution uses one consent.                                        *)

Agreed(k) == {c \in Call : input[c] = k /\ said[c] \in Consent}

LEMMA GivenIsAgreed ==
  \A k \in Key : /\ Given(k) = Cardinality(Agreed(k)) /\ Agreed(k) \subseteq Call
                /\ Given(k) \in Nat
BY CountNat DEF Given, Agreed

\* The user speaks about one call at a time, and once about each.
LEMMA SaidOnce ==
  ASSUME IInv, NEW c \in Call, Seam(c)
  PROVE  \/ said' = said
         \/ /\ said[c] = "nothing" /\ call[c].pc # "new"
            /\ \E choice \in Choice : said' = [said EXCEPT ![c] = choice]
<1> USE DEF IInv
<1>1. CASE Prompt(c) \/ Await(c)
  BY <1>1 DEF Prompt, Await, Frames
<1>2. CASE Decide(c)
  BY <1>2 DEF Decide, AskedOnce, Frames
<1>3. CASE ~(Prompt(c) \/ Await(c) \/ Decide(c))
  BY <1>3 DEF Seam, RouteGateway, RouteLocal, PromptRaises, AwaitTimeout, AwaitRaises,
              Submit, SubmitFails, Drop, Hook
<1> QED BY <1>1, <1>2, <1>3

\* The ledger's view of a step in which the user says nothing and nothing runs.
LEMMA LedgerStutters ==
  ASSUME \A k \in Key : Given(k)' = Given(k), runs' = runs
  PROVE  [Ledger!Next]_<<[k \in Key |-> Given(k)], runs>>
OBVIOUS

\* The user speaks: a consent is given to the call's key, a refusal to none.
LEMMA SeamLedgerStep ==
  ASSUME IInv, CInv, NEW c \in Call, Seam(c)
  PROVE  [Ledger!Next]_<<[k \in Key |-> Given(k)], runs>>
<1>1. input' = input /\ runs' = runs
  BY DEF Seam, handlerVars
<1>2. CASE said' = said
  <2>1. \A k \in Key : Given(k)' = Given(k)
    BY <1>1, <1>2 DEF Given
  <2> QED BY <1>1, <2>1, LedgerStutters
<1>3. CASE said' # said
  <2>1. PICK choice \in Choice : said' = [said EXCEPT ![c] = choice]
    BY <1>3, SaidOnce
  <2>2. said[c] = "nothing" /\ call[c].pc # "new"
    BY <1>3, SaidOnce
  <2>3. "nothing" \notin Consent
    BY DEF Consent, Choice
  <2>4. said'[c] = choice /\ \A d \in Call \ {c} : said'[d] = said[d]
    BY <2>1 DEF IInv, TypeOK
  <2>5. input[c] \in Key
    BY <2>2 DEF IInv, TypeOK, CInv, CallsInv
  <2>6. \A k \in Key : k # input[c] => Agreed(k)' = Agreed(k)
    BY <1>1, <2>4 DEF Agreed
  <2>7. CASE choice \notin Consent
    <3>1. \A k \in Key : Agreed(k)' = Agreed(k)
      BY <1>1, <2>2, <2>3, <2>4, <2>7 DEF Agreed
    <3>2. \A k \in Key : Given(k)' = Given(k)
      BY <3>1 DEF Given, Agreed
    <3> QED BY <1>1, <3>2, LedgerStutters
  <2>8. CASE choice \in Consent
    <3>0. PICK i \in Key : i = input[c]
      BY <2>5
    <3>1. Agreed(i)' = Agreed(i) \union {c} /\ c \notin Agreed(i)
      BY <1>1, <2>2, <2>3, <2>4, <2>8, <3>0 DEF Agreed
    <3>2. Agreed(i) \subseteq Call
      BY DEF Agreed
    <3>3. Cardinality(Agreed(i)') = Cardinality(Agreed(i)) + 1
      BY <3>1, <3>2, AddOne
    <3>4. Given(i)' = Given(i) + 1
      BY <3>3 DEF Given, Agreed
    <3>5. \A k \in Key : k # i => Given(k)' = Given(k)
      BY <2>6, <3>0 DEF Given, Agreed
    <3>6. [k \in Key |-> Given(k)]' = [[k \in Key |-> Given(k)] EXCEPT ![i] = @ + 1]
      BY <3>4, <3>5
    <3>7. Ledger!Give(i)
      BY <1>1, <3>6 DEF Ledger!Give
    <3> QED BY <3>7 DEF Ledger!Next
  <2> QED BY <2>7, <2>8
<1> QED BY <1>2, <1>3

\* An execution uses a consent that no other has used.
LEMMA ExecuteLedgerStep ==
  ASSUME IInv, CInv, CInv', OneShot', NEW c \in Call, Execute(c)
  PROVE  [Ledger!Next]_<<[k \in Key |-> Given(k)], runs>>
<1>1. UNCHANGED <<call, said, input>>
  BY DEF Execute, vars
<1>2. \A k \in Key : Given(k)' = Given(k)
  BY <1>1 DEF Given
<1>3. CASE ~deployed
  <2>1. runs' = runs
    BY <1>3 DEF Execute
  <2> QED BY <1>2, <2>1, LedgerStutters
<1>4. CASE deployed
  <2>1. c \in tokens /\ runs' = [runs EXCEPT ![input[c]] = @ + 1]
    BY <1>4 DEF Execute
  <2>2. PICK i \in Key : i = input[c]
    BY <2>1, ApprovedKey DEF CInv, CallsInv
  <2>3. runs'[i] = runs[i] + 1 /\ runs[i] \in Nat
    BY <2>1, <2>2 DEF CInv, HandlerTypeOK
  <2>4. runs'[i] <= Cardinality(Spent(i)')
    BY DEF CInv, CallsInv
  <2>5. Cardinality(Spent(i)') <= Cardinality(Approved(i)')
    <3>1. Spent(i)' \subseteq Approved(i)' /\ Approved(i)' \subseteq Call
      BY DEF Spent, Approved
    <3> QED BY <3>1, CountsAreFinite, FS_Subset
  <2>6. Cardinality(Approved(i)') <= Cardinality(Consented(i)')
    BY DEF OneShot
  <2>7. Cardinality(Consented(i)') = Given(i)
    <3>1. Consented(i)' = Agreed(i)
      BY <1>1 DEF Consented, Agreed, CInv, CallsInv
    <3> QED BY <3>1 DEF Given, Agreed
  <2>8. /\ Cardinality(Spent(i)') \in Nat /\ Cardinality(Approved(i)') \in Nat
        /\ Given(i) \in Nat
    <3>1. Spent(i)' \subseteq Call /\ Approved(i)' \subseteq Call
      BY DEF Spent, Approved
    <3> QED BY <3>1, CountNat, GivenIsAgreed
  <2>9. runs[i] < Given(i)
    BY <2>3, <2>4, <2>5, <2>6, <2>7, <2>8
  <2>10. Ledger!Use(i)
    BY <1>2, <2>1, <2>2, <2>9 DEF Ledger!Use
  <2> QED BY <2>10 DEF Ledger!Next
<1> QED BY <1>3, <1>4

LEMMA LedgerStep ==
  ASSUME IInv, CInv, CInv', OneShot', [ConsentNext]_allVars
  PROVE  [Ledger!Next]_<<[k \in Key |-> Given(k)], runs>>
<1> DEFINE Quiet == UNCHANGED <<said, input, runs>>
<1>1. Quiet => [Ledger!Next]_<<[k \in Key |-> Given(k)], runs>>
  <2>1. Quiet => \A k \in Key : Given(k)' = Given(k)
    BY DEF Given
  <2> QED BY <2>1, LedgerStutters
<1>2. ASSUME NEW c \in Call, NEW k \in Key, Begin(c, k)
      PROVE  [Ledger!Next]_<<[j \in Key |-> Given(j)], runs>>
  <2>1. said' = said /\ runs' = runs
    BY <1>2 DEF Begin, Request, vars
  <2>2. CASE bound
    <3>1. said[c] = "nothing" /\ \A d \in Call \ {c} : input'[d] = input[d]
      BY <1>2, <2>2 DEF Begin, Request, IInv, Frames, CInv, HandlerTypeOK
    <3>2. "nothing" \notin Consent
      BY DEF Consent, Choice
    <3>3. \A j \in Key : Agreed(j)' = Agreed(j)
      BY <2>1, <3>1, <3>2 DEF Agreed
    <3>4. \A j \in Key : Given(j)' = Given(j)
      BY <3>3 DEF Given, Agreed
    <3> QED BY <2>1, <3>4, LedgerStutters
  <2>3. CASE ~bound
    <3>1. Quiet
      BY <1>2, <2>1, <2>3 DEF Begin
    <3> QED BY <1>1, <3>1
  <2> QED BY <2>2, <2>3
<1>3. ASSUME NEW c \in Call, Stopped(c) \/ Prepare(c) \/ SendFails(c) PROVE Quiet
  BY <1>3 DEF Stopped, Prepare, SendFails, vars
<1>4. CASE \/ \E k \in Key : GrantExpires(k)
           \/ Redeploy \/ Rebind \/ UNCHANGED allVars
  <2>1. Quiet
    BY <1>4 DEF GrantExpires, Expire, Redeploy, Rebind, allVars, handlerVars, vars
  <2> QED BY <1>1, <2>1
<1> HIDE DEF Quiet
<1> QED BY <1>1, <1>2, <1>3, <1>4, SeamLedgerStep, ExecuteLedgerStep DEF ConsentNext

\* The calls implement ConsentLedger: whatever the tier, the retries, the lost
\* answers and responses, the redeployments and resyncs, each execution of a
\* card that requires confirmation uses one consent of the user to this tool
\* and this input, and no consent is used twice.
THEOREM CallsImplementLedger ==
  ASSUME ~HookOnBlocking PROVE ConsentSpec => OneConsentOneExecution
<1>1. ConsentInit => Ledger!Init
  <2> SUFFICES ASSUME ConsentInit PROVE Ledger!Init
    OBVIOUS
  <2>1. \A k \in Key : Agreed(k) = {}
    BY DEF ConsentInit, Init, Agreed, Consent, Choice
  <2>2. \A k \in Key : Given(k) = 0
    BY <2>1, FS_EmptySet DEF Given, Agreed
  <2> QED BY <2>2 DEF ConsentInit, Ledger!Init
<1>2. ConsentSpec => []OneShot
  BY CallsRunTheSeam, ConsentsAreOneShot, PTL
<1>3. IInv /\ CInv /\ CInv' /\ OneShot' /\ [ConsentNext]_allVars
        => [Ledger!Next]_<<[k \in Key |-> Given(k)], runs>>
  BY LedgerStep
<1> QED BY <1>1, <1>2, <1>3, CInvInvariant, PTL
        DEF ConsentSpec, OneConsentOneExecution, Ledger!Spec, Ledger!ledgerVars
=============================================================================
