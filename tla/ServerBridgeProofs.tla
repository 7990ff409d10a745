------------------------- MODULE ServerBridgeProofs -------------------------
(***************************************************************************)
(* What TrustManager guarantees for every set of glyphs, cards, actors and *)
(* processes: type correctness, that pins never drift from an endorsed     *)
(* contract, that the queue file changes only as a whole and keeps up with *)
(* the queue as long as saves do not overlap, and that one thread alone    *)
(* implements the ledger.  They rest on what comparing cards gives.        *)
(*                                                                         *)
(* Then what ServerBridge guarantees for every set of glyphs, cards,       *)
(* commands and calls, whatever overlaps: type correctness, that what is   *)
(* callable is endorsed, that what needs consent has it, that what is      *)
(* released is verified, and that /glyph trust approves the card it shows. *)
(* The bridge calls the trust manager step by step, so each of its steps   *)
(* is one of TrustNext or leaves trustVars alone: IInv of TrustManager     *)
(* holds here too, and the rest of the argument is about frames.           *)
(***************************************************************************)
EXTENDS ServerBridge, SequenceTheorems, TLAPS

----------------------------------------------------------------------------
(* The comparison of cards.                                                *)

\* Contracts are compared field by field: "same contract" is an equivalence,
\* so a chain of review changes never adds up to a breaking one (diff_cards).
THEOREM SameContractReflexive ==
  ASSUME NEW c PROVE SameContract(c, c)
BY DEF SameContract, RequiresApproval, Changes

THEOREM SameContractSymmetric ==
  ASSUME NEW c, NEW d, SameContract(c, d) PROVE SameContract(d, c)
BY DEF SameContract, RequiresApproval, Changes

THEOREM SameContractTransitive ==
  ASSUME NEW c, NEW d, NEW e, SameContract(c, d), SameContract(d, e)
  PROVE  SameContract(c, e)
BY DEF SameContract, RequiresApproval, Changes

\* A card with the id and the key of a pinned card has its contract: evaluate
\* needs no diff on its fast path.
THEOREM SameIdAndKeyContract ==
  ASSUME NEW c \in Card, NEW d \in Card, SameIdAndKey(c, d)
  PROVE  SameContract(c, d)
<1> DEFINE F == DOMAIN FIELD_SEVERITY
<1>1. \A f \in F : c[f] = d[f]
  <2>1. \A f \in F \ {"key"} : CardId(c)[f] = c[f] /\ CardId(d)[f] = d[f]
    BY DEF CardId
  <2>2. c.key = d.key
    BY DEF SameIdAndKey
  <2>3. \A f \in F \ {"key"} : c[f] = d[f]
    BY <2>1 DEF SameIdAndKey
  <2> QED
    BY <2>2, <2>3
<1>2. c.name = d.name
  BY <1>1 DEF FIELD_SEVERITY
<1> QED
  BY <1>1, <1>2 DEF SameContract, RequiresApproval, Changes

\* The same contract includes the risk tier: TOFU judges both cards alike.
THEOREM SameContractTofu ==
  ASSUME NEW c, NEW d, SameContract(c, d)
  PROVE  TofuAllows(c) = TofuAllows(d) /\ c.confirm = d.confirm
<1>1. \A f \in DOMAIN FIELD_SEVERITY :
        FIELD_SEVERITY[f] = "breaking" => c[f] = d[f]
  BY DEF SameContract, RequiresApproval, Changes
<1>2. c.tier = d.tier /\ c.confirm = d.confirm
  BY <1>1 DEF FIELD_SEVERITY
<1> QED
  BY <1>2 DEF TofuAllows

----------------------------------------------------------------------------
(* Type correctness, which needs to know what each frame holds.            *)

LEMMA CardNames == \A c \in Cards : c.name \in Glyph
BY CardsAssumption DEF Card

LEMMA IdleFrame == Idle \in Calls /\ Idle.pc = "idle"
BY DEF Idle, Calls, Pcs, Statuses, NothingParked, Queue

\* What moving a call on does to its frame and to the others.
LEMMA GotoFrame ==
  ASSUME TypeOK, NEW a \in Actor, NEW pc \in Pcs, NEW status \in Statuses,
         Goto(a, pc, status)
  PROVE  /\ op' \in [Actor -> Calls]
         /\ op'[a].pc = pc /\ op'[a].status = status
         /\ op'[a].card = op[a].card /\ op'[a].name = op[a].name
         /\ op'[a].pin = op[a].pin
         /\ \A b \in Actor \ {a} : op'[b] = op[b]
BY DEF TypeOK, Goto, Calls

\* What starting a call, or ending it, does to the frames.
LEMMA NewFrame ==
  ASSUME TypeOK, NEW a \in Actor, NEW frame \in Calls, op' = [op EXCEPT ![a] = frame]
  PROVE  /\ op' \in [Actor -> Calls]
         /\ op'[a] = frame
         /\ \A b \in Actor \ {a} : op'[b] = op[b]
BY DEF TypeOK

LEMMA PutPin ==
  ASSUME TypeOK, NEW c \in Cards, Put(c)
  PROVE  /\ pins' \in [Glyph -> Pin \union {NoPin}]
         /\ pins'[c.name] = PinOf(c)
         /\ \A g \in Glyph \ {c.name} : pins'[g] = pins[g]
BY CardNames DEF TypeOK, Put, Pin, PinOf

LEMMA SetPendingQueue ==
  ASSUME TypeOK, NEW a \in Actor, NEW g \in Glyph, NEW c \in Cards \union {NoCard},
         SetPending(a, g, c)
  PROVE  pending' \in [Proc -> Queue]
BY ActorsAssumption DEF TypeOK, SetPending, Queue

\* A call moved on to a place where its frame is known to be right.
LEMMA GotoBase ==
  ASSUME TypeOK, Frames, NEW a \in Actor, NEW pc \in {"unpark", "save", "done"},
         NEW status \in Statuses, Goto(a, pc, status),
         pc = "unpark" => op[a].name \in Glyph /\ status \in {"approved", "revoked"}
  PROVE  op' \in [Actor -> Calls] /\ Frames'
<1>1. pc \in Pcs
  BY DEF Pcs
<1> QED
  BY <1>1, GotoFrame DEF Frames, At

\* The steps of _save_pending, and what they leave of the other calls.
SavePcs == {"save", "open", "write", "rename"}

SaveStep(a) ==
  \/ Dump(a) \/ Open(a) \/ Write(a) \/ Rename(a) \/ SaveRaises(a)

SameCall(g, f) ==
  /\ g.pc = f.pc /\ g.name = f.name /\ g.card = f.card
  /\ g.pin = f.pin /\ g.status = f.status
  /\ f = Idle => g = Idle

\* A save keeps what its call is about and what it will answer, unless it raises.
SaveMoves(f, g) ==
  /\ f.pc \in SavePcs
  /\ g.name = f.name /\ g.card = f.card /\ g.pin = f.pin
  /\ \/ g.pc \in {"open", "write", "rename", "done"} /\ g.status = f.status
     \/ g.pc = "done" /\ g.status = "raised"

LEMMA TextTyped ==
  /\ \A q \in Queue : Dumped(q) \in Texts
  /\ \A t \in Texts : t.queue \in Queue
  /\ {NoFile, Emptied, Torn} \subseteq Texts
  /\ NothingParked \in Queue
<1>1. NothingParked \in Queue
  BY DEF NothingParked, Queue
<1>2. {NoFile, Emptied, Torn} \subseteq Texts
  BY DEF Texts
<1>3. \A q \in Queue : Dumped(q) \in Texts
  BY DEF Texts
<1>4. /\ NoFile.queue = NothingParked /\ Emptied.queue = NothingParked
      /\ Torn.queue = NothingParked
  BY DEF NoFile, Emptied, Torn
<1>5. \A q : Dumped(q).queue = q
  BY DEF Dumped
<1>6. \A t \in Texts : t.queue \in Queue
  BY <1>1, <1>4, <1>5 DEF Texts
<1> QED
  BY <1>1, <1>2, <1>3, <1>6

\* The frame of a call whose save ends.
LEMMA SavedFrame ==
  ASSUME TypeOK, NEW a \in Actor, NEW status \in Statuses
  PROVE  /\ Saved(a, status) \in Calls
         /\ Saved(a, status).pc = "done" /\ Saved(a, status).status = status
         /\ Saved(a, status).name = op[a].name /\ Saved(a, status).card = op[a].card
         /\ Saved(a, status).pin = op[a].pin
<1>1. op[a] \in Calls
  BY DEF TypeOK
<1>2. "done" \in Pcs
  BY DEF Pcs
<1> QED
  BY <1>1, <1>2, TextTyped DEF Saved, Calls

LEMMA SaveFrames ==
  ASSUME TypeOK, NEW a \in Actor, SaveStep(a)
  PROVE  /\ op' \in [Actor -> Calls]
         /\ SaveMoves(op[a], op'[a])
         /\ \A b \in Actor \ {a} : SameCall(op'[b], op[b])
<1>a. /\ op \in [Actor -> Calls] /\ op[a] \in Calls
      /\ op[a].status \in Statuses /\ "raised" \in Statuses
      /\ {"open", "write", "rename", "done"} \subseteq Pcs
  BY DEF TypeOK, Calls, Pcs, Statuses
<1>1. CASE Dump(a)
  <2> DEFINE frame == [op[a] EXCEPT !.pc = "open", !.dump = pending[ProcOf[a]],
                                    !.alone = ~OthersSave(a)]
  <2>0. pending[ProcOf[a]] \in Queue
    BY ActorsAssumption DEF TypeOK
  <2>1. (~OthersSave(a)) \in BOOLEAN
    OBVIOUS
  <2>2. frame \in Calls /\ SaveMoves(op[a], frame)
    <3> HIDE DEF OthersSave
    <3> QED
      BY <1>1, <1>a, <2>0, <2>1 DEF Calls, Dump, At, SaveMoves, SavePcs
  <2>3. \A f \in Calls : [f EXCEPT !.alone = FALSE] \in Calls
                          /\ SameCall([f EXCEPT !.alone = FALSE], f)
    <3>1. \A f \in Calls : f.alone = FALSE => [f EXCEPT !.alone = FALSE] = f
      BY DEF Calls
    <3>2. Idle \in Calls /\ Idle.alone = FALSE
      BY IdleFrame DEF Idle
    <3>3. [Idle EXCEPT !.alone = FALSE] = Idle
      BY <3>1, <3>2
    <3> QED
      BY <3>3 DEF Calls, SameCall
  <2>4. op' = [b \in Actor |-> IF b = a THEN frame ELSE [op[b] EXCEPT !.alone = FALSE]]
    BY <1>1 DEF Dump
  <2> HIDE DEF frame
  <2> QED
    BY <1>a, <2>2, <2>3, <2>4
<1>3. ASSUME NEW pc \in {"write", "rename"}, NEW where \in {"", "tmp"},
             op[a].pc \in SavePcs, op' = [op EXCEPT ![a].pc = pc, ![a].where = where]
      PROVE  /\ op' \in [Actor -> Calls] /\ SaveMoves(op[a], op'[a])
             /\ \A b \in Actor \ {a} : SameCall(op'[b], op[b])
  BY <1>3, <1>a DEF Calls, SaveMoves, SameCall
<1>4. CASE Open(a)
  BY <1>4, <1>3 DEF Open, At, SavePcs
<1>5. CASE Write(a)
  BY <1>5, <1>3 DEF Write, At, SavePcs
<1>6. CASE Rename(a)
  <2>1. \A f \in Calls : [f EXCEPT !.where = AfterRename(@)] \in Calls
                          /\ SameCall([f EXCEPT !.where = AfterRename(@)], f)
    <3>1. \A w \in {"", "tmp", "file", "gone"} : AfterRename(w) \in {"", "tmp", "file", "gone"}
      BY DEF AfterRename
    <3>2. [Idle EXCEPT !.where = AfterRename(@)] = Idle
      BY DEF Idle, AfterRename
    <3> QED
      BY <3>1, <3>2 DEF Calls, SameCall
  <2>2. Saved(a, op[a].status) \in Calls /\ SaveMoves(op[a], Saved(a, op[a].status))
    BY <1>6, <1>a, SavedFrame DEF Rename, At, SaveMoves, SavePcs
  <2> QED
    BY <1>6, <1>a, <2>1, <2>2 DEF Rename
<1>7. ASSUME op' = [op EXCEPT ![a] = Saved(a, "raised")], op[a].pc \in SavePcs
      PROVE  /\ op' \in [Actor -> Calls] /\ SaveMoves(op[a], op'[a])
             /\ \A b \in Actor \ {a} : SameCall(op'[b], op[b])
  <2>1. Saved(a, "raised") \in Calls /\ SaveMoves(op[a], Saved(a, "raised"))
    BY <1>7, <1>a, SavedFrame DEF SaveMoves
  <2> QED
    BY <1>7, <1>a, <2>1 DEF SameCall
<1>8. CASE SaveRaises(a)
  BY <1>8, <1>7 DEF SaveRaises, Overtaken, DiskFails, Saving, At, SavePcs
<1> QED
  BY <1>1, <1>4, <1>5, <1>6, <1>8 DEF SaveStep

\* A save writes the two files and nothing else.
LEMMA SaveFiles ==
  ASSUME TypeOK, NEW a \in Actor, SaveStep(a)
  PROVE  /\ {file', tmp'} \subseteq Texts /\ mixed' \in BOOLEAN
         /\ UNCHANGED <<pins, pending, approved, firstUse>>
<1>a. file \in Texts /\ tmp \in Texts /\ mixed \in BOOLEAN /\ op[a].dump \in Queue
  BY DEF TypeOK, Calls
<1>b. \A text \in Texts : WriteText(a, text) => {file', tmp'} \subseteq Texts
  BY <1>a DEF WriteText
<1>1. UNCHANGED <<pins, pending, approved, firstUse>>
  BY DEF SaveStep, Dump, Open, Write, Rename, SaveRaises
<1>2. mixed' \in BOOLEAN
  BY <1>a DEF SaveStep, Dump, Open, Write, Rename, SaveRaises
<1>3. {file', tmp'} \subseteq Texts
  <2>1. CASE Write(a)
    BY <2>1, <1>a, <1>b, TextTyped DEF Write
  <2>2. CASE SaveRaises(a)
    BY <2>2, <1>a, <1>b, TextTyped DEF SaveRaises
  <2> QED
    BY <1>a, <2>1, <2>2, TextTyped
       DEF SaveStep, Dump, Open, Rename
<1> QED
  BY <1>1, <1>2, <1>3

LEMMA BaseInit == TrustInit => TypeOK /\ Frames
BY IdleFrame, TextTyped DEF TrustInit, TypeOK, Frames, At, Queue, NothingParked

LEMMA BaseNext == TypeOK /\ Frames /\ [TrustNext]_trustVars => (TypeOK /\ Frames)'
<1> SUFFICES ASSUME TypeOK, Frames, [TrustNext]_trustVars PROVE (TypeOK /\ Frames)'
  OBVIOUS
<1> USE CardNames DEF At, Frames, files
<1>1. ASSUME NEW a \in Actor, NEW c \in Cards, Evaluate(a, c)
      PROVE  (TypeOK /\ Frames)'
  <2> DEFINE frame == op'[a]
  <2>1. /\ frame \in Calls /\ op' = [op EXCEPT ![a] = frame]
        /\ frame.pc \in {"decide", "done"} /\ frame.card = c /\ frame.name = c.name
        /\ frame.pc = "decide" => c.signed
    BY <1>1, TextTyped DEF Evaluate, Calls, Idle, TypeOK, Pcs, Statuses
  <2> QED
    BY <1>1, <2>1, NewFrame DEF Evaluate, TypeOK
<1>2. ASSUME NEW a \in Actor, NEW c \in Cards, Approve(a, c)
      PROVE  (TypeOK /\ Frames)'
  <2> DEFINE frame == [Idle EXCEPT !.pc = "unpark", !.name = c.name,
                                   !.card = c, !.status = "approved"]
  <2>1. /\ frame \in Calls /\ op' = [op EXCEPT ![a] = frame]
        /\ frame.pc = "unpark" /\ frame.name = c.name /\ frame.status = "approved"
    BY <1>2, TextTyped DEF Approve, Calls, Idle, Pcs, Statuses
  <2> QED
    BY <1>2, <2>1, NewFrame, PutPin DEF Approve, TypeOK
<1>3. ASSUME NEW a \in Actor, NEW c \in Cards, RefuseApproval(a, c)
      PROVE  (TypeOK /\ Frames)'
  <2> DEFINE frame == [Idle EXCEPT !.pc = "done", !.name = c.name,
                                   !.card = c, !.status = "refused"]
  <2>1. frame \in Calls /\ op' = [op EXCEPT ![a] = frame] /\ frame.pc = "done"
    BY <1>3, TextTyped DEF RefuseApproval, Calls, Idle, Pcs, Statuses
  <2> QED
    BY <1>3, <2>1, NewFrame DEF RefuseApproval, TypeOK
<1>4. ASSUME NEW a \in Actor, NEW g \in Glyph, Revoke(a, g)
      PROVE  (TypeOK /\ Frames)'
  <2> DEFINE frame == op'[a]
  <2>1. /\ frame \in Calls /\ op' = [op EXCEPT ![a] = frame]
        /\ frame.pc \in {"revoke", "done"} /\ frame.name = g
        /\ frame.pc = "revoke" => frame.pin # NoPin /\ frame.card = NoCard
    BY <1>4, TextTyped DEF Revoke, Calls, Idle, TypeOK, Pcs, Statuses
  <2> QED
    BY <1>4, <2>1, NewFrame DEF Revoke, TypeOK
<1>5. ASSUME NEW a \in Actor, Return(a) PROVE (TypeOK /\ Frames)'
  BY <1>5, NewFrame, IdleFrame DEF Return, TypeOK
<1>6. ASSUME NEW a \in Actor, Continue(a) PROVE (TypeOK /\ Frames)'
  <2>a. /\ {"pinned", "new", "revoked", "changed", "raised"} \subseteq Statuses
        /\ op[a].status \in Statuses
    BY DEF Statuses, TypeOK, Calls
  <2>1. CASE TofuPin(a)
    <3>1. op' \in [Actor -> Calls] /\ Frames'
      BY <2>1, <2>a, GotoBase DEF TofuPin
    <3> QED
      BY <2>1, <3>1, PutPin DEF TofuPin, Deciding, TypeOK
  <2>2. CASE Refuse(a)
    <3>1. op' \in [Actor -> Calls] /\ Frames'
      BY <2>2, <2>a, GotoBase DEF Refuse
    <3> QED
      BY <2>2, <3>1 DEF Refuse, TypeOK
  <2>3. CASE MatchPin(a)
    <3>1. op' \in [Actor -> Calls] /\ Frames'
      BY <2>3, <2>a, GotoBase DEF MatchPin
    <3> QED
      BY <2>3, <3>1, SetPendingQueue DEF MatchPin, Deciding, TypeOK
  <2>4. CASE Park(a)
    <3>1. op' \in [Actor -> Calls] /\ Frames'
      BY <2>4, <2>a, GotoBase DEF Park
    <3> QED
      BY <2>4, <3>1, SetPendingQueue DEF Park, Deciding, TypeOK
  <2>5. CASE AutoRepin(a)
    <3>1. op' \in [Actor -> Calls] /\ Frames'
      BY <2>5, <2>a, GotoBase DEF AutoRepin
    <3> QED
      BY <2>5, <3>1, PutPin DEF AutoRepin, Deciding, TypeOK
  <2>6. CASE RevokePut(a)
    <3>1. op[a].pin \in Pin /\ op[a].name \in Glyph
      BY <2>6 DEF RevokePut, TypeOK, Calls
    <3>2. op' \in [Actor -> Calls] /\ Frames'
      BY <2>6, <2>a, <3>1, GotoBase DEF RevokePut
    <3>3. pins' \in [Glyph -> Pin \union {NoPin}]
      BY <2>6, <3>1 DEF RevokePut, TypeOK, Pin
    <3> QED
      BY <2>6, <3>2, <3>3 DEF RevokePut, TypeOK
  <2>7. CASE Unpark(a)
    <3>1. op' \in [Actor -> Calls] /\ Frames'
      BY <2>7, <2>a, GotoBase DEF Unpark
    <3> QED
      BY <2>7, <3>1, SetPendingQueue DEF Unpark, TypeOK
  <2>8. CASE SaveStep(a)
    <3>1. /\ op' \in [Actor -> Calls] /\ SaveMoves(op[a], op'[a])
          /\ \A b \in Actor \ {a} : SameCall(op'[b], op[b])
      BY <2>8, SaveFrames
    <3>2. Frames'
      BY <3>1 DEF SaveMoves, SameCall
    <3> QED
      BY <2>8, <3>1, <3>2, SaveFiles DEF TypeOK
  <2> QED
    BY <1>6, <2>1, <2>2, <2>3, <2>4, <2>5, <2>6, <2>7, <2>8 DEF Continue, SaveStep
<1>7. ASSUME NEW p \in Proc, Restart(p) PROVE (TypeOK /\ Frames)'
  BY <1>7, IdleFrame, TextTyped DEF Restart, TypeOK, files
<1>8. CASE UNCHANGED trustVars
  BY <1>8 DEF trustVars, files, TypeOK
<1> QED
  BY <1>1, <1>2, <1>3, <1>4, <1>5, <1>6, <1>7, <1>8 DEF TrustNext

\* Every variable keeps its type.
THEOREM TypeCorrect == TrustSpec => []TypeOK
BY BaseInit, BaseNext, PTL DEF TrustSpec

----------------------------------------------------------------------------
(* Pins never drift from an endorsed contract.                             *)

LEMMA EndorsedContract ==
  ASSUME NEW c, NEW d, Endorsed(c), d.signed, SameContract(c, d)
  PROVE  Endorsed(d)
BY SameContractTransitive DEF Endorsed

LEMMA EndorsedStays ==
  ASSUME approved \subseteq approved', firstUse \subseteq firstUse', NEW c, Endorsed(c)
  PROVE  Endorsed(c)'
BY DEF Endorsed

LEMMA HistoryGrows ==
  [TrustNext]_trustVars => approved \subseteq approved' /\ firstUse \subseteq firstUse'
BY DEF TrustNext, trustVars, Evaluate, Approve, RefuseApproval, Revoke, Return,
       Restart, Continue, TofuPin, Refuse, MatchPin, Park, AutoRepin, RevokePut,
       Unpark, Dump, Open, Write, Rename, SaveRaises

\* The facts about one frame, and about all of them.
FrameEndorsed(f) ==
  /\ f.pc \in SavePcs \union {"done"} /\ f.status = "pinned" => Endorsed(f.card)
  /\ f.pc \in {"decide", "revoke"} /\ f.pin # NoPin =>
       f.pin.card.name = f.name /\ Endorsed(f.pin.card)

LEMMA FramesEndorsed ==
  AnswersEndorsed /\ SnapshotsEndorsed <=> \A a \in Actor : FrameEndorsed(op[a])
BY DEF AnswersEndorsed, SnapshotsEndorsed, FrameEndorsed, Saving, SavePcs

LEMMA PutEndorsed ==
  ASSUME TypeOK, PinsEndorsed, approved \subseteq approved', firstUse \subseteq firstUse',
         NEW c \in Cards, Put(c), Endorsed(c)'
  PROVE  PinsEndorsed'
<1>1. /\ pins'[c.name] = PinOf(c)
      /\ \A g \in Glyph \ {c.name} : pins'[g] = pins[g]
  BY PutPin
<1>2. \A d : Endorsed(d) => Endorsed(d)'
  BY EndorsedStays
<1> QED
  BY <1>1, <1>2 DEF PinsEndorsed, PinOf, Endorsed

LEMMA EndorsedInit == TrustInit => PinsEndorsed /\ AnswersEndorsed /\ SnapshotsEndorsed
BY IdleFrame DEF TrustInit, PinsEndorsed, AnswersEndorsed, SnapshotsEndorsed, Saving

LEMMA EndorsedNext ==
  IInv /\ [TrustNext]_trustVars
    => PinsEndorsed' /\ AnswersEndorsed' /\ SnapshotsEndorsed'
<1> SUFFICES ASSUME IInv, [TrustNext]_trustVars
             PROVE  PinsEndorsed' /\ \A b \in Actor : FrameEndorsed(op[b])'
  BY DEF AnswersEndorsed, SnapshotsEndorsed, FrameEndorsed, Saving, SavePcs
<1>h. approved \subseteq approved' /\ firstUse \subseteq firstUse'
  BY HistoryGrows
<1>i. TypeOK /\ Frames /\ PinsEndorsed /\ \A b \in Actor : FrameEndorsed(op[b])
  BY FramesEndorsed DEF IInv
<1>p. pins' = pins => PinsEndorsed'
  BY <1>h, <1>i, EndorsedStays DEF PinsEndorsed
<1>k. \A b \in Actor : op'[b] = op[b] => FrameEndorsed(op[b])'
  BY <1>h, <1>i, EndorsedStays DEF FrameEndorsed, SavePcs, Endorsed
<1>m. \A b \in Actor : SameCall(op'[b], op[b]) => FrameEndorsed(op[b])'
  BY <1>h, <1>i, EndorsedStays DEF FrameEndorsed, SavePcs, Endorsed, SameCall
<1>e. \A d : Endorsed(d) => Endorsed(d)'
  BY <1>h, EndorsedStays
\* A call that moves on without answering `pinned' keeps nothing to endorse.
<1>g. ASSUME NEW a \in Actor, NEW pc \in {"unpark", "save", "done"},
             NEW status \in Statuses \ {"pinned"}, Goto(a, pc, status)
      PROVE  \A b \in Actor : FrameEndorsed(op[b])'
  <2>1. pc \in Pcs
    BY DEF Pcs
  <2>2. /\ op'[a].pc = pc /\ op'[a].status = status
        /\ \A b \in Actor \ {a} : op'[b] = op[b]
    BY <1>g, <1>i, <2>1, GotoFrame
  <2> QED
    BY <2>2, <1>k DEF FrameEndorsed, SavePcs
\* A call that answers `pinned' does so for an endorsed card.
<1>y. ASSUME NEW a \in Actor, NEW pc \in {"save", "done"}, Goto(a, pc, "pinned"),
             Endorsed(op[a].card)
      PROVE  \A b \in Actor : FrameEndorsed(op[b])'
  <2>1. pc \in Pcs /\ "pinned" \in Statuses
    BY DEF Pcs, Statuses
  <2>2. /\ op'[a].pc = pc /\ op'[a].card = op[a].card
        /\ \A b \in Actor \ {a} : op'[b] = op[b]
    BY <1>y, <1>i, <2>1, GotoFrame
  <2>3. Endorsed(op[a].card)'
    BY <1>e, <1>y, <2>2 DEF Endorsed
  <2> QED
    BY <2>2, <2>3, <1>k DEF FrameEndorsed, SavePcs
<1>1. ASSUME NEW a \in Actor, NEW c \in Cards, Evaluate(a, c)
      PROVE  PinsEndorsed' /\ \A b \in Actor : FrameEndorsed(op[b])'
  <2>1. \/ op'[a].pc = "decide" /\ op'[a].name = c.name /\ op'[a].pin = pins[c.name]
        \/ op'[a].pc = "done" /\ op'[a].status = "invalid"
    BY <1>1, <1>i DEF Evaluate, Idle, TypeOK
  <2>2. \A d : pins[c.name] # NoPin /\ d = pins[c.name].card
                => d.name = c.name /\ Endorsed(d)'
    BY <1>i, <1>e, CardNames DEF PinsEndorsed
  <2>3. \A b \in Actor \ {a} : op'[b] = op[b]
    BY <1>1, <1>i DEF Evaluate, TypeOK
  <2>4. FrameEndorsed(op[a])'
    BY <2>1, <2>2 DEF FrameEndorsed, SavePcs, Endorsed
  <2> QED
    BY <1>1, <2>3, <2>4, <1>k, <1>p DEF Evaluate
<1>2. ASSUME NEW a \in Actor, NEW c \in Cards, Approve(a, c)
      PROVE  PinsEndorsed' /\ \A b \in Actor : FrameEndorsed(op[b])'
  <2>1. Endorsed(c)'
    BY <1>2, SameContractReflexive DEF Approve, Endorsed
  <2>2. PinsEndorsed'
    BY <1>2, <1>h, <1>i, <2>1, PutEndorsed DEF Approve
  <2>3. op'[a].pc = "unpark" /\ \A b \in Actor \ {a} : op'[b] = op[b]
    BY <1>2, <1>i DEF Approve, Idle, TypeOK
  <2> QED
    BY <2>2, <2>3, <1>k DEF FrameEndorsed, SavePcs
<1>3. ASSUME NEW a \in Actor, NEW c \in Cards, RefuseApproval(a, c)
      PROVE  PinsEndorsed' /\ \A b \in Actor : FrameEndorsed(op[b])'
  <2>1. /\ op'[a].pc = "done" /\ op'[a].status = "refused"
        /\ \A b \in Actor \ {a} : op'[b] = op[b]
    BY <1>3, <1>i DEF RefuseApproval, Idle, TypeOK
  <2> QED
    BY <1>3, <2>1, <1>k, <1>p DEF FrameEndorsed, SavePcs, RefuseApproval
<1>4. ASSUME NEW a \in Actor, NEW g \in Glyph, Revoke(a, g)
      PROVE  PinsEndorsed' /\ \A b \in Actor : FrameEndorsed(op[b])'
  <2>1. \/ op'[a].pc = "done" /\ op'[a].status = "missing"
        \/ /\ op'[a].pc = "revoke" /\ op'[a].name = g
           /\ op'[a].pin = pins[g] /\ pins[g] # NoPin
    BY <1>4, <1>i DEF Revoke, Idle, TypeOK
  <2>2. \A d : pins[g] # NoPin /\ d = pins[g].card => d.name = g /\ Endorsed(d)'
    BY <1>i, <1>e DEF PinsEndorsed
  <2>3. \A b \in Actor \ {a} : op'[b] = op[b]
    BY <1>4, <1>i DEF Revoke, TypeOK
  <2>4. FrameEndorsed(op[a])'
    BY <2>1, <2>2 DEF FrameEndorsed, SavePcs, Endorsed
  <2> QED
    BY <1>4, <2>3, <2>4, <1>k, <1>p DEF Revoke
<1>5. ASSUME NEW a \in Actor, Continue(a)
      PROVE  PinsEndorsed' /\ \A b \in Actor : FrameEndorsed(op[b])'
  <2>a. {"new", "revoked", "changed", "raised"} \subseteq Statuses \ {"pinned"}
    BY DEF Statuses
  \* A frame that decides on a card with a pin to compare it with.
  <2>d. At(a, "decide") =>
          /\ op[a].card \in Cards /\ op[a].card.signed
          /\ op[a].card.name = op[a].name
          /\ op[a].pin # NoPin => Endorsed(op[a].pin.card)
                                 /\ op[a].pin.card.name = op[a].name
                                 /\ op[a].pin.card \in Cards
    BY <1>i DEF Frames, FrameEndorsed, At, TypeOK, Calls, Pin
  <2>1. CASE TofuPin(a)
    <3>1. op[a].card \in Cards /\ op[a].card.signed /\ TofuAllows(op[a].card)
      BY <2>1, <2>d DEF TofuPin, Deciding, Verdict
    <3> DEFINE c == op[a].card
    <3>2. SameContract(c, c)
      BY SameContractReflexive
    <3>3. c \in firstUse'
      BY <2>1 DEF TofuPin
    <3>4. \A d : d = c => Endorsed(d)'
      BY <3>1, <3>2, <3>3 DEF Endorsed
    <3>5. PinsEndorsed'
      <4>1. PICK d \in Cards : d = c /\ Put(d)
        BY <2>1, <3>1 DEF TofuPin
      <4> QED
        BY <4>1, <3>4, <1>h, <1>i, PutEndorsed
    <3>6. "done" \in Pcs /\ "pinned" \in Statuses
      BY DEF Pcs, Statuses
    <3>7. /\ op'[a].pc = "done" /\ op'[a].card = c
          /\ \A b \in Actor \ {a} : op'[b] = op[b]
      BY <2>1, <1>i, <3>6, GotoFrame DEF TofuPin
    <3> QED
      BY <3>4, <3>5, <3>7, <1>k DEF FrameEndorsed, SavePcs, Endorsed
  <2>2. CASE Refuse(a)
    BY <2>2, <2>a, <1>g, <1>p DEF Refuse
  <2>3. CASE MatchPin(a)
    <3>1. /\ op[a].pin # NoPin /\ SameIdAndKey(op[a].pin.card, op[a].card)
          /\ At(a, "decide")
      BY <2>3 DEF MatchPin, Deciding, Verdict
    <3>2. SameContract(op[a].pin.card, op[a].card)
      BY <2>d, <3>1, SameIdAndKeyContract, CardsAssumption
    <3>3. Endorsed(op[a].card)
      BY <2>d, <3>1, <3>2, EndorsedContract
    <3> QED
      BY <2>3, <3>3, <1>y, <1>p DEF MatchPin
  <2>4. CASE Park(a)
    BY <2>4, <2>a, <1>g, <1>p DEF Park
  <2>5. CASE AutoRepin(a)
    <3>1. /\ op[a].pin # NoPin /\ ~RequiresApproval(op[a].pin.card, op[a].card)
          /\ At(a, "decide")
      BY <2>5 DEF AutoRepin, Deciding, Verdict
    <3>2. SameContract(op[a].pin.card, op[a].card)
      BY <2>d, <3>1 DEF SameContract
    <3>3. Endorsed(op[a].card)
      BY <2>d, <3>1, <3>2, EndorsedContract
    <3>4. PinsEndorsed'
      <4>1. PICK d \in Cards : Endorsed(d) /\ Put(d)
        BY <2>5, <2>d, <3>1, <3>3 DEF AutoRepin
      <4> QED
        BY <4>1, <1>e, <1>h, <1>i, PutEndorsed
    <3> QED
      BY <2>5, <3>3, <3>4, <1>y DEF AutoRepin
  <2>6. CASE RevokePut(a)
    <3> DEFINE g == op[a].name
    <3>1. /\ g \in Glyph /\ op[a].pin \in Pin
          /\ op[a].pin.card.name = g /\ Endorsed(op[a].pin.card)
      BY <2>6, <1>i DEF RevokePut, Frames, FrameEndorsed, At, TypeOK, Calls
    <3>2. /\ pins'[g] # NoPin => pins'[g].card = op[a].pin.card
          /\ \A h \in Glyph \ {g} : pins'[h] = pins[h]
      BY <2>6, <1>i, <3>1 DEF RevokePut, TypeOK, Pin
    <3>3. PinsEndorsed'
      BY <1>i, <1>e, <3>1, <3>2 DEF PinsEndorsed, Endorsed
    <3> QED
      BY <2>6, <2>a, <3>3, <1>g DEF RevokePut
  <2>7. CASE Unpark(a)
    <3>1. op[a].status \in Statuses \ {"pinned"}
      BY <2>7, <1>i DEF Unpark, Frames, At, Statuses
    <3> QED
      BY <2>7, <3>1, <1>g, <1>p DEF Unpark
  <2>8. CASE SaveStep(a)
    <3>1. SaveMoves(op[a], op'[a]) /\ \A b \in Actor \ {a} : SameCall(op'[b], op[b])
      BY <2>8, <1>i, SaveFrames
    <3> DEFINE c == op[a].card
    <3>2. op'[a].status = "pinned" => \A d : d = c => Endorsed(d)'
      BY <3>1, <1>i, <1>e DEF SaveMoves, FrameEndorsed
    <3>3. FrameEndorsed(op[a])'
      <4>1. op'[a].pc \in SavePcs \union {"done"} /\ op'[a].card = c
        BY <3>1 DEF SaveMoves, SavePcs
      <4> QED
        BY <3>2, <4>1 DEF FrameEndorsed, SavePcs, Endorsed
    <3>4. PinsEndorsed'
      BY <2>8, <1>i, <1>p, SaveFiles
    <3> QED
      BY <3>1, <3>3, <3>4, <1>m
  <2> QED
    BY <1>5, <2>1, <2>2, <2>3, <2>4, <2>5, <2>6, <2>7, <2>8 DEF Continue, SaveStep
<1>6. ASSUME NEW a \in Actor, Return(a)
      PROVE  PinsEndorsed' /\ \A b \in Actor : FrameEndorsed(op[b])'
  <2>1. op'[a].pc = "idle" /\ \A b \in Actor \ {a} : op'[b] = op[b]
    BY <1>6, <1>i, IdleFrame DEF Return, TypeOK
  <2> QED
    BY <1>6, <2>1, <1>k, <1>p DEF FrameEndorsed, SavePcs, Return
<1>7. ASSUME NEW p \in Proc, Restart(p)
      PROVE  PinsEndorsed' /\ \A b \in Actor : FrameEndorsed(op[b])'
  <2>1. \A b \in Actor : op'[b].pc = "idle" \/ op'[b] = op[b]
    BY <1>7, IdleFrame DEF Restart
  <2> QED
    BY <1>7, <2>1, <1>k, <1>p DEF FrameEndorsed, SavePcs, Restart
<1>8. CASE UNCHANGED trustVars
  BY <1>8, <1>k, <1>p DEF trustVars
<1> QED
  BY <1>1, <1>2, <1>3, <1>4, <1>5, <1>6, <1>7, <1>8 DEF TrustNext

\* No interleaving, error or restart lets a pin drift from the contracts an
\* operator or the TOFU policy endorsed.
THEOREM PinsStayEndorsed == TrustSpec => []PinsEndorsed
BY BaseInit, BaseNext, EndorsedInit, EndorsedNext, PTL DEF TrustSpec, IInv

\* evaluate makes a tool callable only for a card with an endorsed contract.
THEOREM AnswersStayEndorsed == TrustSpec => []AnswersEndorsed
BY BaseInit, BaseNext, EndorsedInit, EndorsedNext, PTL DEF TrustSpec, IInv

----------------------------------------------------------------------------
(* The saved queue.                                                        *)

\* A save that overlaps no other has the .tmp to itself; one that does not is
\* known to overlap.
SaverFrame(a) ==
  Saving(a) =>
    /\ op[a].alone => \A b \in Actor \ {a} : ~Saving(b)
    /\ ~op[a].alone => mixed
    /\ op[a].alone /\ At(a, "write") => op[a].where = "tmp" /\ tmp = Emptied
    /\ op[a].alone /\ At(a, "rename") => tmp = Dumped(op[a].dump)

Savers == \A a \in Actor : SaverFrame(a)

\* The steps of other kinds leave the files and the saves under way alone, and
\* the queue too, unless a call is about to save it, or a process starts.
LEMMA NotSaving ==
  ASSUME TypeOK, [TrustNext]_trustVars, \A a \in Actor : ~SaveStep(a)
  PROVE  /\ UNCHANGED files
         /\ \A b \in Actor : op'[b] = op[b] \/ op'[b].pc \notin {"open", "write", "rename"}
         /\ \/ UNCHANGED pending /\ \A b \in Actor : op[b].pc \in SavePcs => op'[b] = op[b]
            \/ \E b \in Actor : op'[b].pc = "save"
            \/ \E p \in Proc : /\ pending' = [pending EXCEPT ![p] = file.queue]
                               /\ \A b \in Actor : ProcOf[b] = p => op'[b] = Idle
<1> DEFINE Kept == \A b \in Actor : op'[b] = op[b]
                                    \/ op'[b].pc \notin {"open", "write", "rename"}
           Quiet == UNCHANGED pending
                    /\ \A b \in Actor : op[b].pc \in SavePcs => op'[b] = op[b]
           Parks == \E b \in Actor : op'[b].pc = "save"
           Starts == \E p \in Proc : /\ pending' = [pending EXCEPT ![p] = file.queue]
                                     /\ \A b \in Actor : ProcOf[b] = p => op'[b] = Idle
<1>g. ASSUME NEW a \in Actor, NEW pc \in {"unpark", "save", "done"}, NEW status,
             op[a].pc \notin SavePcs, Goto(a, pc, status)
      PROVE  Kept /\ (pc = "save" => Parks) /\ (UNCHANGED pending => Quiet)
  BY <1>g DEF Goto, TypeOK, Calls
<1>f. ASSUME NEW a \in Actor, NEW frame, op' = [op EXCEPT ![a] = frame],
             op[a].pc \notin SavePcs,
             frame.pc \notin {"open", "write", "rename"}, UNCHANGED pending
      PROVE  Kept /\ Quiet
  BY <1>f DEF TypeOK
<1>1. ASSUME NEW a \in Actor, NEW c \in Cards, Evaluate(a, c)
      PROVE  UNCHANGED files /\ Kept /\ Quiet
  <2>1. op' = [op EXCEPT ![a] = op'[a]] /\ op'[a].pc \in {"decide", "done"}
    BY <1>1 DEF Evaluate, Idle, TypeOK
  <2> QED
    BY <1>1, <2>1, <1>f DEF Evaluate, At, SavePcs
<1>2. ASSUME NEW a \in Actor, NEW c \in Cards, Approve(a, c) \/ RefuseApproval(a, c)
      PROVE  UNCHANGED files /\ Kept /\ Quiet
  <2>1. op' = [op EXCEPT ![a] = op'[a]] /\ op'[a].pc \in {"unpark", "done"}
    BY <1>2 DEF Approve, RefuseApproval, Idle, TypeOK
  <2> QED
    BY <1>2, <2>1, <1>f DEF Approve, RefuseApproval, At, SavePcs
<1>3. ASSUME NEW a \in Actor, NEW g \in Glyph, Revoke(a, g)
      PROVE  UNCHANGED files /\ Kept /\ Quiet
  <2>1. op' = [op EXCEPT ![a] = op'[a]] /\ op'[a].pc \in {"revoke", "done"}
    BY <1>3 DEF Revoke, Idle, TypeOK
  <2> QED
    BY <1>3, <2>1, <1>f DEF Revoke, At, SavePcs
<1>4. ASSUME NEW a \in Actor, Return(a) PROVE UNCHANGED files /\ Kept /\ Quiet
  BY <1>4, <1>f, IdleFrame DEF Return, At, SavePcs
<1>5. ASSUME NEW a \in Actor, Continue(a)
      PROVE  UNCHANGED files /\ Kept /\ (Quiet \/ Parks)
  <2>1. CASE TofuPin(a) \/ AutoRepin(a)
    BY <2>1, <1>g DEF TofuPin, AutoRepin, Deciding, At, SavePcs
  <2>2. CASE Refuse(a)
    BY <2>2, <1>g DEF Refuse, Deciding, At, SavePcs
  <2>3. CASE MatchPin(a) \/ Park(a) \/ Unpark(a)
    BY <2>3, <1>g DEF MatchPin, Park, Unpark, Deciding, At, SavePcs
  <2>4. CASE RevokePut(a)
    BY <2>4, <1>g DEF RevokePut, At, SavePcs
  <2> QED
    BY <1>5, <2>1, <2>2, <2>3, <2>4 DEF Continue, SaveStep
<1>6. ASSUME NEW p \in Proc, Restart(p) PROVE UNCHANGED files /\ Kept /\ Starts
  <2>1. /\ \A b \in Actor : ProcOf[b] = p => op'[b] = Idle
        /\ \A b \in Actor : ProcOf[b] # p => op'[b] = op[b]
    BY <1>6 DEF Restart
  <2>2. Kept
    BY <2>1, IdleFrame
  <2> QED
    BY <1>6, <2>1, <2>2 DEF Restart
<1>7. CASE UNCHANGED trustVars
  <2>1. UNCHANGED files /\ UNCHANGED pending /\ UNCHANGED op
    BY <1>7 DEF trustVars, files
  <2> QED
    BY <2>1
<1> QED
  BY <1>1, <1>2, <1>3, <1>4, <1>5, <1>6, <1>7 DEF TrustNext

LEMMA SaversInit == TrustInit => Savers
BY IdleFrame DEF TrustInit, Savers, SaverFrame, Saving

LEMMA SaversNext ==
  ASSUME TypeOK, Savers, [TrustNext]_trustVars
  PROVE  Savers'
<1>f. op \in [Actor -> Calls] /\ \A b \in Actor : op[b].alone \in BOOLEAN
  BY DEF TypeOK, Calls
<1>1. CASE \A a \in Actor : ~SaveStep(a)
  <2>1. /\ tmp' = tmp /\ mixed' = mixed
        /\ \A b \in Actor : op'[b] = op[b] \/ ~Saving(b)'
    BY <1>1, NotSaving DEF files, Saving
  <2> QED
    BY <2>1 DEF Savers, SaverFrame, Saving, At
<1>2. ASSUME NEW a \in Actor, SaveStep(a) PROVE Savers'
  <2>s. \A b \in Actor \ {a} : Saving(b)' <=> Saving(b)
    BY <1>2, SaveFrames DEF SameCall, Saving
  <2>1. CASE Dump(a)
    <3>1. /\ \A b \in Actor \ {a} : ~op'[b].alone
          /\ op'[a].alone <=> ~OthersSave(a)
          /\ op'[a].pc = "open"
      BY <2>1, <1>f DEF Dump, Calls
    <3>2. OthersSave(a) => mixed'
      BY <2>1 DEF Dump
    <3>3. OthersSave(a) <=> \E b \in Actor \ {a} : Saving(b)'
      BY <2>s DEF OthersSave
    <3>4. ASSUME NEW b \in Actor PROVE SaverFrame(b)'
      <4>1. CASE b = a
        BY <3>1, <3>2, <3>3, <4>1 DEF SaverFrame, At
      <4>2. CASE b # a
        BY <3>1, <3>2, <3>3, <4>2 DEF SaverFrame
      <4> QED
        BY <4>1, <4>2
    <3> QED
      BY <3>4 DEF Savers
  <2>2. CASE SaveRaises(a)
    <3>1. op'[a].pc = "done" /\ \A b \in Actor \ {a} : op'[b] = op[b]
      <4>1. Saved(a, "raised").pc = "done"
        BY SavedFrame DEF Statuses
      <4> QED
        BY <2>2, <1>f, <4>1 DEF SaveRaises
    <3>2. mixed' = mixed /\ (tmp' = tmp \/ Saving(a))
      BY <2>2 DEF SaveRaises, Saving, At
    <3> QED
      BY <3>1, <3>2 DEF Savers, SaverFrame, Saving, At
  <2>3. CASE Open(a)
    <3>1. /\ op'[a].pc = "write" /\ op'[a].where = "tmp" /\ op'[a].alone = op[a].alone
          /\ Saving(a) /\ \A b \in Actor \ {a} : op'[b] = op[b]
      BY <2>3, <1>f DEF Open, Calls, At, Saving
    <3>2. mixed' = mixed /\ tmp' = Emptied
      BY <2>3 DEF Open
    <3> QED
      BY <3>1, <3>2, <2>s DEF Savers, SaverFrame, Saving, At
  <2>4. CASE Write(a)
    <3>1. /\ op'[a].pc = "rename" /\ op'[a].dump = op[a].dump /\ op'[a].alone = op[a].alone
          /\ Saving(a) /\ \A b \in Actor \ {a} : op'[b] = op[b]
      BY <2>4, <1>f DEF Write, Calls, At, Saving
    <3>2. op[a].alone => op[a].where = "tmp" /\ tmp = Emptied
      BY <2>4, <3>1 DEF Write, Savers, SaverFrame
    <3>3. op[a].alone => tmp' = Dumped(op[a].dump)
      BY <2>4, <3>2 DEF Write, Opened, WriteText
    <3>4. mixed' = mixed
      BY <2>4 DEF Write
    <3> QED
      BY <3>1, <3>3, <3>4, <2>s DEF Savers, SaverFrame, Saving, At
  <2>5. CASE Rename(a)
    <3>1. /\ op'[a].pc = "done" /\ Saving(a)
          /\ \A b \in Actor \ {a} : op'[b].alone = op[b].alone
      BY <2>5, <1>f DEF Rename, Saved, Calls, At, Saving
    <3>2. mixed' <=> mixed /\ ~op[a].alone
      BY <2>5 DEF Rename
    <3> QED
      BY <3>1, <3>2, <2>s DEF Savers, SaverFrame, Saving, At
  <2> QED
    BY <1>2, <2>1, <2>2, <2>3, <2>4, <2>5 DEF SaveStep
<1> QED
  BY <1>1, <1>2

\* A step that changes the queue file does so by renaming a whole dump to it, as
\* long as no saves have overlapped.
LEMMA IntactStep ==
  ASSUME TypeOK, Savers, [TrustNext]_trustVars, file' # file, ~mixed
  PROVE  \E a \in Actor : At(a, "rename") /\ file' = Dumped(op[a].dump)
<1>1. PICK a \in Actor : SaveStep(a)
  BY NotSaving DEF files
<1>2. Saving(a) => op[a].alone
  BY DEF Savers, SaverFrame
<1>3. At(a, "write") => op[a].where = "tmp"
  BY <1>2 DEF Savers, SaverFrame, Saving, At
<1>4. CASE Rename(a)
  <2>1. At(a, "rename") /\ tmp = Dumped(op[a].dump)
    BY <1>2, <1>4 DEF Rename, Savers, SaverFrame, Saving, At
  <2> QED
    BY <1>4, <2>1 DEF Rename
<1>5. CASE ~Rename(a)
  BY <1>1, <1>3, <1>5 DEF SaveStep, Dump, Open, Write, SaveRaises, WriteText
<1> QED
  BY <1>4, <1>5

\* Crashes, failing writes and the threads of every process included: while no
\* two saves overlap, and again after one that ran alone, the queue file is
\* replaced only as a whole, by what the renaming call dumped.
THEOREM QueueStaysIntact == TrustSpec => QueueIntact
<1>1. TypeOK /\ Savers /\ [TrustNext]_trustVars
        => [file' # file /\ ~mixed =>
              \E a \in Actor : At(a, "rename") /\ file' = Dumped(op[a].dump)]_trustVars
  BY IntactStep
<1>2. TypeOK /\ Savers /\ [TrustNext]_trustVars => Savers'
  BY SaversNext
<1> QED
  BY <1>1, <1>2, SaversInit, BaseInit, BaseNext, PTL DEF TrustSpec, QueueIntact

\* The rename of a save that overlapped no other finds its file.
THEOREM LoneSaveFindsItsFile == TrustSpec => []RaisesOnlyWhenMixed
<1>1. Savers => RaisesOnlyWhenMixed
  <2>1. \A q : Dumped(q) # NoFile
    BY DEF Dumped, NoFile
  <2>2. \A a \in Actor : At(a, "rename") => Saving(a)
    BY DEF At, Saving
  <2> QED
    BY <2>1, <2>2 DEF Savers, SaverFrame, RaisesOnlyWhenMixed
<1>2. TypeOK /\ Savers /\ [TrustNext]_trustVars => Savers'
  BY SaversNext
<1> QED
  BY <1>1, <1>2, SaversInit, BaseInit, BaseNext, PTL DEF TrustSpec

\* A save that overlaps no other writes the queue there is, unless a call that
\* changed it has its own save to come.
DumpFresh(a) ==
  Saving(a) /\ op[a].alone =>
    \/ op[a].dump = pending[ProcOf[a]]
    \/ \E b \in Actor : op[b].pc = "save"

DumpsFresh == \A a \in Actor : DumpFresh(a)

LEMMA QueueNext ==
  ASSUME \A p, q \in Proc : p = q, ~WriteFaults, TypeOK, Savers,
         QueueDurable, DumpsFresh, [TrustNext]_trustVars
  PROVE  QueueDurable' /\ DumpsFresh'
<1>f. op \in [Actor -> Calls] /\ \A b \in Actor : op[b].alone \in BOOLEAN
  BY DEF TypeOK, Calls
<1>o. \A p \in Proc, b \in Actor : ProcOf[b] = p
  BY ActorsAssumption
<1>n. Savers'
  BY SaversNext
\* Somebody is about to save.
<1>s. (\E b \in Actor : op'[b].pc = "save") => QueueDurable' /\ DumpsFresh'
  BY <1>o DEF QueueDurable, Queued, DumpsFresh, DumpFresh, At
<1>1. CASE \A a \in Actor : ~SaveStep(a)
  <2>1. /\ UNCHANGED files
        /\ \A b \in Actor : op'[b] = op[b] \/ op'[b].pc \notin {"open", "write", "rename"}
        /\ \/ UNCHANGED pending /\ \A b \in Actor : op[b].pc \in SavePcs => op'[b] = op[b]
           \/ \E b \in Actor : op'[b].pc = "save"
           \/ \E p \in Proc : /\ pending' = [pending EXCEPT ![p] = file.queue]
                              /\ \A b \in Actor : ProcOf[b] = p => op'[b] = Idle
    BY <1>1, NotSaving
  <2>2. CASE UNCHANGED pending /\ \A b \in Actor : op[b].pc \in SavePcs => op'[b] = op[b]
    <3>1. /\ \A b \in Actor : At(b, "save") => At(b, "save")'
          /\ \A b \in Actor : Saving(b) => Saving(b)' /\ op'[b] = op[b]
          /\ \A b \in Actor : Saving(b)' => op'[b] = op[b]
      BY <2>1, <2>2 DEF At, Saving, SavePcs
    <3>2. QueueDurable'
      BY <2>1, <2>2, <3>1 DEF QueueDurable, Queued, files
    <3>3. DumpsFresh'
      BY <2>2, <3>1 DEF DumpsFresh, DumpFresh, At, Saving
    <3> QED
      BY <3>2, <3>3
  <2>3. ASSUME NEW p \in Proc, pending' = [pending EXCEPT ![p] = file.queue],
               \A b \in Actor : ProcOf[b] = p => op'[b] = Idle
        PROVE  QueueDurable' /\ DumpsFresh'
    <3>1. \A q \in Proc : pending'[q] = file'.queue
      BY <2>1, <2>3 DEF files, TypeOK
    <3>2. \A b \in Actor : ~Saving(b)'
      BY <2>3, <1>o, IdleFrame DEF Saving
    <3> QED
      BY <3>1, <3>2 DEF QueueDurable, DumpsFresh, DumpFresh
  <2> QED
    BY <2>1, <2>2, <2>3, <1>s
<1>2. ASSUME NEW a \in Actor, SaveStep(a) PROVE QueueDurable' /\ DumpsFresh'
  <2>s. \A b \in Actor \ {a} : op'[b].pc = op[b].pc
    BY <1>2, SaveFrames DEF SameCall
  <2>u. UNCHANGED pending
    BY <1>2, SaveFiles
  <2>1. CASE Dump(a)
    <3>1. /\ \A b \in Actor \ {a} : ~op'[b].alone
          /\ op'[a].dump = pending[ProcOf[a]]
          /\ op'[a].pc = "open"
      BY <2>1, <1>f DEF Dump, Calls
    <3>2. QueueDurable'
      BY <3>1, <1>o DEF QueueDurable, Queued, Saving
    <3>3. DumpsFresh'
      BY <3>1, <2>u DEF DumpsFresh, DumpFresh
    <3> QED
      BY <3>2, <3>3
  <2>2. CASE SaveRaises(a) /\ At(a, "save")
    BY <2>2, <1>s, <2>s DEF SaveRaises, Overtaken, DiskFails, At
  <2>3. CASE Open(a) \/ Write(a)
    <3>1. /\ op[a].pc \in {"open", "write"} /\ op'[a].pc \in {"write", "rename"}
          /\ op'[a].dump = op[a].dump /\ op'[a].alone = op[a].alone
          /\ \A b \in Actor \ {a} : op'[b] = op[b]
      <4>1. CASE Open(a)
        BY <4>1, <1>f DEF Open, Calls, At
      <4>2. CASE Write(a)
        BY <4>2, <1>f DEF Write, Calls, At
      <4> QED
        BY <2>3, <4>1, <4>2
    <3>2. QueueDurable'
      BY <3>1, <1>o DEF QueueDurable, Queued, Saving
    <3>3. DumpsFresh'
      BY <3>1, <2>u DEF DumpsFresh, DumpFresh, Saving
    <3> QED
      BY <3>2, <3>3
  <2>4. CASE Rename(a)
    <3>1. /\ op[a].pc = "rename" /\ op'[a].pc = "done"
          /\ \A b \in Actor \ {a} : op'[b].alone = op[b].alone /\ op'[b].dump = op[b].dump
      BY <2>4, <1>f DEF Rename, Saved, Calls, At
    <3>2. DumpsFresh'
      BY <3>1, <2>s, <2>u DEF DumpsFresh, DumpFresh, Saving
    <3>3. ASSUME ~mixed', \A b \in Actor : op'[b].pc # "save", NEW p \in Proc
          PROVE  file'.queue = pending'[p]
      <4>1. op[a].alone
        BY <2>4, <3>1, <3>3 DEF Rename, Savers, SaverFrame, Saving
      <4>2. tmp = Dumped(op[a].dump)
        BY <3>1, <4>1 DEF Savers, SaverFrame, Saving, At
      <4>3. op[a].dump = pending[p]
        <5>1. \A b \in Actor : op[b].pc # "save"
          BY <3>1, <3>3, <2>s
        <5> QED
          BY <3>1, <4>1, <5>1, <1>o DEF DumpsFresh, DumpFresh, Saving
      <4> QED
        BY <2>4, <2>u, <4>2, <4>3 DEF Rename, Dumped
    <3> QED
      BY <3>2, <3>3, <1>o DEF QueueDurable, Queued, At
  <2>5. CASE SaveRaises(a) /\ ~At(a, "save")
    <3>1. /\ op[a].pc = "rename" /\ op'[a].pc = "done" /\ tmp = NoFile /\ mixed' = mixed
          /\ \A b \in Actor \ {a} : op'[b] = op[b]
      BY <2>5, <1>f DEF SaveRaises, Overtaken, DiskFails, Saved, Calls, At
    <3>2. mixed
      BY <3>1 DEF Savers, SaverFrame, Saving, At, NoFile, Dumped
    <3>3. DumpsFresh'
      BY <3>1, <2>u DEF DumpsFresh, DumpFresh, Saving
    <3> QED
      BY <3>1, <3>2, <3>3 DEF QueueDurable
  <2> QED
    BY <1>2, <2>1, <2>2, <2>3, <2>4, <2>5 DEF SaveStep
<1> QED
  BY <1>1, <1>2

\* One process owns the queue and the disk works: with no save to come, the file
\* is the queue, if the saves came one after the other since one that ran alone.
\* A call that raised because the queue changed under it, or was cut off by a
\* restart, makes no difference.
THEOREM QueueStaysDurable ==
  ASSUME \A p, q \in Proc : p = q, ~WriteFaults
  PROVE  TrustSpec => []QueueDurable
<1>1. TrustInit => QueueDurable /\ DumpsFresh
  BY IdleFrame DEF TrustInit, QueueDurable, DumpsFresh, DumpFresh, Saving, NoFile
<1>2. TypeOK /\ Savers /\ QueueDurable /\ DumpsFresh /\ [TrustNext]_trustVars
        => QueueDurable' /\ DumpsFresh'
  BY QueueNext
<1>3. TypeOK /\ Savers /\ [TrustNext]_trustVars => Savers'
  BY SaversNext
<1> QED
  BY <1>1, <1>2, <1>3, SaversInit, BaseInit, BaseNext, PTL DEF TrustSpec

----------------------------------------------------------------------------
(* One thread implements the ledger.                                       *)

\* With one actor, a frame about to decide or revoke was filled by the step
\* that put it there: no other step leads to those places.
LEMMA FreshNext ==
  ASSUME \A a, b \in Actor : a = b, TypeOK, Frames, SnapshotsFresh,
         [TrustNext]_trustVars
  PROVE  SnapshotsFresh'
<1> SUFFICES ASSUME NEW a \in Actor, op'[a].pc \in {"decide", "revoke"}
             PROVE  op'[a].pin = pins'[op'[a].name]
  BY DEF SnapshotsFresh
<1>1. CASE UNCHANGED trustVars
  BY <1>1 DEF trustVars, SnapshotsFresh
<1>2. ASSUME NEW c \in Cards, Evaluate(a, c)
      PROVE  op'[a].pin = pins'[op'[a].name]
  BY <1>2 DEF Evaluate, Idle, TypeOK
<1>3. ASSUME NEW c \in Cards, Approve(a, c) \/ RefuseApproval(a, c) PROVE FALSE
  <2>1. Approve(a, c) => op'[a].pc = "unpark"
    BY DEF Approve, Idle, TypeOK
  <2>2. RefuseApproval(a, c) => op'[a].pc = "done"
    BY DEF RefuseApproval, Idle, TypeOK
  <2> QED
    BY <1>3, <2>1, <2>2
<1>4. ASSUME NEW g \in Glyph, Revoke(a, g)
      PROVE  op'[a].pin = pins'[op'[a].name]
  BY <1>4 DEF Revoke, Idle, TypeOK
<1>5. ASSUME Continue(a) PROVE FALSE
  <2>1. ASSUME NEW pc \in {"unpark", "save", "done"}, NEW status, Goto(a, pc, status)
        PROVE  FALSE
    BY <2>1 DEF Goto, TypeOK, Calls
  <2>2. ASSUME SaveStep(a) PROVE FALSE
    BY <2>2, SaveFrames DEF SaveMoves
  <2> QED
    BY <1>5, <2>1, <2>2 DEF Continue, SaveStep, TofuPin, Refuse, MatchPin, Park,
                            AutoRepin, RevokePut, Unpark
<1>6. ASSUME Return(a) PROVE FALSE
  BY <1>6 DEF Return, Idle, TypeOK
<1>7. ASSUME NEW p \in Proc, Restart(p) PROVE op'[a].pin = pins'[op'[a].name]
  BY <1>7 DEF Restart, Idle, SnapshotsFresh
<1> QED
  BY <1>1, <1>2, <1>3, <1>4, <1>5, <1>6, <1>7 DEF TrustNext

\* The ledger's own copies of the card operators are these.
LEMMA LedgerOperators ==
  /\ \A c : Ledger!PinOf(c) = PinOf(c) /\ (Ledger!TofuAllows(c) <=> TofuAllows(c))
  /\ \A c, d : Ledger!SameContract(c, d) <=> SameContract(c, d)
BY DEF Ledger!PinOf, PinOf, Ledger!TofuAllows, TofuAllows, Ledger!RiskRank, RiskRank,
       Ledger!RISK_ORDER, RISK_ORDER, Ledger!SameContract, SameContract,
       Ledger!RequiresApproval, RequiresApproval, Ledger!Changes, Changes,
       Ledger!FIELD_SEVERITY, FIELD_SEVERITY

\* With one actor, an operator's command is in effect when its frame says so.
LEMMA OneFrame ==
  ASSUME \A a, b \in Actor : a = b, NEW a \in Actor
  PROVE  /\ OperatorActed <=> CommandInEffect(op[a])
         /\ OperatorActed' <=> CommandInEffect(op'[a])
BY DEF OperatorActed, CommandInEffect

\* What a call moved on to pc means for the operator's command.
LEMMA GotoActed ==
  ASSUME \A a, b \in Actor : a = b, TypeOK, NEW a \in Actor, NEW pc, NEW status,
         Goto(a, pc, status)
  PROVE  OperatorActed' <=>
           /\ pc \in {"unpark", "save", "open", "write", "rename", "done"}
           /\ \/ status = "approved"
              \/ status = "revoked" /\ op[a].card = NoCard
<1>1. op'[a].pc = pc /\ op'[a].status = status /\ op'[a].card = op[a].card
  BY DEF Goto, TypeOK, Calls
<1> QED
  BY <1>1, OneFrame DEF CommandInEffect

\* The steps that write no pin: the command stays in effect, or ends.
LEMMA LedgerQuiet ==
  ASSUME UNCHANGED pins, OperatorActed' => OperatorActed
  PROVE  [Ledger!LedgerNext]_<<pins, OperatorActed>>
<1>1. OperatorActed \in BOOLEAN /\ OperatorActed' \in BOOLEAN
  BY DEF OperatorActed
<1> QED
  BY <1>1 DEF Ledger!LedgerNext, Ledger!CommandEnds

LEMMA LedgerStep ==
  ASSUME \A a, b \in Actor : a = b, IInv, SnapshotsFresh, [TrustNext]_trustVars
  PROVE  [Ledger!LedgerNext]_<<pins, OperatorActed>>
<1> DEFINE Quiet == UNCHANGED pins /\ (OperatorActed' => OperatorActed)
<1>a. TypeOK /\ Frames
  BY DEF IInv
<1>b. OperatorActed \in BOOLEAN /\ OperatorActed' \in BOOLEAN
  BY DEF OperatorActed
<1>1. ASSUME NEW a \in Actor, NEW c \in Cards, Approve(a, c)
      PROVE  Ledger!LedgerNext
  <2>1. OperatorActed = FALSE /\ OperatorActed' = TRUE
    BY <1>1, <1>a, <1>b, OneFrame
    DEF Approve, At, Idle, TypeOK, Calls, CommandInEffect
  <2>2. Ledger!ApproveCard(c)
    BY <1>1, <2>1, LedgerOperators DEF Approve, Put, Ledger!ApproveCard
  <2> QED
    BY <2>2 DEF Ledger!LedgerNext
<1>2. ASSUME NEW a \in Actor, TofuPin(a) PROVE Ledger!LedgerNext
  <2> DEFINE c == op[a].card
  <2>1. c \in Cards /\ c.signed /\ TofuAllows(c) /\ pins[c.name] = NoPin
    BY <1>2 DEF TofuPin, Deciding, Verdict, IInv, Frames, SnapshotsFresh, At
  <2>2. OperatorActed' = OperatorActed
    BY <1>2, <1>a, <1>b, OneFrame, GotoActed
    DEF TofuPin, Deciding, At, CommandInEffect
  <2>3. Ledger!FirstUse(c)
    BY <1>2, <2>1, <2>2, LedgerOperators DEF TofuPin, Put, Ledger!FirstUse
  <2> QED
    BY <2>1, <2>3 DEF Ledger!LedgerNext
<1>3. ASSUME NEW a \in Actor, AutoRepin(a) PROVE Ledger!LedgerNext
  <2> DEFINE c == op[a].card
             pin == pins[c.name]
  <2>1. c \in Cards /\ c.signed /\ pin = op[a].pin /\ c.name \in Glyph
    BY <1>3 DEF AutoRepin, Deciding, IInv, Frames, SnapshotsFresh, At
  <2>2. /\ pin # NoPin /\ ~pin.revoked /\ ~RequiresApproval(pin.card, c)
        /\ AutoRepinReview
    BY <1>3, <2>1 DEF AutoRepin, Deciding, Verdict
  <2>3. SameContract(pin.card, c)
    BY <2>1, <2>2 DEF IInv, PinsEndorsed, SameContract
  <2>4. OperatorActed' = OperatorActed
    BY <1>3, <1>a, <1>b, OneFrame, GotoActed
    DEF AutoRepin, Deciding, At, CommandInEffect
  <2>5. Ledger!FollowReview(c)
    BY <1>3, <2>1, <2>2, <2>3, <2>4, LedgerOperators
    DEF AutoRepin, Put, Ledger!FollowReview
  <2> QED
    BY <2>1, <2>5 DEF Ledger!LedgerNext
<1>4. ASSUME NEW a \in Actor, RevokePut(a) PROVE Ledger!LedgerNext
  <2> DEFINE g == op[a].name
  <2>1. /\ g \in Glyph /\ pins[g] = op[a].pin /\ pins[g] # NoPin
        /\ op[a].card = NoCard
    BY <1>4 DEF RevokePut, IInv, Frames, SnapshotsFresh, At
  <2>2. OperatorActed = FALSE /\ OperatorActed' = TRUE
    BY <1>4, <1>a, <1>b, <2>1, OneFrame, GotoActed
    DEF RevokePut, At, CommandInEffect
  <2>3. Ledger!RevokePin(g)
    BY <1>4, <2>1, <2>2 DEF RevokePut, Ledger!RevokePin
  <2> QED
    BY <2>1, <2>3 DEF Ledger!LedgerNext
<1>5. ASSUME NEW a \in Actor, NEW c \in Cards, Evaluate(a, c) \/ RefuseApproval(a, c)
      PROVE  Quiet
  <2>1. op'[a].pc = "decide" \/ op'[a].status \in {"invalid", "refused"}
    <3>1. CASE Evaluate(a, c)
      <4>1. CASE c.signed
        BY <3>1, <4>1, <1>a DEF Evaluate, Idle, TypeOK
      <4>2. CASE ~c.signed
        BY <3>1, <4>2, <1>a DEF Evaluate, Idle, TypeOK
      <4> QED
        BY <4>1, <4>2
    <3>2. CASE RefuseApproval(a, c)
      BY <3>2, <1>a DEF RefuseApproval, Idle, TypeOK
    <3> QED
      BY <1>5, <3>1, <3>2
  <2> QED
    BY <1>5, <2>1, OneFrame DEF Evaluate, RefuseApproval, CommandInEffect
<1>6. ASSUME NEW a \in Actor, NEW g \in Glyph, Revoke(a, g) PROVE Quiet
  <2>1. op'[a].pc = "revoke" \/ op'[a].status = "missing"
    BY <1>6, <1>a DEF Revoke, Idle, TypeOK
  <2> QED
    BY <1>6, <2>1, OneFrame DEF Revoke, CommandInEffect
<1>7. ASSUME NEW a \in Actor, Refuse(a) PROVE Quiet
  <2>1. op[a].card # NoCard
    BY <1>7, <1>a, CardsAssumption DEF Refuse, Deciding, Frames, At
  <2>2. ~OperatorActed'
    BY <1>7, <1>a, <2>1, GotoActed DEF Refuse
  <2> QED
    BY <1>7, <2>2 DEF Refuse
<1>8. ASSUME NEW a \in Actor, MatchPin(a) \/ Park(a) PROVE Quiet
  BY <1>8, <1>a, GotoActed DEF MatchPin, Park
<1>9. ASSUME NEW a \in Actor, Unpark(a) PROVE Quiet
  <2>1. OperatorActed' => OperatorActed
    BY <1>9, <1>a, OneFrame, GotoActed DEF Unpark, At, CommandInEffect
  <2> QED
    BY <1>9, <2>1 DEF Unpark
<1>13. ASSUME NEW a \in Actor, SaveStep(a) PROVE Quiet
  <2>1. SaveMoves(op[a], op'[a])
    BY <1>13, <1>a, SaveFrames
  <2>2. CommandInEffect(op'[a]) => CommandInEffect(op[a])
    BY <2>1 DEF SaveMoves, SavePcs, CommandInEffect
  <2> QED
    BY <1>13, <1>a, <2>2, OneFrame, SaveFiles
<1>10. ASSUME NEW a \in Actor, Return(a) PROVE Quiet
  <2>1. op'[a].pc = "idle"
    BY <1>10, <1>a, IdleFrame DEF Return, TypeOK
  <2> QED
    BY <1>10, <2>1, OneFrame DEF Return, CommandInEffect
<1>11. ASSUME NEW p \in Proc, Restart(p) PROVE Quiet
  <2>1. \A a \in Actor : op'[a].pc = "idle" \/ op'[a] = op[a]
    BY <1>11, IdleFrame DEF Restart
  <2> QED
    BY <1>11, <2>1 DEF Restart, OperatorActed, CommandInEffect
<1>12. CASE UNCHANGED trustVars
  <2>1. Quiet
    BY <1>12 DEF trustVars, OperatorActed
  <2> QED
    BY <2>1, LedgerQuiet
<1> QED
  BY <1>1, <1>2, <1>3, <1>4, <1>5, <1>6, <1>7, <1>8, <1>9, <1>10, <1>11, <1>12,
     <1>13, LedgerQuiet
  DEF TrustNext, Continue, SaveStep

\* Called by one thread, TrustManager implements TrustLedger: across errors
\* and restarts too, a pin changes only by a first use TOFU allows, across a
\* review change of an unrevoked pin, or by the one write of an approve or
\* revoke command.
THEOREM OneThreadImplementsLedger ==
  ASSUME \A a, b \in Actor : a = b
  PROVE  TrustSpec => ImplementsLedger
<1>1. TrustInit => Ledger!LedgerInit /\ SnapshotsFresh
  <2>1. TrustInit => Ledger!LedgerInit
    BY IdleFrame DEF TrustInit, Ledger!LedgerInit, OperatorActed, CommandInEffect
  <2>2. TrustInit => SnapshotsFresh
    BY IdleFrame DEF TrustInit, SnapshotsFresh
  <2> QED
    BY <2>1, <2>2
<1>2. IInv /\ SnapshotsFresh /\ [TrustNext]_trustVars 
        => [Ledger!LedgerNext]_<<pins, OperatorActed>>
  BY LedgerStep
<1>3. TypeOK /\ Frames /\ SnapshotsFresh /\ [TrustNext]_trustVars => SnapshotsFresh'
  BY FreshNext
<1> QED
  BY <1>1, <1>2, <1>3, BaseInit, BaseNext, EndorsedInit, EndorsedNext, PTL
  DEF TrustSpec, IInv, ImplementsLedger, Ledger!LedgerSpec

----------------------------------------------------------------------------
(* The bridge's inductive invariant.                                       *)

\* The trust decision a sync waits for is about the glyph it fetched.
SyncFrame ==
  /\ \A g \in Glyph : server[g] # NoCard => server[g].name = g
  /\ sync.pc # "idle" => Len(heap) <= MaxSync
  /\ sync.pc # "evaluate" => op[Syncer] = Idle
  /\ sync.pc = "evaluate" =>
       /\ sync.glyph \in Glyph
       /\ op[Syncer].card \in Cards /\ op[Syncer].card.name = sync.glyph
       /\ \/ op[Syncer].pc = "decide"
          \/ op[Syncer].pc \in SavePcs /\ op[Syncer].status \in {"pinned", "changed"}
          \/ /\ op[Syncer].pc = "done"
             /\ op[Syncer].status \in
                  {"pinned", "new", "revoked", "changed", "invalid", "raised"}

\* What the sync under way is going to publish.
DictEndorsed ==
  \A g \in Glyph : sync.dict[g] # NoBinding /\ sync.dict[g].blocked = NoCode
    => Endorsed(sync.dict[g].card)

HasBinding(ref, g) ==
  g \in Glyph /\ ref \in 1..Len(heap) /\ heap[ref][g] # NoBinding

\* A command that has begun keeps a binding; from the approval on, the card it
\* approved; and once it has put that card into the binding, the binding holds
\* an endorsed card, its own or that of another command.
CommandFrame(o) ==
  /\ cmd[o].pc \in {"new", "pick"} => cmd[o].card = NoCard
  /\ cmd[o].pc \notin {"new", "done"} => HasBinding(cmd[o].ref, cmd[o].glyph)
  /\ cmd[o].pc \in {"approve", "approving", "bind", "unblock", "gate"}
       => cmd[o].card \in Cards
  /\ cmd[o].pc \in {"bind", "unblock", "gate"} => Endorsed(cmd[o].card)
  /\ cmd[o].pc \in {"unblock", "gate"}
       => Endorsed(heap[cmd[o].ref][cmd[o].glyph].card)

\* The part of the trust manager in a command: an approval that succeeds is
\* that of the command's card, a revocation that succeeds never looks like one.
CommandCall(o) ==
  /\ cmd[o].pc \notin {"approving", "revoking"} => op[o] = Idle
  /\ cmd[o].pc = "approving" =>
       \/ /\ op[o].pc \in SavePcs \union {"unpark", "done"}
          /\ op[o].status = "approved" /\ Endorsed(cmd[o].card)
       \/ op[o].pc = "done" /\ op[o].status \in {"refused", "raised"}
  /\ cmd[o].pc = "revoking" =>
       \/ op[o].pc = "revoke"
       \/ op[o].pc \in SavePcs \union {"unpark", "done"} /\ op[o].status = "revoked"
       \/ op[o].pc = "done" /\ op[o].status \in {"missing", "raised"}

\* A call keeps the binding it looked up, past the gate one with an endorsed
\* card; only a call the user said yes to holds a token.
CallFrame(h) ==
  /\ call[h].pc = "new" => h \notin tickets
  /\ call[h].pc \notin {"new", "returned"} => HasBinding(call[h].ref, call[h].glyph)
  /\ call[h].pc \notin {"new", "gate", "returned"} => Endorsed(BindingOf(h).card)
  /\ call[h].pc = "prepare" \/ h \in tickets => call[h].confirmed
  /\ call[h].pc = "seal" => call[h].ran \in Cards
  /\ call[h].result = "released" => call[h].pc = "returned"

BridgeInv ==
  /\ IInv /\ BridgeTypeOK
  /\ SyncFrame /\ DictEndorsed /\ CallableEndorsed
  /\ \A o \in Command : CommandFrame(o) /\ CommandCall(o)
  /\ \A h \in Call : CallFrame(h)

----------------------------------------------------------------------------
(* The bridge takes the trust manager's steps, or none.                    *)

LEMMA Actors == Syncer \in Actor /\ \A o \in Command : o \in Actor /\ o # Syncer
BY BridgeAssumption

LEMMA ManagerStep == BridgeInv /\ [BridgeNext]_vars => [TrustNext]_trustVars
<1> SUFFICES ASSUME BridgeInv, [BridgeNext]_vars PROVE [TrustNext]_trustVars
  OBVIOUS
<1> USE Actors
<1>1. ASSUME FetchCard PROVE TrustNext
  <2>1. PICK g \in sync.todo : server[g] # NoCard /\ Evaluate(Syncer, server[g])
    BY <1>1 DEF FetchCard
  <2>2. server[g] \in Cards
    BY <2>1 DEF BridgeInv, BridgeTypeOK
  <2> QED
    BY <2>1, <2>2 DEF TrustNext
<1>2. ASSUME Bind \/ SyncAborts PROVE TrustNext
  BY <1>2 DEF Bind, SyncAborts, TrustNext
<1>3. ASSUME NEW a \in Actor, TrustStep(a) PROVE TrustNext
  BY <1>3 DEF TrustStep, TrustNext
<1>4. ASSUME NEW o \in Command, TrustApprove(o) PROVE TrustNext
  <2>1. cmd[o].card \in Cards
    BY <1>4 DEF TrustApprove, BridgeInv, CommandFrame
  <2> QED
    BY <1>4, <2>1 DEF TrustApprove, TrustNext
<1>5. ASSUME NEW o \in Command, TrustReturns(o) PROVE TrustNext
  BY <1>5 DEF TrustReturns, TrustNext
<1>6. ASSUME NEW o \in Command, NEW g \in Glyph, RevokeTool(o, g) PROVE TrustNext
  BY <1>6 DEF RevokeTool, TrustNext
<1>7. ASSUME Handshake \/ FetchFails \/ Publish PROVE UNCHANGED trustVars
  BY <1>7 DEF Handshake, FetchFails, Publish
<1>8. ASSUME NEW o \in Command,
             \/ PickCard(o) \/ BindCard(o) \/ Unblock(o) \/ GateAttestation(o)
             \/ BlockRevoked(o) \/ \E g \in Glyph : TrustTool(o, g)
      PROVE  UNCHANGED trustVars
  BY <1>8 DEF PickCard, BindCard, Unblock, GateAttestation, BlockRevoked, TrustTool
<1>9. ASSUME NEW h \in Call,
             CallStep(h) \/ Expire(h) \/ \E g \in Glyph : Lookup(h, g)
      PROVE  UNCHANGED trustVars
  BY <1>9 DEF CallStep, Expire, Lookup, Gate, Ask, Confirm, Prepare, PrepareFails,
              Execute, SendFails, Seal, SealRaises, Step, Answer
<1>10. ASSUME NEW g \in Glyph, NEW c \in Cards \union {NoCard}, Deploy(g, c)
       PROVE  UNCHANGED trustVars
  BY <1>10 DEF Deploy
<1>11. CASE UNCHANGED vars
  BY <1>11 DEF vars
<1> QED
  BY <1>1, <1>2, <1>3, <1>4, <1>5, <1>6, <1>7, <1>8, <1>9, <1>10, <1>11
  DEF BridgeNext, SyncStep, CommandStep

LEMMA ManagerInv == BridgeInv /\ [BridgeNext]_vars => IInv'
<1> SUFFICES ASSUME BridgeInv, [BridgeNext]_vars PROVE IInv'
  OBVIOUS
<1>1. IInv /\ [TrustNext]_trustVars
  BY ManagerStep DEF BridgeInv
<1> QED
  BY <1>1, BaseNext, EndorsedNext DEF IInv

\* What is endorsed stays so.
LEMMA EndorsedKept ==
  ASSUME BridgeInv, [BridgeNext]_vars, NEW c, Endorsed(c)
  PROVE  Endorsed(c)'
BY ManagerStep, HistoryGrows, EndorsedStays

\* Where a step of the trust manager takes a call.
LEMMA ContinueFrame ==
  ASSUME TypeOK, Frames, NEW a \in Actor, Continue(a)
  PROVE  /\ op'[a].card = op[a].card /\ op'[a].name = op[a].name
         /\ \A b \in Actor \ {a} : SameCall(op'[b], op[b])
         /\ \/ /\ op[a].pc = "decide"
               /\ \/ op'[a].pc = "save" /\ op'[a].status \in {"pinned", "changed"}
                  \/ op'[a].pc = "done" /\ op'[a].status \in {"pinned", "new", "revoked"}
            \/ op[a].pc = "revoke" /\ op'[a].pc = "unpark" /\ op'[a].status = "revoked"
            \/ op[a].pc = "unpark" /\ op'[a].pc = "save" /\ op'[a].status = op[a].status
            \/ SaveMoves(op[a], op'[a])
<1>g. ASSUME NEW pc, NEW status, Goto(a, pc, status)
      PROVE  /\ op'[a].pc = pc /\ op'[a].status = status
             /\ op'[a].card = op[a].card /\ op'[a].name = op[a].name
             /\ \A b \in Actor \ {a} : SameCall(op'[b], op[b])
  BY <1>g DEF Goto, TypeOK, Calls, SameCall
<1>1. CASE TofuPin(a) \/ AutoRepin(a) \/ Refuse(a)
  BY <1>1, <1>g DEF TofuPin, AutoRepin, Refuse, Deciding, At
<1>2. CASE MatchPin(a) \/ Park(a)
  BY <1>2, <1>g DEF MatchPin, Park, Deciding, At
<1>3. CASE RevokePut(a) \/ Unpark(a)
  BY <1>3, <1>g DEF RevokePut, Unpark, At
<1>4. CASE SaveStep(a)
  BY <1>4, SaveFrames DEF SaveMoves
<1> QED
  BY <1>1, <1>2, <1>3, <1>4 DEF Continue, SaveStep

----------------------------------------------------------------------------
(* The dicts: bindings are replaced and mutated, never taken back.         *)

LEMMA CodesBlock == \A c \in Cards : AttestationCode(c) \in Codes \union {GateRaised}
<1> SUFFICES ASSUME NEW c \in Cards
             PROVE  AttestationCode(c) \in Codes \union {GateRaised}
  OBVIOUS
<1> DEFINE m == [none |-> "ATTESTATION_REQUIRED",
                 untrusted |-> "ATTESTATION_UNTRUSTED", trusted |-> "",
                 malformed |-> GateRaised]
<1>1. c.att = "none" \/ c.att = "untrusted" \/ c.att = "trusted" \/ c.att = "malformed"
  BY CardsAssumption DEF Card
<1>2. /\ m["none"] = "ATTESTATION_REQUIRED" /\ m["trusted"] = ""
      /\ m["untrusted"] = "ATTESTATION_UNTRUSTED" /\ m["malformed"] = GateRaised
  OBVIOUS
<1>3. AttestationCode(c) = "" \/ AttestationCode(c) = m[c.att]
  BY DEF AttestationCode
<1> HIDE DEF m
<1> QED
  BY <1>1, <1>2, <1>3 DEF Codes, NoCode

\* One binding of one dict changes.
Mutates(i, g, b) ==
  /\ heap' \in Seq(Dict) /\ Len(heap') = Len(heap)
  /\ heap'[i][g] = b
  /\ \A j \in 1..Len(heap), k \in Glyph :
       j # i \/ k # g => heap'[j][k] = heap[j][k]

LEMMA SetBinding ==
  ASSUME heap \in Seq(Dict), NEW i \in 1..Len(heap), NEW g \in Glyph,
         NEW b \in Binding, heap' = [heap EXCEPT ![i][g] = b]
  PROVE  Mutates(i, g, b)
<1> DEFINE d == [heap[i] EXCEPT ![g] = b]
<1>1. heap[i] \in Dict
  BY ElementOfSeq
<1>2. d \in Dict /\ d[g] = b /\ \A k \in Glyph \ {g} : d[k] = heap[i][k]
  BY <1>1 DEF Dict
<1>3. heap' = [heap EXCEPT ![i] = d]
  OBVIOUS
<1> QED
  BY <1>2, <1>3, ExceptSeq DEF Mutates

\* How the dicts change in a step.
BindingsKept ==
  /\ heap' \in Seq(Dict) /\ Len(heap) <= Len(heap')
  /\ \A i \in 1..Len(heap), g \in Glyph : heap[i][g] # NoBinding =>
       /\ heap'[i][g] # NoBinding
       /\ Endorsed(heap[i][g].card) => Endorsed(heap[i][g].card)'

\* A mutation is harmless when it keeps or brings in an endorsed card and, if it
\* unblocks, the card is endorsed.
LEMMA MutationKeeps ==
  ASSUME BridgeInv, [BridgeNext]_vars,
         NEW i \in 1..Len(heap), NEW g \in Glyph,
         NEW b \in Binding, Mutates(i, g, b),
         b.card = heap[i][g].card \/ Endorsed(b.card),
         b.blocked = NoCode => Endorsed(b.card)
  PROVE  BindingsKept /\ CallableEndorsed' /\ Len(heap') = Len(heap)
<1>1. /\ heap \in Seq(Dict) /\ g \in Glyph /\ i \in 1..Len(heap)
      /\ CallableEndorsed
  BY DEF BridgeInv, BridgeTypeOK, HasBinding
<1>2. /\ heap' \in Seq(Dict) /\ Len(heap') = Len(heap)
      /\ heap'[i][g] = b
      /\ \A j \in 1..Len(heap), k \in Glyph :
           j # i \/ k # g => heap'[j][k] = heap[j][k]
  BY DEF Mutates
<1>3. \A c : Endorsed(c) => Endorsed(c)'
  BY EndorsedKept
<1>4. b # NoBinding
  BY BridgeAssumption
<1>5. ASSUME NEW j \in 1..Len(heap), NEW k \in Glyph, heap[j][k] # NoBinding,
             Endorsed(heap[j][k].card)
      PROVE  Endorsed(heap[j][k].card)'
  <2>1. CASE j = i /\ k = g
    <3>1. \A c : c = b.card => Endorsed(c)'
      BY <1>3, <1>5, <2>1
    <3> QED
      BY <3>1, <2>1, <1>2 DEF Endorsed
  <2>2. CASE j # i \/ k # g
    <3>1. \A c : c = heap[j][k].card => Endorsed(c)'
      BY <1>3, <1>5
    <3> QED
      BY <3>1, <2>2, <1>2 DEF Endorsed
  <2> QED
    BY <2>1, <2>2
<1>6. BindingsKept
  <2>1. \A j \in 1..Len(heap), k \in Glyph :
          heap[j][k] # NoBinding => heap'[j][k] # NoBinding
    BY <1>2, <1>4
  <2>2. Len(heap) <= Len(heap')
    BY <1>1, LenProperties DEF Mutates
  <2> QED
    BY <1>2, <1>5, <2>1, <2>2, Zenon DEF BindingsKept
<1>7. ASSUME NEW j \in 1..Len(heap), NEW k \in Glyph, heap'[j][k] # NoBinding,
             heap'[j][k].blocked = NoCode
      PROVE  Endorsed(heap[j][k].card)'
  <2>1. CASE j = i /\ k = g
    <3>1. \A c : c = b.card => Endorsed(c)'
      BY <1>2, <1>3, <1>7, <2>1
    <3> QED
      BY <3>1, <2>1, <1>2 DEF Endorsed
  <2>2. CASE j # i \/ k # g
    <3>1. \A c : c = heap[j][k].card => Endorsed(c)'
      BY <1>1, <1>2, <1>3, <1>7, <2>2 DEF CallableEndorsed
    <3> QED
      BY <3>1, <2>2, <1>2 DEF Endorsed
  <2> QED
    BY <2>1, <2>2
<1>8. CallableEndorsed'
  BY <1>2, <1>7 DEF CallableEndorsed, Endorsed
<1> QED
  BY <1>2, <1>6, <1>8
LEMMA HeapTyped ==
  ASSUME BridgeInv
  PROVE  /\ heap \in Seq(Dict) /\ Len(heap) \in 1..MaxSync + 1 /\ Len(heap) \in Nat
         /\ Bindings \in Dict
         /\ \A i \in 1..Len(heap), g \in Glyph :
              heap[i][g] \in Binding \union {NoBinding}
<1>1. heap \in Seq(Dict) /\ Len(heap) \in 1..MaxSync + 1
  BY DEF BridgeInv, BridgeTypeOK
<1>2. Len(heap) \in Nat /\ Len(heap) \in 1..Len(heap)
  BY <1>1, LenProperties
<1>3. \A i \in 1..Len(heap) : heap[i] \in Dict
  BY <1>1, ElementOfSeq
<1>4. Bindings \in Dict
  BY <1>2, <1>3 DEF Bindings
<1> QED
  BY <1>1, <1>2, <1>3, <1>4 DEF Dict

\* An assignment of a command to its binding.
LEMMA CommandKeeps ==
  ASSUME BridgeInv, [BridgeNext]_vars, NEW o \in Command,
         HasBinding(cmd[o].ref, cmd[o].glyph), NEW b \in Binding,
         heap' = [heap EXCEPT ![cmd[o].ref][cmd[o].glyph] = b],
         \/ b.card = heap[cmd[o].ref][cmd[o].glyph].card
         \/ Endorsed(b.card),
         b.blocked # NoCode \/ Endorsed(b.card)
  PROVE  BindingsKept /\ CallableEndorsed' /\ Len(heap') = Len(heap)
<1>1. PICK i \in 1..Len(heap), g \in Glyph : i = cmd[o].ref /\ g = cmd[o].glyph
  BY DEF HasBinding
<1>2. heap' = [heap EXCEPT ![i][g] = b]
  BY <1>1
<1>3. heap \in Seq(Dict)
  BY HeapTyped
<1>4. Mutates(i, g, b)
  BY <1>2, <1>3, SetBinding, Zenon
<1>5. b.card = heap[i][g].card \/ Endorsed(b.card)
  BY <1>1, Zenon
<1> QED
  BY <1>4, <1>5, MutationKeeps, Zenon

LEMMA HeapStep ==
  ASSUME BridgeInv, [BridgeNext]_vars
  PROVE  BindingsKept /\ CallableEndorsed' /\ Len(heap') \in 1..MaxSync + 1
<1>h. /\ heap \in Seq(Dict) /\ Len(heap) \in 1..MaxSync + 1 /\ Len(heap) \in Nat
      /\ \A i \in 1..Len(heap), g \in Glyph :
           heap[i][g] \in Binding \union {NoBinding}
  BY HeapTyped
<1>e. \A c : Endorsed(c) => Endorsed(c)'
  BY EndorsedKept
\* An assignment to the binding of a command under way.
<1>m. ASSUME NEW o \in Command, cmd[o].pc \notin {"new", "done"}, NEW b \in Binding,
             heap' = [heap EXCEPT ![cmd[o].ref][cmd[o].glyph] = b],
             \/ b.card = heap[cmd[o].ref][cmd[o].glyph].card
             \/ Endorsed(b.card),
             b.blocked # NoCode \/ Endorsed(b.card)
      PROVE  BindingsKept /\ CallableEndorsed' /\ Len(heap') \in 1..MaxSync + 1
  <2>1. HasBinding(cmd[o].ref, cmd[o].glyph)
    BY <1>m DEF BridgeInv, CommandFrame
  <2>2. BindingsKept /\ CallableEndorsed' /\ Len(heap') = Len(heap)
    BY <1>m, <2>1, CommandKeeps, Zenon
  <2> QED
    BY <1>h, <2>2
<1>b. ASSUME NEW o \in Command, cmd[o].pc \notin {"new", "done"}
      PROVE  heap[cmd[o].ref][cmd[o].glyph] \in Binding
  <2>1. HasBinding(cmd[o].ref, cmd[o].glyph)
    BY <1>b DEF BridgeInv, CommandFrame
  <2> QED
    BY <1>h, <2>1 DEF HasBinding
<1>1. ASSUME UNCHANGED heap
      PROVE  BindingsKept /\ CallableEndorsed' /\ Len(heap') \in 1..MaxSync + 1
  <2>1. \A i \in 1..Len(heap), g \in Glyph :
          Endorsed(heap[i][g].card) => Endorsed(heap[i][g].card)'
    BY <1>1, <1>e DEF Endorsed
  <2>2. BindingsKept
    BY <1>1, <1>h, <2>1 DEF BindingsKept, Endorsed
  <2>3. CallableEndorsed'
    BY <1>1, <2>1 DEF BridgeInv, CallableEndorsed, Endorsed
  <2> QED
    BY <1>1, <1>h, <2>2, <2>3
<1>2. ASSUME Publish
      PROVE  BindingsKept /\ CallableEndorsed' /\ Len(heap') \in 1..MaxSync + 1
  <2>1. /\ sync.dict \in Dict /\ Len(heap) <= MaxSync /\ MaxSync \in Nat
        /\ heap' = Append(heap, sync.dict)
    BY <1>2, BridgeAssumption DEF Publish, BridgeInv, BridgeTypeOK, SyncFrame
  <2>2. /\ heap' \in Seq(Dict) /\ Len(heap') = Len(heap) + 1
        /\ \A i \in 1..Len(heap) : heap'[i] = heap[i]
        /\ heap'[Len(heap) + 1] = sync.dict
    BY <1>h, <2>1, AppendProperties
  <2>3. ASSUME NEW i \in 1..Len(heap), NEW g \in Glyph, Endorsed(heap[i][g].card)
        PROVE  Endorsed(heap[i][g].card)'
    <3>1. \A c : c = heap[i][g].card => Endorsed(c)'
      BY <1>e, <2>3
    <3> QED
      BY <2>2, <3>1 DEF Endorsed
  <2>4. BindingsKept
    BY <1>h, <2>2, <2>3 DEF BindingsKept
  <2>5. ASSUME NEW i \in 1..Len(heap'), NEW g \in Glyph, heap'[i][g] # NoBinding,
               heap'[i][g].blocked = NoCode
        PROVE  Endorsed(heap[i][g].card)'
    <3>1. CASE i \in 1..Len(heap)
      <4>1. Endorsed(heap[i][g].card)
        BY <2>2, <2>5, <3>1 DEF BridgeInv, CallableEndorsed
      <4> QED
        BY <2>3, <3>1, <4>1
    <3>2. CASE i = Len(heap) + 1
      <4>1. Endorsed(sync.dict[g].card)
        BY <2>2, <2>5, <3>2 DEF BridgeInv, DictEndorsed
      <4>2. \A c : c = sync.dict[g].card => Endorsed(c)'
        BY <1>e, <4>1
      <4> QED
        BY <2>2, <3>2, <4>2 DEF Endorsed
    <3> QED
      BY <1>h, <2>2, <3>1, <3>2
  <2>6. CallableEndorsed'
    BY <2>5 DEF CallableEndorsed
  <2> QED
    BY <1>h, <2>1, <2>2, <2>4, <2>6
<1>3. ASSUME NEW o \in Command, BindCard(o)
      PROVE  BindingsKept /\ CallableEndorsed' /\ Len(heap') \in 1..MaxSync + 1
  <2>1. /\ cmd[o].pc \notin {"new", "done"} /\ cmd[o].card \in Cards
        /\ Endorsed(cmd[o].card)
    BY <1>3 DEF BindCard, BridgeInv, CommandFrame
  <2>2. heap[cmd[o].ref][cmd[o].glyph] \in Binding
    BY <1>b, <2>1
  <2>3. PICK b \in Binding :
          b = [heap[cmd[o].ref][cmd[o].glyph] EXCEPT !.card = cmd[o].card]
    BY <2>1, <2>2 DEF Binding
  <2>4. b.card = cmd[o].card
    BY <2>2, <2>3 DEF Binding
  <2>5. heap' = [heap EXCEPT ![cmd[o].ref][cmd[o].glyph] = b]
    BY <1>3, <2>3 DEF BindCard, SetCard
  <2> QED
    BY <1>m, <2>1, <2>4, <2>5, Zenon
<1>4. ASSUME NEW o \in Command, Unblock(o)
      PROVE  BindingsKept /\ CallableEndorsed' /\ Len(heap') \in 1..MaxSync + 1
  <2>1. /\ cmd[o].pc \notin {"new", "done"}
        /\ Endorsed(heap[cmd[o].ref][cmd[o].glyph].card)
    BY <1>4 DEF Unblock, BridgeInv, CommandFrame
  <2>2. heap[cmd[o].ref][cmd[o].glyph] \in Binding
    BY <1>b, <2>1
  <2>3. PICK b \in Binding :
          b = [heap[cmd[o].ref][cmd[o].glyph] EXCEPT !.blocked = NoCode]
    BY <2>2 DEF Binding, Codes
  <2>4. b.card = heap[cmd[o].ref][cmd[o].glyph].card
    BY <2>2, <2>3 DEF Binding
  <2>5. heap' = [heap EXCEPT ![cmd[o].ref][cmd[o].glyph] = b]
    BY <1>4, <2>3 DEF Unblock, SetBlocked
  <2> QED
    BY <1>m, <2>1, <2>4, <2>5, Zenon
<1>5. ASSUME NEW o \in Command, cmd[o].pc \notin {"new", "done"},
             NEW code \in Codes \ {NoCode}, SetBlocked(o, code)
      PROVE  BindingsKept /\ CallableEndorsed' /\ Len(heap') \in 1..MaxSync + 1
  <2>1. heap[cmd[o].ref][cmd[o].glyph] \in Binding
    BY <1>b, <1>5
  <2>2. PICK b \in Binding :
          b = [heap[cmd[o].ref][cmd[o].glyph] EXCEPT !.blocked = code]
    BY <2>1 DEF Binding
  <2>3. b.card = heap[cmd[o].ref][cmd[o].glyph].card /\ b.blocked # NoCode
    BY <2>1, <2>2 DEF Binding
  <2>4. heap' = [heap EXCEPT ![cmd[o].ref][cmd[o].glyph] = b]
    BY <1>5, <2>2 DEF SetBlocked
  <2> QED
    BY <1>m, <1>5, <2>3, <2>4, Zenon
<1>6. ASSUME NEW o \in Command, GateAttestation(o)
      PROVE  BindingsKept /\ CallableEndorsed' /\ Len(heap') \in 1..MaxSync + 1
  <2>1. cmd[o].pc \notin {"new", "done"} /\ cmd[o].card \in Cards
    BY <1>6 DEF GateAttestation, BridgeInv, CommandFrame
  <2>2. CASE UNCHANGED heap
    BY <1>1, <2>2
  <2>3. CASE AttestationCode(cmd[o].card) \notin {NoCode, GateRaised} /\ ~UNCHANGED heap
    <3>1. PICK code \in Codes \ {NoCode} : code = AttestationCode(cmd[o].card)
      BY <2>1, <2>3, CodesBlock
    <3>2. SetBlocked(o, code)
      BY <1>6, <2>3, <3>1 DEF GateAttestation, SetBlocked
    <3> QED
      BY <1>5, <2>1, <3>2
  <2> QED
    BY <1>6, <2>2, <2>3 DEF GateAttestation
<1>7. ASSUME NEW o \in Command, BlockRevoked(o)
      PROVE  BindingsKept /\ CallableEndorsed' /\ Len(heap') \in 1..MaxSync + 1
  <2>1. "CARD_REVOKED" \in Codes \ {NoCode}
    BY Zenon DEF Codes, NoCode
  <2> QED
    BY <1>5, <1>7, <2>1 DEF BlockRevoked
<1>8. ASSUME ~UNCHANGED heap
      PROVE  \/ Publish
             \/ \E o \in Command :
                  BindCard(o) \/ Unblock(o) \/ GateAttestation(o) \/ BlockRevoked(o)
  <2>1. ASSUME NEW o \in Command, NEW g \in Glyph, TrustTool(o, g) \/ RevokeTool(o, g)
        PROVE  FALSE
    BY <1>8, <2>1 DEF TrustTool, RevokeTool
  <2>2. ASSUME NEW o \in Command, PickCard(o) \/ TrustApprove(o) \/ TrustReturns(o)
        PROVE  FALSE
    BY <1>8, <2>2 DEF PickCard, TrustApprove, TrustReturns
  <2>3. ASSUME NEW a \in Actor, TrustStep(a) PROVE FALSE
    BY <1>8, <2>3 DEF TrustStep, bridgeVars
  <2>4. ASSUME Handshake \/ FetchCard \/ FetchFails \/ Bind \/ SyncAborts PROVE FALSE
    BY <1>8, <2>4 DEF Handshake, FetchCard, FetchFails, Bind, SyncAborts
  <2>5. ASSUME NEW h \in Call,
               CallStep(h) \/ Expire(h) \/ \E g \in Glyph : Lookup(h, g)
        PROVE  FALSE
    BY <1>8, <2>5
    DEF CallStep, Expire, Lookup, Gate, Ask, Confirm, Prepare, PrepareFails,
        Execute, SendFails, Seal, SealRaises, Step, Answer
  <2>6. ASSUME NEW g \in Glyph, NEW c \in Cards \union {NoCard}, Deploy(g, c)
        PROVE  FALSE
    BY <1>8, <2>6 DEF Deploy
  <2>7. ~UNCHANGED vars
    BY <1>8 DEF vars, bridgeVars
  <2> QED
    BY <2>1, <2>2, <2>3, <2>4, <2>5, <2>6, <2>7, Actors
    DEF BridgeNext, SyncStep, CommandStep
<1> QED
  BY <1>1, <1>2, <1>3, <1>4, <1>6, <1>7, <1>8

\* Only a sync that publishes adds a dict.
LEMMA HeapSameLength ==
  ASSUME BridgeInv, NEW o \in Command,
         CommandStep(o) \/ \E g \in Glyph : TrustTool(o, g) \/ RevokeTool(o, g)
  PROVE  Len(heap') = Len(heap)
<1>1. heap \in Seq(Dict)
  BY HeapTyped
<1>2. CASE UNCHANGED heap
  BY <1>2
<1>3. CASE ~UNCHANGED heap
  <2>1. \/ SetCard(o, cmd[o].card) \/ SetBlocked(o, NoCode)
        \/ SetBlocked(o, AttestationCode(cmd[o].card)) \/ SetBlocked(o, "CARD_REVOKED")
    BY <1>3 DEF CommandStep, PickCard, TrustApprove, TrustStep, TrustReturns, BindCard,
                Unblock, GateAttestation, BlockRevoked, TrustTool, RevokeTool, bridgeVars
  <2>2. \E d : heap' = [heap EXCEPT ![cmd[o].ref] = d]
    BY <2>1 DEF SetCard, SetBlocked
  <2> QED
    BY <1>1, <2>2
<1> QED
  BY <1>2, <1>3

----------------------------------------------------------------------------
(* A sync under way.                                                       *)

LEMMA BlockedCodes ==
  ASSUME NEW c \in Cards,
         NEW status \in {"pinned", "new", "revoked", "changed", "invalid", "raised"}
  PROVE  /\ BlockedCode(status, c) \in Codes \union {GateRaised}
         /\ BlockedCode(status, c) = NoCode
              => status = "pinned" /\ AttestationCode(c) = NoCode
<1> DEFINE m == [new |-> "TRUST_REQUIRED", changed |-> "CARD_CHANGED",
                 revoked |-> "CARD_REVOKED", invalid |-> "CARD_INVALID",
                 raised |-> GateRaised]
           Refused == {"TRUST_REQUIRED", "CARD_CHANGED", "CARD_REVOKED", "CARD_INVALID",
                       GateRaised}
<1>1. /\ m["new"] = "TRUST_REQUIRED" /\ m["changed"] = "CARD_CHANGED"
      /\ m["revoked"] = "CARD_REVOKED" /\ m["invalid"] = "CARD_INVALID"
      /\ m["raised"] = GateRaised
  OBVIOUS
<1>2. BlockedCode(status, c) = IF status = "pinned" THEN AttestationCode(c) ELSE m[status]
  BY DEF BlockedCode
<1> HIDE DEF m
<1>3. CASE status = "pinned"
  BY <1>2, <1>3, CodesBlock
<1>4. CASE status # "pinned"
  <2>1. m[status] \in Refused
    BY <1>1, <1>4
  <2>2. Refused \subseteq Codes \union {GateRaised} /\ NoCode \notin Refused
    BY Zenon DEF Codes, NoCode, GateRaised
  <2> QED
    BY <1>2, <1>4, <2>1, <2>2
<1> QED
  BY <1>3, <1>4

\* A call of the trust manager, whatever its step, is its actor's alone.
ManagerCall(a) ==
  \/ \E c \in Cards : Evaluate(a, c) \/ Approve(a, c) \/ RefuseApproval(a, c)
  \/ \E g \in Glyph : Revoke(a, g)
  \/ Continue(a) \/ Return(a)

LEMMA OthersKept ==
  ASSUME TypeOK, Frames, NEW a \in Actor, NEW b \in Actor \ {a}, ManagerCall(a)
  PROVE  SameCall(op'[b], op[b])
<1>1. CASE Continue(a)
  BY <1>1, ContinueFrame
<1>2. CASE ~Continue(a)
  BY <1>2 DEF ManagerCall, Evaluate, Approve, RefuseApproval, Revoke, Return, TypeOK,
              SameCall
<1> QED
  BY <1>1, <1>2

SyncTyped ==
  /\ server \in [Glyph -> Cards \union {NoCard}]
  /\ deploys \in 0..MaxDeploy
  /\ sync \in [pc : {"idle", "fetch", "evaluate"}, todo : SUBSET Glyph,
                glyph : Glyph \union {NoGlyph}, dict : Dict]

LEMMA NoSyncTyped ==
  /\ NoSync \in [pc : {"idle", "fetch", "evaluate"}, todo : SUBSET Glyph,
                 glyph : Glyph \union {NoGlyph}, dict : Dict]
  /\ NoSync.pc = "idle" /\ NoSync.dict = Unbound
  /\ \A g \in Glyph : Unbound[g] = NoBinding
BY DEF NoSync, Dict, Unbound

LEMMA SyncNext ==
  ASSUME BridgeInv, [BridgeNext]_vars
  PROVE  (SyncTyped /\ SyncFrame /\ DictEndorsed)'
<1>t. /\ SyncTyped /\ SyncFrame /\ DictEndorsed /\ TypeOK /\ Frames
      /\ \A g \in Glyph : server[g] # NoCard => server[g].name = g /\ server[g] \in Cards
  BY DEF BridgeInv, BridgeTypeOK, IInv, SyncTyped, SyncFrame
<1>e. \A c : Endorsed(c) => Endorsed(c)'
  BY EndorsedKept
<1>h. Len(heap) \in 1..MaxSync + 1 /\ Len(heap') \in 1..MaxSync + 1
  BY HeapTyped, HeapStep
<1>d. sync'.dict = sync.dict => DictEndorsed'
  <2>1. SUFFICES ASSUME sync'.dict = sync.dict, NEW g \in Glyph,
                        sync.dict[g] # NoBinding, sync.dict[g].blocked = NoCode
                 PROVE  Endorsed(sync.dict[g].card)'
    BY <2>1 DEF DictEndorsed
  <2>2. \A c : c = sync.dict[g].card => Endorsed(c)'
    BY <1>t, <1>e, <2>1 DEF DictEndorsed
  <2> QED
    BY <2>1, <2>2 DEF Endorsed
<1>n. sync'.dict = Unbound => DictEndorsed'
  BY NoSyncTyped DEF DictEndorsed
\* The steps of everyone else.
<1>o. ASSUME UNCHANGED <<server, deploys, sync>>, Len(heap') = Len(heap),
             SameCall(op'[Syncer], op[Syncer])
      PROVE  (SyncTyped /\ SyncFrame /\ DictEndorsed)'
  BY <1>o, <1>t, <1>d DEF SyncTyped, SyncFrame, SameCall
<1>s. op' = op => SameCall(op'[Syncer], op[Syncer])
  BY DEF SameCall
<1>1. ASSUME Handshake PROVE (SyncTyped /\ SyncFrame /\ DictEndorsed)'
  <2>1. /\ op'[Syncer] = op[Syncer] /\ op[Syncer] = Idle
        /\ sync' = [NoSync EXCEPT !.pc = "fetch",
                                  !.todo = {g \in Glyph : server[g] # NoCard}]
        /\ UNCHANGED <<server, deploys, heap>> /\ Len(heap) <= MaxSync
    BY <1>1, <1>t DEF Handshake, trustVars, SyncFrame
  <2>2. sync'.pc = "fetch" /\ sync'.dict = Unbound /\ SyncTyped'
    BY <1>t, <2>1, NoSyncTyped DEF SyncTyped
  <2> QED
    BY <1>t, <1>n, <2>1, <2>2 DEF SyncFrame
<1>2. ASSUME FetchCard PROVE (SyncTyped /\ SyncFrame /\ DictEndorsed)'
  <2>1. PICK g \in sync.todo :
          /\ sync.pc = "fetch" /\ server[g] # NoCard /\ Evaluate(Syncer, server[g])
          /\ sync' = [sync EXCEPT !.pc = "evaluate", !.glyph = g]
          /\ UNCHANGED <<server, deploys, heap>>
    BY <1>2 DEF FetchCard
  <2>2. g \in Glyph
    BY <1>t, <2>1 DEF SyncTyped
  <2>3. /\ sync'.pc = "evaluate" /\ sync'.glyph = g /\ sync'.dict = sync.dict
        /\ SyncTyped'
    BY <1>t, <2>1, <2>2 DEF SyncTyped
  <2>4. PICK c \in Cards : c = server[g] /\ c.name = g
    BY <1>t, <2>1, <2>2
  <2>5. /\ op'[Syncer].card = c
        /\ \/ op'[Syncer].pc = "decide"
           \/ op'[Syncer].pc = "done" /\ op'[Syncer].status = "invalid"
    BY <1>t, <2>1, <2>4, Actors DEF Evaluate, Idle, TypeOK
  <2> QED
    BY <1>t, <1>d, <2>1, <2>2, <2>3, <2>4, <2>5 DEF SyncFrame
<1>3. ASSUME FetchFails PROVE (SyncTyped /\ SyncFrame /\ DictEndorsed)'
  <2>1. /\ op'[Syncer] = op[Syncer] /\ UNCHANGED <<server, deploys, heap>>
        /\ \E g \in sync.todo : sync' = [sync EXCEPT !.todo = @ \ {g}]
        /\ sync.pc = "fetch"
    BY <1>3 DEF FetchFails, trustVars
  <2>2. sync'.pc = sync.pc /\ sync'.dict = sync.dict /\ SyncTyped'
    BY <1>t, <2>1 DEF SyncTyped
  <2> QED
    BY <1>t, <1>d, <2>1, <2>2 DEF SyncFrame
<1>4. ASSUME TrustStep(Syncer) PROVE (SyncTyped /\ SyncFrame /\ DictEndorsed)'
  <2>1. Continue(Syncer) /\ UNCHANGED <<server, deploys, heap, sync>>
    BY <1>4 DEF TrustStep, bridgeVars
  <2>2. sync.pc = "evaluate"
    <3>1. op[Syncer].pc # "idle"
      BY <1>t, <2>1, Actors, ContinueFrame DEF SaveMoves, SavePcs
    <3> QED
      BY <1>t, <3>1, IdleFrame DEF SyncFrame
  <2>3. /\ op'[Syncer].card = op[Syncer].card
        /\ \/ /\ op[Syncer].pc = "decide"
              /\ \/ /\ op'[Syncer].pc = "save"
                    /\ op'[Syncer].status \in {"pinned", "changed"}
                 \/ /\ op'[Syncer].pc = "done"
                    /\ op'[Syncer].status \in {"pinned", "new", "revoked"}
           \/ SaveMoves(op[Syncer], op'[Syncer])
    <3>1. op[Syncer].pc \in SavePcs \union {"decide", "done"}
      BY <1>t, <2>2 DEF SyncFrame
    <3> QED
      BY <1>t, <2>1, <3>1, Actors, ContinueFrame DEF SavePcs
  <2> QED
    BY <1>t, <1>d, <2>1, <2>2, <2>3 DEF SyncTyped, SyncFrame, SaveMoves, SavePcs
<1>5. ASSUME Bind PROVE (SyncTyped /\ SyncFrame /\ DictEndorsed)'
  <2> DEFINE status == op[Syncer].status
             g == sync.glyph
  <2>1. /\ sync.pc = "evaluate" /\ op[Syncer].pc = "done"
        /\ BlockedCode(status, op[Syncer].card) # GateRaised
        /\ Return(Syncer) /\ UNCHANGED <<server, deploys, heap>>
    BY <1>5 DEF Bind, At
  <2>2. PICK c \in Cards : c = op[Syncer].card
    BY <1>t, <2>1 DEF SyncFrame
  <2>3. /\ g \in Glyph
        /\ status \in {"pinned", "new", "revoked", "changed", "invalid", "raised"}
    BY <1>t, <2>1 DEF SyncFrame, SavePcs
  <2>4. PICK b \in Binding : b = [card |-> c, blocked |-> BlockedCode(status, c)]
    BY <2>1, <2>2, <2>3, BlockedCodes DEF Binding
  <2>5. sync' = [sync EXCEPT !.pc = "fetch", !.todo = @ \ {g},
                             !.dict[g] = b, !.glyph = NoGlyph]
    BY <1>5, <2>2, <2>4 DEF Bind
  <2>6. b.blocked = NoCode => Endorsed(b.card)
    <3>1. b.card = c /\ b.blocked = BlockedCode(status, c)
      BY <2>4
    <3>2. b.blocked = NoCode => status = "pinned"
      BY <2>2, <2>3, <3>1, BlockedCodes
    <3>3. status = "pinned" => Endorsed(op[Syncer].card)
      BY <2>1, Actors DEF BridgeInv, IInv, AnswersEndorsed
    <3> QED
      BY <2>2, <3>1, <3>2, <3>3
  <2>7. op'[Syncer] = Idle
    BY <1>t, <2>1, Actors DEF Return, TypeOK
  <2>8. /\ sync'.pc = "fetch" /\ SyncTyped' /\ sync'.dict[g] = b
        /\ \A k \in Glyph \ {g} : sync'.dict[k] = sync.dict[k]
    BY <1>t, <2>1, <2>3, <2>5 DEF SyncTyped, Dict
  <2>9. DictEndorsed'
    <3>1. SUFFICES ASSUME NEW k \in Glyph, sync'.dict[k] # NoBinding,
                          sync'.dict[k].blocked = NoCode
                   PROVE  Endorsed(sync.dict[k].card)'
      BY <3>1 DEF DictEndorsed
    <3>2. \A d : d = sync'.dict[k].card => Endorsed(d)'
      BY <1>t, <1>e, <2>6, <2>8, <3>1 DEF DictEndorsed
    <3> QED
      BY <3>2 DEF Endorsed
  <2> QED
    BY <1>t, <2>1, <2>7, <2>8, <2>9 DEF SyncFrame
<1>6. ASSUME SyncAborts \/ Publish PROVE (SyncTyped /\ SyncFrame /\ DictEndorsed)'
  <2>1. op'[Syncer] = Idle
    <3>1. CASE SyncAborts
      BY <1>t, <3>1, Actors DEF SyncAborts, Return, TypeOK
    <3>2. CASE Publish
      BY <1>t, <3>2 DEF Publish, SyncFrame, trustVars
    <3> QED
      BY <1>6, <3>1, <3>2
  <2>2. sync' = NoSync /\ UNCHANGED <<server, deploys>>
    BY <1>6 DEF SyncAborts, Publish
  <2> QED
    BY <1>t, <1>n, <2>1, <2>2, NoSyncTyped DEF SyncTyped, SyncFrame
<1>7. ASSUME NEW o \in Command, CommandStep(o) \/ \E g \in Glyph : TrustTool(o, g)
                                                           \/ RevokeTool(o, g)
      PROVE  (SyncTyped /\ SyncFrame /\ DictEndorsed)'
  <2>1. UNCHANGED <<server, deploys, sync>>
    BY <1>7 DEF CommandStep, PickCard, TrustApprove, TrustStep, TrustReturns, BindCard,
                Unblock, GateAttestation, BlockRevoked, TrustTool, RevokeTool, bridgeVars
  <2>2. UNCHANGED op \/ ManagerCall(o)
    <3>1. CASE TrustApprove(o)
      <4>1. cmd[o].card \in Cards
        BY <3>1 DEF TrustApprove, BridgeInv, CommandFrame
      <4> QED
        BY <3>1, <4>1 DEF TrustApprove, ManagerCall
    <3>2. CASE ~TrustApprove(o)
      BY <1>7, <3>2
      DEF CommandStep, PickCard, TrustStep, TrustReturns, BindCard, Unblock,
          GateAttestation, BlockRevoked, TrustTool, RevokeTool, trustVars, ManagerCall
    <3> QED
      BY <3>1, <3>2
  <2>3. SameCall(op'[Syncer], op[Syncer])
    BY <1>t, <1>s, <2>2, Actors, OthersKept
  <2>4. Len(heap') = Len(heap)
    BY <1>7, HeapSameLength
  <2> QED
    BY <1>o, <2>1, <2>3, <2>4
<1>8. ASSUME NEW h \in Call, CallStep(h) \/ Expire(h) \/ \E g \in Glyph : Lookup(h, g)
      PROVE  (SyncTyped /\ SyncFrame /\ DictEndorsed)'
  <2>1. UNCHANGED <<server, deploys, sync, op, heap>>
    BY <1>8
    DEF CallStep, Expire, Lookup, Gate, Ask, Confirm, Prepare, PrepareFails,
        Execute, SendFails, Seal, SealRaises, Step, Answer, trustVars
  <2> QED
    BY <1>o, <1>s, <2>1
<1>9. ASSUME NEW g \in Glyph, NEW c \in Cards \union {NoCard}, Deploy(g, c)
      PROVE  (SyncTyped /\ SyncFrame /\ DictEndorsed)'
  <2>1. /\ server' = [server EXCEPT ![g] = c]
        /\ c # NoCard => c.name = g
        /\ deploys' = deploys + 1 /\ deploys < MaxDeploy
        /\ UNCHANGED <<op, heap, sync>>
    BY <1>9 DEF Deploy, trustVars
  <2>2. SyncTyped'
    BY <1>t, <2>1, BridgeAssumption DEF SyncTyped
  <2>3. \A k \in Glyph : server'[k] # NoCard => server'[k].name = k
    BY <1>t, <2>1 DEF SyncTyped, SyncFrame
  <2> QED
    BY <1>t, <1>d, <2>1, <2>2, <2>3 DEF SyncFrame
<1>10. CASE UNCHANGED vars
  BY <1>10, <1>o, <1>s DEF vars, trustVars, bridgeVars
<1> QED
  BY <1>1, <1>2, <1>3, <1>4, <1>5, <1>6, <1>7, <1>8, <1>9, <1>10
  DEF BridgeNext, SyncStep

----------------------------------------------------------------------------
(* The commands.                                                           *)

CommandType ==
  [pc : {"new", "pick", "approve", "approving", "revoking", "bind", "unblock",
         "gate", "block", "done"},
   glyph : Glyph \union {NoGlyph}, ref : Nat,
   card : Cards \union {NoCard}, shown : Cards \union {NoCard}, overlapped : BOOLEAN]

CommandTyped == cmd \in [Command -> CommandType]

CommandsRight ==
  CommandTyped /\ \A o \in Command : /\ cmd[o].ref \in 0..Len(heap)
                                     /\ CommandFrame(o) /\ CommandCall(o)

LEMMA NewCommandTyped ==
  NewCommand \in CommandType /\ NewCommand.pc = "new" /\ NewCommand.card = NoCard
BY DEF NewCommand, CommandType

LEMMA HasBindingKept ==
  ASSUME BindingsKept, NEW i, NEW g, HasBinding(i, g), Len(heap) \in Nat,
         Len(heap') \in Nat
  PROVE  HasBinding(i, g)'
<1>1. g \in Glyph /\ i \in 1..Len(heap) /\ heap[i][g] # NoBinding
  BY DEF HasBinding
<1>2. heap'[i][g] # NoBinding
  BY <1>1 DEF BindingsKept
<1>3. Len(heap) <= Len(heap')
  BY DEF BindingsKept
<1> QED
  BY <1>1, <1>2, <1>3 DEF HasBinding

\* A command that does not move, beside whatever the others do.
LEMMA CommandKept ==
  ASSUME BridgeInv, [BridgeNext]_vars, NEW o \in Command, SameCall(op'[o], op[o]),
         cmd'[o].pc = cmd[o].pc, cmd'[o].glyph = cmd[o].glyph,
         cmd'[o].ref = cmd[o].ref, cmd'[o].card = cmd[o].card
  PROVE  CommandFrame(o)' /\ CommandCall(o)' /\ cmd'[o].ref \in 0..Len(heap')
<1>1. /\ CommandFrame(o) /\ CommandCall(o) /\ cmd[o].ref \in 0..Len(heap)
  BY DEF BridgeInv, BridgeTypeOK
<1>2. BindingsKept /\ Len(heap) \in Nat /\ Len(heap') \in Nat
  BY HeapTyped, HeapStep
<1>3. PICK i, g, c : i = cmd[o].ref /\ g = cmd[o].glyph /\ c = cmd[o].card
  OBVIOUS
<1>4. HasBinding(i, g) => HasBinding(i, g)'
  BY <1>2, HasBindingKept
<1>5. Endorsed(c) => Endorsed(c)'
  BY EndorsedKept
<1>6. HasBinding(i, g) /\ Endorsed(heap[i][g].card) => Endorsed(heap[i][g].card)'
  BY <1>2 DEF BindingsKept, HasBinding
<1>7. cmd'[o].ref \in 0..Len(heap')
  BY <1>1, <1>2 DEF BindingsKept
<1>8. CommandCall(o)'
  <2>1. Endorsed(cmd[o].card) => Endorsed(cmd[o].card)'
    BY <1>3, <1>5 DEF Endorsed
  <2> QED
    BY <1>1, <2>1 DEF CommandCall, SameCall
<1>9. CommandFrame(o)'
  <2>1. Endorsed(cmd[o].card) => Endorsed(cmd[o].card)'
    BY <1>3, <1>5 DEF Endorsed
  <2>2. HasBinding(cmd[o].ref, cmd[o].glyph) => HasBinding(cmd[o].ref, cmd[o].glyph)'
    BY <1>3, <1>4 DEF HasBinding
  <2>3. /\ HasBinding(cmd[o].ref, cmd[o].glyph)
        /\ Endorsed(heap[cmd[o].ref][cmd[o].glyph].card)
        => Endorsed(heap[cmd[o].ref][cmd[o].glyph].card)'
    BY <1>3, <1>6 DEF Endorsed
  <2> QED
    BY <1>1, <2>1, <2>2, <2>3 DEF CommandFrame
<1> QED
  BY <1>7, <1>8, <1>9
Own(o) == CommandFrame(o)' /\ CommandCall(o)' /\ cmd'[o].ref \in 0..Len(heap')

\* A step that moves a command's pc.
LEMMA MoveCommand ==
  ASSUME CommandTyped, NEW o \in Command,
         NEW pc \in {"approving", "bind", "unblock", "gate", "block", "done"},
         cmd' = [cmd EXCEPT ![o].pc = pc]
  PROVE  /\ CommandTyped' /\ cmd'[o] = [cmd[o] EXCEPT !.pc = pc]
         /\ cmd'[o].pc = pc /\ cmd'[o].glyph = cmd[o].glyph
         /\ cmd'[o].ref = cmd[o].ref /\ cmd'[o].card = cmd[o].card
         /\ \A p \in Command \ {o} : cmd'[p] = cmd[p]
BY DEF CommandTyped, CommandType

\* What a command keeps across its own steps.
LEMMA OwnKept ==
  ASSUME BridgeInv, [BridgeNext]_vars, NEW o \in Command,
         cmd[o].pc \notin {"new", "done"}, cmd'[o].glyph = cmd[o].glyph,
         cmd'[o].ref = cmd[o].ref, cmd'[o].card = cmd[o].card
  PROVE  /\ HasBinding(cmd[o].ref, cmd[o].glyph)'
         /\ Endorsed(cmd[o].card) => Endorsed(cmd[o].card)'
         /\ Endorsed(heap[cmd[o].ref][cmd[o].glyph].card)
              => Endorsed(heap[cmd[o].ref][cmd[o].glyph].card)'
         /\ cmd'[o].ref \in 0..Len(heap')
<1>1. /\ HasBinding(cmd[o].ref, cmd[o].glyph) /\ cmd[o].ref \in 0..Len(heap)
  BY DEF BridgeInv, BridgeTypeOK, CommandFrame
<1>2. BindingsKept /\ Len(heap) \in Nat /\ Len(heap') \in Nat
  BY HeapTyped, HeapStep
<1>3. PICK i, g, c : i = cmd[o].ref /\ g = cmd[o].glyph /\ c = cmd[o].card
  OBVIOUS
<1>4. HasBinding(i, g)'
  BY <1>1, <1>2, <1>3, HasBindingKept
<1>5. Endorsed(c) => Endorsed(c)'
  BY EndorsedKept
<1>6. Endorsed(heap[i][g].card) => Endorsed(heap[i][g].card)'
  BY <1>1, <1>2, <1>3 DEF BindingsKept, HasBinding
<1>7. cmd'[o].ref \in 0..Len(heap')
  BY <1>1, <1>2 DEF BindingsKept
<1>8. Endorsed(cmd[o].card) => Endorsed(cmd[o].card)'
  BY <1>3, <1>5 DEF Endorsed
<1>9. HasBinding(cmd[o].ref, cmd[o].glyph)'
  BY <1>3, <1>4 DEF HasBinding
<1>10. Endorsed(heap[cmd[o].ref][cmd[o].glyph].card)
         => Endorsed(heap[cmd[o].ref][cmd[o].glyph].card)'
  BY <1>3, <1>6 DEF Endorsed
<1> QED
  BY <1>7, <1>8, <1>9, <1>10

LEMMA StartCommand ==
  ASSUME BridgeInv, NEW o \in Command, NEW g \in Glyph, NEW pc \in {"pick", "revoking"},
         NEW shown \in Cards \union {NoCard}, Start(o, g, pc, shown)
  PROVE  /\ CommandTyped' /\ cmd[o].pc = "new"
         /\ cmd'[o].pc = pc /\ cmd'[o].glyph = g /\ cmd'[o].ref = Len(heap)
         /\ cmd'[o].card = NoCard /\ cmd'[o].shown = shown
         /\ cmd'[o].overlapped = ~AtRest
         /\ HasBinding(Len(heap), g)
         /\ \A p \in Command \ {o} :
              cmd'[p] = [cmd[p] EXCEPT !.overlapped = @ \/ Running(p)]
<1>1. CommandTyped /\ Len(heap) \in 1..Len(heap) /\ Len(heap) \in Nat
  BY HeapTyped DEF BridgeInv, BridgeTypeOK, CommandTyped, CommandType
<1>2. AtRest \in BOOLEAN /\ \A p \in Command : Running(p) \in BOOLEAN
  BY DEF AtRest, Running
<1>3. cmd[o].pc = "new" /\ Bindings[g] # NoBinding
  BY DEF Start
<1>4. PICK f \in CommandType :
        /\ f = [NewCommand EXCEPT !.pc = pc, !.glyph = g, !.ref = Len(heap),
                                  !.shown = shown, !.overlapped = ~AtRest]
        /\ f.pc = pc /\ f.glyph = g /\ f.ref = Len(heap)
        /\ f.card = NoCard /\ f.shown = shown /\ f.overlapped = ~AtRest
  <2>1. [NewCommand EXCEPT !.pc = pc, !.glyph = g, !.ref = Len(heap),
                           !.shown = shown, !.overlapped = ~AtRest] \in CommandType
    BY <1>1, <1>2, NewCommandTyped DEF CommandType
  <2> QED
    BY <2>1, NewCommandTyped DEF CommandType
<1>5. cmd' = [p \in Command |-> IF p = o THEN f
                ELSE [cmd[p] EXCEPT !.overlapped = @ \/ Running(p)]]
  BY <1>4 DEF Start
<1>6. \A p \in Command : [cmd[p] EXCEPT !.overlapped = @ \/ Running(p)] \in CommandType
  BY <1>1, <1>2 DEF CommandTyped, CommandType
<1>7. CommandTyped'
  BY <1>5, <1>6 DEF CommandTyped
<1>8. HasBinding(Len(heap), g)
  BY <1>1, <1>3 DEF HasBinding, Bindings
<1> QED
  BY <1>3, <1>4, <1>5, <1>7, <1>8

\* The card a command binds is in its binding.
LEMMA SetCardIn ==
  ASSUME heap \in Seq(Dict), NEW o \in Command, cmd[o].ref \in 1..Len(heap),
         cmd[o].glyph \in Glyph, heap[cmd[o].ref][cmd[o].glyph] # NoBinding,
         NEW c \in Cards, SetCard(o, c)
  PROVE  heap'[cmd[o].ref][cmd[o].glyph].card = c
<1>1. PICK i \in 1..Len(heap), g \in Glyph :
        i = cmd[o].ref /\ g = cmd[o].glyph /\ heap[i][g] # NoBinding
  OBVIOUS
<1>2. heap[i] \in Dict
  BY ElementOfSeq
<1>3. PICK b \in Binding : b = [heap[i][g] EXCEPT !.card = c] /\ b.card = c
  <2>1. heap[i][g] \in Binding
    BY <1>1, <1>2 DEF Dict
  <2>2. [heap[i][g] EXCEPT !.card = c] \in Binding
    BY <2>1 DEF Binding
  <2>3. [heap[i][g] EXCEPT !.card = c].card = c
    BY <2>1 DEF Binding
  <2> QED
    BY <2>2, <2>3
<1>4. heap' = [heap EXCEPT ![i][g] = b]
  BY <1>1, <1>3 DEF SetCard
<1>5. Mutates(i, g, b)
  BY <1>4, SetBinding, Zenon
<1> QED
  BY <1>1, <1>3, <1>5 DEF Mutates
LEMMA CommandNext ==
  ASSUME BridgeInv, [BridgeNext]_vars
  PROVE  CommandsRight'
<1>t. /\ CommandTyped /\ TypeOK /\ Frames /\ Len(heap) \in Nat
      /\ \A o \in Command : CommandFrame(o) /\ CommandCall(o)
  BY HeapTyped DEF BridgeInv, BridgeTypeOK, IInv, CommandTyped, CommandType
<1>u. op' = op => \A o \in Command : SameCall(op'[o], op[o])
  BY DEF SameCall
\* A step that leaves every command where it is.
<1>k. ASSUME UNCHANGED cmd, \A o \in Command : SameCall(op'[o], op[o])
      PROVE  CommandsRight'
  BY <1>k, <1>t, CommandKept DEF CommandsRight, CommandTyped
\* A step of one command.
<1>s. ASSUME NEW o \in Command, CommandTyped', Own(o),
             \A p \in Command \ {o} :
               \/ cmd'[p] = cmd[p]
               \/ cmd'[p] = [cmd[p] EXCEPT !.overlapped = @ \/ Running(p)],
             \A p \in Command \ {o} : SameCall(op'[p], op[p])
      PROVE  CommandsRight'
  <2>1. ASSUME NEW p \in Command \ {o} PROVE Own(p)
    <3>1. /\ cmd'[p].pc = cmd[p].pc /\ cmd'[p].glyph = cmd[p].glyph
          /\ cmd'[p].ref = cmd[p].ref /\ cmd'[p].card = cmd[p].card
      BY <1>s, <1>t, <2>1 DEF CommandTyped, CommandType
    <3> QED
      BY <1>s, <2>1, <3>1, CommandKept DEF Own
  <2> QED
    BY <1>s, <2>1 DEF CommandsRight, Own
\* A manager call of one command.
<1>o. ASSUME NEW o \in Command, ManagerCall(o) \/ UNCHANGED op
      PROVE  \A p \in Command \ {o} : SameCall(op'[p], op[p])
  BY <1>o, <1>t, <1>u, Actors, OthersKept
<1>1. ASSUME NEW o \in Command, NEW g \in Glyph, TrustTool(o, g) PROVE CommandsRight'
  <2>1. Parked(o, g) \in Cards \union {NoCard}
    BY <1>t, Actors, ActorsAssumption DEF Parked, TypeOK, Queue
  <2>2. PICK shown \in Cards \union {NoCard} : Start(o, g, "pick", shown)
    BY <1>1, <2>1 DEF TrustTool
  <2>3. /\ CommandTyped' /\ cmd[o].pc = "new"
        /\ cmd'[o].pc = "pick" /\ cmd'[o].glyph = g /\ cmd'[o].ref = Len(heap)
        /\ cmd'[o].card = NoCard /\ HasBinding(Len(heap), g)
        /\ \A p \in Command \ {o} :
             cmd'[p] = [cmd[p] EXCEPT !.overlapped = @ \/ Running(p)]
    BY <2>2, StartCommand
  <2>4. UNCHANGED <<op, heap>>
    BY <1>1 DEF TrustTool, trustVars
  <2>5. CommandCall(o)'
    BY <1>t, <2>3, <2>4 DEF CommandCall
  <2>6. CommandFrame(o)' /\ cmd'[o].ref \in 0..Len(heap')
    BY <1>t, <2>3, <2>4 DEF CommandFrame, HasBinding
  <2> QED
    BY <1>s, <1>o, <2>3, <2>4, <2>5, <2>6 DEF Own
<1>2. ASSUME NEW o \in Command, NEW g \in Glyph, RevokeTool(o, g) PROVE CommandsRight'
  <2>1. Start(o, g, "revoking", NoCard) /\ Revoke(o, g) /\ UNCHANGED heap
    BY <1>2 DEF RevokeTool
  <2>3. /\ CommandTyped' /\ cmd[o].pc = "new"
        /\ cmd'[o].pc = "revoking" /\ cmd'[o].glyph = g /\ cmd'[o].ref = Len(heap)
        /\ cmd'[o].card = NoCard /\ HasBinding(Len(heap), g)
        /\ \A p \in Command \ {o} :
             cmd'[p] = [cmd[p] EXCEPT !.overlapped = @ \/ Running(p)]
    BY <2>1, StartCommand
  <2>4. ManagerCall(o)
    BY <2>1 DEF ManagerCall
  <2>5. \/ op'[o].pc = "revoke"
        \/ op'[o].pc = "done" /\ op'[o].status = "missing"
    BY <1>t, <2>1, Actors DEF Revoke, Idle, TypeOK
  <2>6. CommandCall(o)'
    BY <2>3, <2>5 DEF CommandCall
  <2>7. CommandFrame(o)' /\ cmd'[o].ref \in 0..Len(heap')
    BY <1>t, <2>1, <2>3 DEF CommandFrame, HasBinding
  <2> QED
    BY <1>s, <1>o, <2>3, <2>4, <2>6, <2>7 DEF Own
<1>3. ASSUME NEW o \in Command, PickCard(o) PROVE CommandsRight'
  <2> DEFINE g == cmd[o].glyph
  <2>1. /\ cmd[o].pc = "pick" /\ g \in Glyph /\ op[o] = Idle
        /\ cmd[o].ref \in 0..Len(heap)
    BY <1>3, <1>t DEF PickCard, CommandFrame, CommandCall, HasBinding, BridgeInv,
                      BridgeTypeOK
  <2>2. UNCHANGED <<op, heap>>
    BY <1>3 DEF PickCard, trustVars
  <2>3. CASE Bindings[g] = NoBinding
    <3>1. cmd' = [cmd EXCEPT ![o].pc = "done"]
      BY <1>3, <2>3 DEF PickCard
    <3>2. /\ CommandTyped' /\ cmd'[o].pc = "done" /\ cmd'[o].ref = cmd[o].ref
          /\ \A p \in Command \ {o} : cmd'[p] = cmd[p]
      BY <1>t, <3>1, MoveCommand
    <3>3. CommandFrame(o)' /\ CommandCall(o)' /\ cmd'[o].ref \in 0..Len(heap')
      BY <2>1, <2>2, <3>2 DEF CommandFrame, CommandCall
    <3> QED
      BY <1>s, <1>o, <2>2, <3>2, <3>3 DEF Own
  <2>4. CASE Bindings[g] # NoBinding
    <3>1. PICK c \in Cards : c = CardToTrust(o, g)
      <4>1. Parked(o, g) \in Cards \union {NoCard}
        BY <1>t, <2>1, Actors, ActorsAssumption DEF Parked, TypeOK, Queue
      <4>2. Bindings[g] \in Binding
        BY <2>1, <2>4, HeapTyped DEF Dict
      <4>3. Bindings[g].card \in Cards
        BY <4>2 DEF Binding
      <4> QED
        BY <4>1, <4>3 DEF CardToTrust
    <3>2. cmd' = [cmd EXCEPT ![o] = [@ EXCEPT !.pc = "approve", !.ref = Len(heap),
                                              !.card = c]]
      BY <1>3, <2>4, <3>1 DEF PickCard
    <3>3. /\ CommandTyped' /\ cmd'[o].pc = "approve" /\ cmd'[o].ref = Len(heap)
          /\ cmd'[o].card = c /\ cmd'[o].glyph = g
          /\ \A p \in Command \ {o} : cmd'[p] = cmd[p]
      BY <1>t, <3>2 DEF CommandTyped, CommandType
    <3>4. HasBinding(Len(heap), g)
      BY <1>t, <2>1, <2>4, HeapTyped DEF HasBinding, Bindings
    <3>5. CommandFrame(o)' /\ cmd'[o].ref \in 0..Len(heap')
      BY <1>t, <2>2, <3>3, <3>4 DEF CommandFrame, HasBinding
    <3>6. CommandCall(o)'
      BY <2>1, <2>2, <3>3 DEF CommandCall
    <3> QED
      BY <1>s, <1>o, <2>2, <3>3, <3>5, <3>6 DEF Own
  <2> QED
    BY <2>3, <2>4
\* The other steps of a command move its pc.
<1>m. ASSUME NEW o \in Command, cmd[o].pc \notin {"new", "done"},
             NEW pc \in {"approving", "bind", "unblock", "gate", "block", "done"},
             cmd' = [cmd EXCEPT ![o].pc = pc]
      PROVE  /\ CommandTyped' /\ cmd'[o].pc = pc /\ cmd'[o].card = cmd[o].card
             /\ cmd'[o].ref = cmd[o].ref /\ cmd'[o].glyph = cmd[o].glyph
             /\ \A p \in Command \ {o} : cmd'[p] = cmd[p]
             /\ HasBinding(cmd[o].ref, cmd[o].glyph)'
             /\ Endorsed(cmd[o].card) => Endorsed(cmd[o].card)'
             /\ Endorsed(heap[cmd[o].ref][cmd[o].glyph].card)
                  => Endorsed(heap[cmd[o].ref][cmd[o].glyph].card)'
             /\ cmd'[o].ref \in 0..Len(heap')
  <2>1. /\ CommandTyped' /\ cmd'[o].pc = pc /\ cmd'[o].card = cmd[o].card
        /\ cmd'[o].ref = cmd[o].ref /\ cmd'[o].glyph = cmd[o].glyph
        /\ \A p \in Command \ {o} : cmd'[p] = cmd[p]
    BY <1>t, <1>m, MoveCommand
  <2> QED
    BY <1>m, <2>1, OwnKept
<1>4. ASSUME NEW o \in Command, TrustApprove(o) PROVE CommandsRight'
  <2>1. /\ cmd[o].pc = "approve" /\ cmd' = [cmd EXCEPT ![o].pc = "approving"]
        /\ Approve(o, cmd[o].card) \/ RefuseApproval(o, cmd[o].card)
        /\ cmd[o].card \in Cards
    BY <1>4, <1>t DEF TrustApprove, CommandFrame
  <2>2. /\ CommandTyped' /\ cmd'[o].pc = "approving" /\ cmd'[o].card = cmd[o].card
        /\ \A p \in Command \ {o} : cmd'[p] = cmd[p]
        /\ HasBinding(cmd[o].ref, cmd[o].glyph)' /\ cmd'[o].ref \in 0..Len(heap')
    BY <1>m, <2>1
  <2>3. PICK c \in Cards : c = cmd[o].card /\ (Approve(o, c) \/ RefuseApproval(o, c))
    BY <2>1
  <2>4. \/ /\ op'[o].pc = "unpark" /\ op'[o].status = "approved"
           /\ Endorsed(cmd[o].card)'
        \/ op'[o].pc = "done" /\ op'[o].status = "refused"
    <3>1. CASE Approve(o, c)
      <4>1. Endorsed(c)'
        BY <3>1, SameContractReflexive DEF Approve, Endorsed
      <4>2. op'[o].pc = "unpark" /\ op'[o].status = "approved"
        BY <1>t, <3>1, Actors DEF Approve, Idle, TypeOK
      <4> QED
        BY <2>2, <2>3, <4>1, <4>2 DEF Endorsed
    <3>2. CASE RefuseApproval(o, c)
      BY <1>t, <3>2, Actors DEF RefuseApproval, Idle, TypeOK
    <3> QED
      BY <2>3, <3>1, <3>2
  <2>5. CommandFrame(o)'
    BY <2>1, <2>2 DEF CommandFrame
  <2>6. CommandCall(o)'
    BY <2>2, <2>4 DEF CommandCall
  <2>7. ManagerCall(o)
    BY <2>3 DEF ManagerCall
  <2> QED
    BY <1>s, <1>o, <2>2, <2>5, <2>6, <2>7 DEF Own
<1>5. ASSUME NEW o \in Command, TrustStep(o) PROVE CommandsRight'
  <2>1. Continue(o) /\ UNCHANGED <<cmd, heap>>
    BY <1>5 DEF TrustStep, bridgeVars
  <2>2. /\ \/ op[o].pc = "decide"
           \/ op[o].pc = "revoke" /\ op'[o].pc = "unpark" /\ op'[o].status = "revoked"
           \/ op[o].pc = "unpark" /\ op'[o].pc = "save" /\ op'[o].status = op[o].status
           \/ SaveMoves(op[o], op'[o])
    BY <1>t, <2>1, Actors, ContinueFrame
  <2>3. cmd[o].pc \in {"approving", "revoking"}
    BY <1>t, <2>2, IdleFrame DEF CommandCall, SaveMoves, SavePcs
  <2>4. /\ CommandTyped' /\ cmd'[o].ref \in 0..Len(heap')
        /\ HasBinding(cmd[o].ref, cmd[o].glyph)'
        /\ Endorsed(cmd[o].card) => Endorsed(cmd[o].card)'
    BY <1>t, <2>1, <2>3, OwnKept DEF CommandTyped
  <2>5. CommandFrame(o)'
    BY <1>t, <2>1, <2>3, <2>4 DEF CommandFrame
  <2>6. CommandCall(o)'
    BY <1>t, <2>1, <2>2, <2>3, <2>4 DEF CommandCall, SaveMoves, SavePcs
  <2>7. ManagerCall(o)
    BY <2>1 DEF ManagerCall
  <2> QED
    BY <1>s, <1>o, <2>1, <2>4, <2>5, <2>6, <2>7 DEF Own
<1>6. ASSUME NEW o \in Command, TrustReturns(o) PROVE CommandsRight'
  <2>1. /\ op[o].pc = "done" /\ cmd[o].pc \in {"approving", "revoking"} /\ Return(o)
    BY <1>6 DEF TrustReturns, At
  <2>2. PICK pc \in {"bind", "block", "done"} :
          /\ cmd' = [cmd EXCEPT ![o].pc = pc]
          /\ pc = "bind" => op[o].status = "approved"
    BY <1>6 DEF TrustReturns
  <2>3. /\ CommandTyped' /\ cmd'[o].pc = pc /\ cmd'[o].card = cmd[o].card
        /\ \A p \in Command \ {o} : cmd'[p] = cmd[p]
        /\ HasBinding(cmd[o].ref, cmd[o].glyph)' /\ cmd'[o].ref \in 0..Len(heap')
        /\ Endorsed(cmd[o].card) => Endorsed(cmd[o].card)'
    BY <1>m, <2>1, <2>2
  <2>4. pc = "bind" => Endorsed(cmd[o].card) /\ cmd[o].card \in Cards
    BY <1>t, <2>1, <2>2 DEF CommandCall, CommandFrame
  <2>5. CommandFrame(o)'
    BY <2>3, <2>4 DEF CommandFrame
  <2>6. op'[o] = Idle
    BY <1>t, <2>1, Actors DEF Return, TypeOK
  <2>7. CommandCall(o)'
    BY <2>3, <2>6 DEF CommandCall
  <2>8. ManagerCall(o)
    BY <2>1 DEF ManagerCall
  <2> QED
    BY <1>s, <1>o, <2>3, <2>5, <2>7, <2>8 DEF Own
<1>7. ASSUME NEW o \in Command, BindCard(o) PROVE CommandsRight'
  <2>1. /\ cmd[o].pc = "bind" /\ SetCard(o, cmd[o].card) /\ UNCHANGED op
        /\ cmd' = [cmd EXCEPT ![o].pc = "unblock"]
    BY <1>7 DEF BindCard, trustVars
  <2>2. /\ CommandTyped' /\ cmd'[o].pc = "unblock" /\ cmd'[o].card = cmd[o].card
        /\ cmd'[o].ref = cmd[o].ref /\ cmd'[o].glyph = cmd[o].glyph
        /\ \A p \in Command \ {o} : cmd'[p] = cmd[p]
        /\ HasBinding(cmd[o].ref, cmd[o].glyph)' /\ cmd'[o].ref \in 0..Len(heap')
        /\ Endorsed(cmd[o].card) => Endorsed(cmd[o].card)'
    BY <1>m, <2>1
  <2>3. /\ cmd[o].card \in Cards /\ Endorsed(cmd[o].card) /\ op[o] = Idle
        /\ HasBinding(cmd[o].ref, cmd[o].glyph)
    BY <1>t, <2>1 DEF CommandFrame, CommandCall
  <2>4. heap'[cmd[o].ref][cmd[o].glyph].card = cmd[o].card
    BY <2>1, <2>3, HeapTyped, SetCardIn DEF HasBinding
  <2>5. Endorsed(heap[cmd[o].ref][cmd[o].glyph].card)'
    BY <2>2, <2>3, <2>4 DEF Endorsed
  <2>6. CommandFrame(o)'
    BY <2>2, <2>3, <2>5 DEF CommandFrame
  <2>7. CommandCall(o)'
    BY <2>1, <2>2, <2>3 DEF CommandCall
  <2> QED
    BY <1>s, <1>o, <2>1, <2>2, <2>6, <2>7 DEF Own
<1>8. ASSUME NEW o \in Command, Unblock(o) PROVE CommandsRight'
  <2>1. /\ cmd[o].pc = "unblock" /\ UNCHANGED op /\ cmd' = [cmd EXCEPT ![o].pc = "gate"]
    BY <1>8 DEF Unblock, trustVars
  <2>2. /\ CommandTyped' /\ cmd'[o].pc = "gate" /\ cmd'[o].card = cmd[o].card
        /\ \A p \in Command \ {o} : cmd'[p] = cmd[p]
        /\ HasBinding(cmd[o].ref, cmd[o].glyph)' /\ cmd'[o].ref \in 0..Len(heap')
        /\ Endorsed(cmd[o].card) => Endorsed(cmd[o].card)'
        /\ Endorsed(heap[cmd[o].ref][cmd[o].glyph].card)
             => Endorsed(heap[cmd[o].ref][cmd[o].glyph].card)'
    BY <1>m, <2>1
  <2>3. /\ cmd[o].card \in Cards /\ Endorsed(cmd[o].card) /\ op[o] = Idle
        /\ Endorsed(heap[cmd[o].ref][cmd[o].glyph].card)
    BY <1>t, <2>1 DEF CommandFrame, CommandCall
  <2>4. CommandFrame(o)'
    BY <2>2, <2>3 DEF CommandFrame
  <2>5. CommandCall(o)'
    BY <2>1, <2>2, <2>3 DEF CommandCall
  <2> QED
    BY <1>s, <1>o, <2>1, <2>2, <2>4, <2>5 DEF Own
<1>9. ASSUME NEW o \in Command, GateAttestation(o) \/ BlockRevoked(o)
      PROVE  CommandsRight'
  <2>1. /\ cmd[o].pc \in {"gate", "block"} /\ UNCHANGED op
        /\ cmd' = [cmd EXCEPT ![o].pc = "done"]
    BY <1>9 DEF GateAttestation, BlockRevoked, trustVars
  <2>2. /\ CommandTyped' /\ cmd'[o].pc = "done" /\ cmd'[o].ref \in 0..Len(heap')
        /\ \A p \in Command \ {o} : cmd'[p] = cmd[p]
    BY <1>m, <2>1
  <2>3. op[o] = Idle
    BY <1>t, <2>1 DEF CommandCall
  <2>4. CommandFrame(o)' /\ CommandCall(o)'
    BY <2>1, <2>2, <2>3 DEF CommandFrame, CommandCall
  <2> QED
    BY <1>s, <1>o, <2>1, <2>2, <2>4 DEF Own
<1>10. ASSUME Handshake PROVE CommandsRight'
  <2>1. /\ UNCHANGED op
        /\ cmd' = [o \in Command |-> [cmd[o] EXCEPT !.overlapped = @ \/ Running(o)]]
    BY <1>10 DEF Handshake, trustVars
  <2>2. \A o \in Command : Running(o) \in BOOLEAN
    BY DEF Running
  <2>3. /\ CommandTyped'
        /\ \A o \in Command :
             /\ cmd'[o].pc = cmd[o].pc /\ cmd'[o].glyph = cmd[o].glyph
             /\ cmd'[o].ref = cmd[o].ref /\ cmd'[o].card = cmd[o].card
    <3>1. ASSUME NEW o \in Command
          PROVE  /\ [cmd[o] EXCEPT !.overlapped = @ \/ Running(o)] \in CommandType
                 /\ cmd'[o].pc = cmd[o].pc /\ cmd'[o].glyph = cmd[o].glyph
                 /\ cmd'[o].ref = cmd[o].ref /\ cmd'[o].card = cmd[o].card
      BY <1>t, <2>1, <2>2 DEF CommandTyped, CommandType
    <3> QED
      BY <2>1, <3>1 DEF CommandTyped
  <2> QED
    BY <2>1, <2>3, <1>u, CommandKept DEF CommandsRight
<1>11. ASSUME SyncStep PROVE CommandsRight'
  <2>1. UNCHANGED cmd
    BY <1>11 DEF SyncStep, FetchCard, FetchFails, TrustStep, Bind, SyncAborts, Publish,
                 bridgeVars
  <2>2. UNCHANGED op \/ ManagerCall(Syncer)
    <3>1. CASE FetchCard
      <4>1. \E g \in sync.todo : server[g] # NoCard /\ Evaluate(Syncer, server[g])
        BY <3>1 DEF FetchCard
      <4>2. \A g \in sync.todo : server[g] # NoCard => server[g] \in Cards
        BY DEF BridgeInv, BridgeTypeOK
      <4> QED
        BY <4>1, <4>2 DEF ManagerCall
    <3>2. CASE ~FetchCard
      BY <1>11, <3>2 DEF SyncStep, FetchFails, TrustStep, Bind, SyncAborts, Publish,
                         trustVars, ManagerCall
    <3> QED
      BY <3>1, <3>2
  <2>3. \A o \in Command : SameCall(op'[o], op[o])
    BY <1>t, <1>u, <2>2, Actors, OthersKept
  <2> QED
    BY <1>k, <2>1, <2>3
<1>12. ASSUME NEW h \in Call, CallStep(h) \/ Expire(h) \/ \E g \in Glyph : Lookup(h, g)
       PROVE  CommandsRight'
  <2>1. UNCHANGED <<cmd, op>>
    BY <1>12
    DEF CallStep, Expire, Lookup, Gate, Ask, Confirm, Prepare, PrepareFails,
        Execute, SendFails, Seal, SealRaises, Step, Answer, trustVars
  <2> QED
    BY <1>k, <1>u, <2>1
<1>13. ASSUME NEW g \in Glyph, NEW c \in Cards \union {NoCard}, Deploy(g, c)
       PROVE  CommandsRight'
  BY <1>13, <1>k, <1>u DEF Deploy, trustVars
<1>14. CASE UNCHANGED vars
  BY <1>14, <1>k, <1>u DEF vars, trustVars, bridgeVars
<1> QED
  BY <1>1, <1>2, <1>3, <1>4, <1>5, <1>6, <1>7, <1>8, <1>9, <1>10, <1>11, <1>12,
     <1>13, <1>14
  DEF BridgeNext, CommandStep

----------------------------------------------------------------------------
(* The calls.                                                              *)

CallType ==
  [pc : {"new", "gate", "ask", "confirm", "prepare", "send", "seal", "returned"},
   glyph : Glyph \union {NoGlyph}, ref : Nat, confirmed : BOOLEAN,
   ran : Cards \union {NoCard}, intact : BOOLEAN, result : Results]

CallTyped ==
  /\ tickets \subseteq Call
  /\ call \in [Call -> CallType]
  /\ audit \in [Call -> {"none", "verified", "failed"}]

CallsRight ==
  CallTyped /\ \A h \in Call : call[h].ref \in 0..Len(heap) /\ CallFrame(h)

LEMMA NoCodeIsNoResult == NoCode \in Codes /\ "released" \notin Codes
BY Zenon DEF Codes, NoCode

LEMMA NewCallTyped ==
  /\ NewCall \in CallType /\ NewCall.pc = "new" /\ NewCall.ran = NoCard
  /\ NewCall.result = NoCode /\ NewCall.confirmed = FALSE
BY NoCodeIsNoResult DEF NewCall, CallType, Results

\* What a call keeps across every step.
LEMMA CallKeeps ==
  ASSUME BridgeInv, [BridgeNext]_vars, NEW h \in Call,
         call'[h].glyph = call[h].glyph, call'[h].ref = call[h].ref
  PROVE  /\ call[h].pc \notin {"new", "returned"}
              => HasBinding(call[h].ref, call[h].glyph)'
         /\ call[h].pc \notin {"new", "gate", "returned"}
              => Endorsed(BindingOf(h).card)'
         /\ call'[h].ref \in 0..Len(heap')
<1>1. CallFrame(h) /\ call[h].ref \in 0..Len(heap)
  BY DEF BridgeInv, BridgeTypeOK
<1>2. BindingsKept /\ Len(heap) \in Nat /\ Len(heap') \in Nat
  BY HeapTyped, HeapStep
<1>3. PICK i, g : i = call[h].ref /\ g = call[h].glyph
  OBVIOUS
<1>4. HasBinding(i, g) => HasBinding(i, g)'
  BY <1>2, HasBindingKept
<1>5. HasBinding(i, g) /\ Endorsed(heap[i][g].card) => Endorsed(heap[i][g].card)'
  BY <1>2 DEF BindingsKept, HasBinding
<1>6. call[h].pc \notin {"new", "returned"} => HasBinding(i, g)
  BY <1>1, <1>3 DEF CallFrame
<1>7. call[h].pc \notin {"new", "gate", "returned"} => Endorsed(heap[i][g].card)
  <2>1. call[h].pc \notin {"new", "gate", "returned"} => Endorsed(BindingOf(h).card)
    BY <1>1 DEF CallFrame
  <2> QED
    BY <1>3, <2>1 DEF BindingOf
<1>8. call'[h].ref \in 0..Len(heap')
  BY <1>1, <1>2 DEF BindingsKept
<1>9. HasBinding(i, g)' => HasBinding(call[h].ref, call[h].glyph)'
  BY <1>3 DEF HasBinding
<1>10. Endorsed(heap[i][g].card)' => Endorsed(BindingOf(h).card)'
  BY <1>3 DEF Endorsed, BindingOf
<1> QED
  BY <1>4, <1>5, <1>6, <1>7, <1>8, <1>9, <1>10

\* A call that does not move.
LEMMA CallKept ==
  ASSUME BridgeInv, [BridgeNext]_vars, NEW h \in Call, call'[h] = call[h],
         h \in tickets' => h \in tickets
  PROVE  CallFrame(h)' /\ call'[h].ref \in 0..Len(heap')
<1>1. CallFrame(h)
  BY DEF BridgeInv
<1>2. /\ call[h].pc \notin {"new", "returned"}
           => HasBinding(call[h].ref, call[h].glyph)'
      /\ call[h].pc \notin {"new", "gate", "returned"}
           => Endorsed(BindingOf(h).card)'
      /\ call'[h].ref \in 0..Len(heap')
  BY CallKeeps
<1> QED
  BY <1>1, <1>2 DEF CallFrame

\* A step of a call: its frame is replaced.
Moves(h, f) ==
  /\ f \in CallType /\ call' \in [Call -> CallType]
  /\ call'[h] = f
  /\ \A k \in Call \ {h} : call'[k] = call[k]

LEMMA MoveCall ==
  ASSUME call \in [Call -> CallType], NEW h \in Call, NEW f \in CallType,
         call' = [call EXCEPT ![h] = f]
  PROVE  Moves(h, f)
BY DEF Moves

LEMMA StepCall ==
  ASSUME call \in [Call -> CallType], NEW h \in Call,
         NEW pc \in {"ask", "confirm", "prepare", "send"},
         call' = [call EXCEPT ![h].pc = pc]
  PROVE  \E f \in CallType : Moves(h, f) /\ f = [call[h] EXCEPT !.pc = pc]
<1>1. call[h] \in CallType
  OBVIOUS
<1>2. PICK f \in CallType : f = [call[h] EXCEPT !.pc = pc]
  BY <1>1 DEF CallType
<1>3. call' = [call EXCEPT ![h] = f]
  BY <1>2
<1> QED
  BY <1>2, <1>3, MoveCall

LEMMA AnswerCall ==
  ASSUME call \in [Call -> CallType], NEW h \in Call, NEW r \in Results, Answer(h, r)
  PROVE  \E f \in CallType :
           Moves(h, f) /\ f = [call[h] EXCEPT !.pc = "returned", !.result = r]
<1>1. call[h] \in CallType
  OBVIOUS
<1>2. PICK f \in CallType : f = [call[h] EXCEPT !.pc = "returned", !.result = r]
  BY <1>1 DEF CallType
<1>3. call' = [call EXCEPT ![h] = f]
  BY <1>2 DEF Answer
<1> QED
  BY <1>2, <1>3, MoveCall

LEMMA CallNext ==
  ASSUME BridgeInv, [BridgeNext]_vars
  PROVE  CallsRight'
<1>t. /\ CallTyped /\ Len(heap) \in Nat /\ call \in [Call -> CallType]
      /\ \A h \in Call : CallFrame(h) /\ call[h] \in CallType
  BY HeapTyped DEF BridgeInv, BridgeTypeOK, CallTyped, CallType
\* A step that leaves every call where it is.
<1>k. ASSUME UNCHANGED <<call, audit>>, tickets' \subseteq tickets PROVE CallsRight'
  BY <1>k, <1>t, CallKept DEF CallsRight, CallTyped
\* A step of one call.
<1>s. ASSUME NEW h \in Call, NEW f \in CallType, Moves(h, f), CallFrame(h)',
             f.ref = call[h].ref, f.glyph = call[h].glyph,
             audit' \in [Call -> {"none", "verified", "failed"}],
             tickets' \subseteq tickets \union {h}
      PROVE  CallsRight'
  <2>1. CallTyped'
    BY <1>s, <1>t DEF CallTyped, Moves
  <2>2. call'[h].ref \in 0..Len(heap')
    BY <1>s, CallKeeps DEF Moves
  <2>3. ASSUME NEW k \in Call \ {h} PROVE CallFrame(k)' /\ call'[k].ref \in 0..Len(heap')
    <3>1. call'[k] = call[k] /\ (k \in tickets' => k \in tickets)
      BY <1>s, <2>3 DEF Moves
    <3> QED
      BY <2>3, <3>1, CallKept
  <2> QED
    BY <1>s, <2>1, <2>2, <2>3 DEF CallsRight
\* A call that returns without its result.
<1>a. ASSUME NEW h \in Call, call[h].pc # "new", NEW r \in Results \ {"released"},
             Answer(h, r)
      PROVE  CallsRight'
  <2>1. PICK f \in CallType :
          Moves(h, f) /\ f = [call[h] EXCEPT !.pc = "returned", !.result = r]
    BY <1>a, <1>t, AnswerCall
  <2>2. /\ f.pc = "returned" /\ f.result = r /\ f.confirmed = call[h].confirmed
        /\ f.ref = call[h].ref /\ f.glyph = call[h].glyph
    BY <1>t, <2>1 DEF CallType
  <2>3. UNCHANGED <<tickets, audit>>
    BY <1>a DEF Answer
  <2>4. CallFrame(h)'
    BY <1>a, <1>t, <2>1, <2>2, <2>3 DEF CallFrame, Moves
  <2> QED
    BY <1>s, <1>t, <2>1, <2>2, <2>3, <2>4 DEF CallTyped
\* A step past the gate.
<1>p. ASSUME NEW h \in Call, NEW pc \in {"ask", "confirm", "prepare", "send"},
             call' = [call EXCEPT ![h].pc = pc],
             \/ call[h].pc \in {"ask", "confirm", "prepare"}
             \/ call[h].pc = "gate" /\ BindingOf(h).blocked = NoCode,
             pc = "prepare" => call[h].confirmed,
             \/ tickets' = tickets
             \/ tickets' = tickets \union {h} /\ call[h].confirmed,
             UNCHANGED audit
      PROVE  CallsRight'
  <2>1. PICK f \in CallType : Moves(h, f) /\ f = [call[h] EXCEPT !.pc = pc]
    BY <1>p, <1>t, StepCall
  <2>2. /\ f.pc = pc /\ f.result = call[h].result /\ f.confirmed = call[h].confirmed
        /\ f.ref = call[h].ref /\ f.glyph = call[h].glyph
    BY <1>t, <2>1 DEF CallType
  <2>3. /\ HasBinding(call[h].ref, call[h].glyph)'
        /\ call[h].pc # "gate" => Endorsed(BindingOf(h).card)'
    BY <1>p, <2>1, <2>2, CallKeeps DEF Moves
  <2>4. call[h].pc = "gate" => Endorsed(BindingOf(h).card)'
    <3>1. SUFFICES ASSUME call[h].pc = "gate" PROVE Endorsed(BindingOf(h).card)'
      OBVIOUS
    <3>2. PICK i, g : i = call[h].ref /\ g = call[h].glyph
      OBVIOUS
    <3>3. HasBinding(i, g) /\ heap[i][g].blocked = NoCode
      BY <1>p, <1>t, <3>1, <3>2 DEF CallFrame, BindingOf
    <3>4. Endorsed(heap[i][g].card)
      BY <3>3 DEF HasBinding, BridgeInv, CallableEndorsed
    <3>5. Endorsed(heap[i][g].card)'
      BY <3>3, <3>4, HeapStep DEF HasBinding, BindingsKept
    <3>6. i = call'[h].ref /\ g = call'[h].glyph
      BY <2>1, <2>2, <3>2 DEF Moves
    <3> QED
      BY <3>5, <3>6 DEF BindingOf, Endorsed
  <2>5. call[h].result # "released"
    BY <1>p, <1>t DEF CallFrame
  <2>6. call'[h].pc = pc /\ call'[h].result = call[h].result
        /\ call'[h].confirmed = call[h].confirmed
        /\ call'[h].ref = call[h].ref /\ call'[h].glyph = call[h].glyph
    BY <2>1, <2>2 DEF Moves
  <2>7. HasBinding(call[h].ref, call[h].glyph)'
    BY <2>3
  <2>8. CallFrame(h)'
    BY <1>p, <1>t, <2>3, <2>4, <2>5, <2>6, <2>7 DEF CallFrame
  <2> QED
    BY <1>p, <1>s, <1>t, <2>1, <2>2, <2>8 DEF CallTyped
<1>1. ASSUME NEW h \in Call, NEW g \in Glyph, Lookup(h, g) PROVE CallsRight'
  <2> DEFINE none == Bindings[g] = NoBinding
  <2>1. /\ call[h].pc = "new" /\ UNCHANGED <<tickets, heap, audit>>
        /\ h \notin tickets
    BY <1>1, <1>t DEF Lookup, CallFrame
  <2>2. PICK r \in Results \ {"released"} :
          r = IF none THEN "NOT_FOUND" ELSE NoCode
    BY NoCodeIsNoResult DEF Results
  <2>3. PICK f \in CallType :
          /\ f = [NewCall EXCEPT !.glyph = g, !.ref = Len(heap),
                                 !.pc = IF none THEN "returned" ELSE "gate",
                                 !.result = r]
          /\ f.pc = (IF none THEN "returned" ELSE "gate") /\ f.result = r
          /\ f.glyph = g /\ f.ref = Len(heap) /\ f.confirmed = FALSE
    <3>1. [NewCall EXCEPT !.glyph = g, !.ref = Len(heap),
                          !.pc = IF none THEN "returned" ELSE "gate",
                          !.result = r] \in CallType
      BY <1>t, NewCallTyped DEF CallType
    <3> QED
      BY <3>1, NewCallTyped DEF CallType
  <2>4. call' = [call EXCEPT ![h] = f]
    BY <1>1, <2>2, <2>3 DEF Lookup
  <2>5. Moves(h, f)
    BY <1>t, <2>4, MoveCall
  <2>6. ~none => HasBinding(Len(heap), g)
    BY <1>t, HeapTyped DEF HasBinding, Bindings
  <2>7. CallFrame(h)'
    BY <2>1, <2>2, <2>3, <2>5, <2>6 DEF CallFrame, Moves, HasBinding
  <2>8. call'[h].ref \in 0..Len(heap')
    BY <1>t, <2>1, <2>3, <2>5 DEF Moves
  <2>9. ASSUME NEW k \in Call \ {h} PROVE CallFrame(k)' /\ call'[k].ref \in 0..Len(heap')
    BY <2>1, <2>5, <2>9, CallKept DEF Moves
  <2> QED
    BY <1>t, <2>1, <2>5, <2>7, <2>8, <2>9 DEF CallsRight, CallTyped, Moves
<1>2. ASSUME NEW h \in Call, Gate(h) PROVE CallsRight'
  <2>1. call[h].pc = "gate" /\ HasBinding(call[h].ref, call[h].glyph)
    BY <1>2, <1>t DEF Gate, CallFrame
  <2>2. CASE BindingOf(h).blocked # NoCode
    <3>1. BindingOf(h) \in Binding
      BY <2>1, HeapTyped DEF HasBinding, BindingOf
    <3>2. BindingOf(h).blocked \in Results \ {"released"}
      BY <3>1, NoCodeIsNoResult DEF Binding, Results
    <3> QED
      BY <1>2, <1>a, <2>1, <2>2, <3>2 DEF Gate
  <2>3. CASE BindingOf(h).blocked = NoCode
    <3>1. call' = [call EXCEPT ![h].pc = "ask"] /\ UNCHANGED <<tickets, audit>>
      BY <1>2, <2>3 DEF Gate, Step
    <3> QED
      BY <1>p, <2>1, <2>3, <3>1, Zenon
  <2> QED
    BY <2>2, <2>3
<1>3. ASSUME NEW h \in Call, Ask(h) PROVE CallsRight'
  <2>1. PICK pc \in {"confirm", "send"} :
          call' = [call EXCEPT ![h].pc = pc] /\ UNCHANGED <<tickets, audit>>
    BY <1>3 DEF Ask, Step
  <2>2. call[h].pc = "ask"
    BY <1>3 DEF Ask
  <2>3. pc # "prepare" /\ pc \in {"ask", "confirm", "prepare", "send"}
    OBVIOUS
  <2> QED
    BY <1>p, <2>1, <2>2, <2>3, Zenon
<1>4. ASSUME NEW h \in Call, Confirm(h) PROVE CallsRight'
  <2>1. CASE \E answer \in {"USER_DENIED", "CONFIRMATION_PENDING",
                            "CONFIRMATION_TIMEOUT", "CONFIRMATION_UNAVAILABLE"} :
               Answer(h, answer)
    BY <1>4, <1>a, <2>1 DEF Confirm, Results
  <2>2. CASE /\ call' = [call EXCEPT ![h].pc = "prepare", ![h].confirmed = TRUE]
             /\ UNCHANGED <<tickets, heap, audit>>
    <3>1. call[h].pc = "confirm" /\ call[h] \in CallType
      BY <1>4, <1>t DEF Confirm
    <3>2. PICK f \in CallType : f = [call[h] EXCEPT !.pc = "prepare", !.confirmed = TRUE]
      BY <3>1 DEF CallType
    <3>3. /\ f.pc = "prepare" /\ f.confirmed = TRUE /\ f.result = call[h].result
          /\ f.glyph = call[h].glyph /\ f.ref = call[h].ref
      BY <3>1, <3>2 DEF CallType
    <3>4. Moves(h, f)
      <4>1. call' = [call EXCEPT ![h] = f]
        BY <2>2, <3>2
      <4> QED
        BY <1>t, <4>1, MoveCall
    <3>5. /\ HasBinding(call[h].ref, call[h].glyph)' /\ Endorsed(BindingOf(h).card)'
      BY <3>1, <3>3, <3>4, CallKeeps DEF Moves
    <3>6. CallFrame(h)'
      BY <1>t, <3>1, <3>3, <3>4, <3>5 DEF CallFrame, Moves
    <3> QED
      BY <1>s, <1>t, <2>2, <3>3, <3>4, <3>6 DEF CallTyped
  <2> QED
    BY <1>4, <2>1, <2>2 DEF Confirm
<1>5. ASSUME NEW h \in Call, Prepare(h) PROVE CallsRight'
  <2>1. call[h].pc = "prepare" /\ call[h].confirmed
    BY <1>5, <1>t DEF Prepare, CallFrame
  <2> QED
    BY <1>5, <1>p, <2>1 DEF Prepare
<1>6. ASSUME NEW h \in Call, PrepareFails(h) \/ SendFails(h) \/ SealRaises(h)
      PROVE  CallsRight'
  BY <1>6, <1>a DEF PrepareFails, SendFails, SealRaises, Results
<1>7. ASSUME NEW h \in Call, Execute(h) PROVE CallsRight'
  <2>1. /\ call[h].pc = "send" /\ call[h] \in CallType
        /\ tickets' \subseteq tickets /\ UNCHANGED <<heap, audit>>
        /\ call[h].result # "released"
    BY <1>7, <1>t DEF Execute, CallFrame
  <2>2. PICK c \in Cards : c = server[call[h].glyph]
    <3>1. call[h].glyph \in Glyph
      BY <1>t, <2>1 DEF CallFrame, HasBinding
    <3> QED
      BY <1>7, <3>1 DEF Execute, Accepts, BridgeInv, BridgeTypeOK
  <2>3. CASE \E intact \in BOOLEAN :
               call' = [call EXCEPT ![h].pc = "seal", ![h].ran = server[call[h].glyph],
                                    ![h].intact = intact]
    <3>1. PICK intact \in BOOLEAN :
            call' = [call EXCEPT ![h].pc = "seal", ![h].ran = c, ![h].intact = intact]
      BY <2>2, <2>3
    <3>2. PICK f \in CallType :
            f = [call[h] EXCEPT !.pc = "seal", !.ran = c, !.intact = intact]
      BY <2>1 DEF CallType
    <3>3. /\ f.pc = "seal" /\ f.confirmed = call[h].confirmed /\ f.ran = c
          /\ f.result = call[h].result
          /\ f.glyph = call[h].glyph /\ f.ref = call[h].ref
      BY <2>1, <3>2 DEF CallType
    <3>4. Moves(h, f)
      <4>1. call' = [call EXCEPT ![h] = f]
        BY <3>1, <3>2
      <4> QED
        BY <1>t, <4>1, MoveCall
    <3>5. /\ HasBinding(call[h].ref, call[h].glyph)' /\ Endorsed(BindingOf(h).card)'
      BY <2>1, <3>3, <3>4, CallKeeps DEF Moves
    <3>6. CallFrame(h)'
      BY <1>t, <2>1, <3>3, <3>4, <3>5 DEF CallFrame, Moves
    <3> QED
      BY <1>s, <1>t, <2>1, <3>3, <3>4, <3>6 DEF CallTyped
  <2>4. CASE call' = [call EXCEPT ![h].pc = "returned", ![h].ran = server[call[h].glyph],
                                  ![h].result = "SERVER_UNREACHABLE"]
    <3>1. call' = [call EXCEPT ![h].pc = "returned", ![h].ran = c,
                               ![h].result = "SERVER_UNREACHABLE"]
      BY <2>2, <2>4
    <3>2. PICK f \in CallType :
            f = [call[h] EXCEPT !.pc = "returned", !.ran = c,
                                !.result = "SERVER_UNREACHABLE"]
      BY <2>1 DEF CallType, Results
    <3>3. /\ f.pc = "returned" /\ f.confirmed = call[h].confirmed
          /\ f.result = "SERVER_UNREACHABLE"
          /\ f.glyph = call[h].glyph /\ f.ref = call[h].ref
      BY <2>1, <3>2 DEF CallType
    <3>4. Moves(h, f)
      <4>1. call' = [call EXCEPT ![h] = f]
        BY <3>1, <3>2
      <4> QED
        BY <1>t, <4>1, MoveCall
    <3>5. CallFrame(h)'
      BY <1>t, <2>1, <3>3, <3>4 DEF CallFrame, Moves
    <3> QED
      BY <1>s, <1>t, <2>1, <3>3, <3>4, <3>5 DEF CallTyped
  <2> QED
    BY <1>7, <2>3, <2>4 DEF Execute
<1>8. ASSUME NEW h \in Call, Seal(h) PROVE CallsRight'
  <2>1. /\ call[h].pc = "seal" /\ call[h] \in CallType /\ UNCHANGED <<tickets, heap>>
    BY <1>8, <1>t DEF Seal
  <2>2. PICK r \in {"released", "RECEIPT_INVALID", "warned"},
             v \in {"verified", "failed"} :
          /\ call' = [call EXCEPT ![h].pc = "returned", ![h].result = r]
          /\ audit' = [audit EXCEPT ![h] = v]
    BY <1>8 DEF Seal
  <2>3. PICK f \in CallType : f = [call[h] EXCEPT !.pc = "returned", !.result = r]
    BY <2>1 DEF CallType, Results
  <2>4. /\ f.pc = "returned" /\ f.confirmed = call[h].confirmed
        /\ f.glyph = call[h].glyph /\ f.ref = call[h].ref
    BY <2>1, <2>3 DEF CallType
  <2>5. Moves(h, f)
    <3>1. call' = [call EXCEPT ![h] = f]
      BY <2>2, <2>3
    <3> QED
      BY <1>t, <3>1, MoveCall
  <2>6. CallFrame(h)'
    BY <1>t, <2>1, <2>4, <2>5 DEF CallFrame, Moves
  <2>7. audit' \in [Call -> {"none", "verified", "failed"}]
    BY <1>t, <2>2 DEF CallTyped
  <2> QED
    BY <1>s, <2>1, <2>4, <2>5, <2>6, <2>7
<1>9. ASSUME NEW h \in Call, Expire(h) PROVE CallsRight'
  BY <1>9, <1>k DEF Expire
<1>10. ASSUME Handshake \/ SyncStep PROVE CallsRight'
  BY <1>10, <1>k DEF Handshake, SyncStep, FetchCard, FetchFails, TrustStep, Bind,
                     SyncAborts, Publish, bridgeVars
<1>11. ASSUME NEW o \in Command, CommandStep(o) \/ \E g \in Glyph : TrustTool(o, g)
                                                            \/ RevokeTool(o, g)
       PROVE  CallsRight'
  BY <1>11, <1>k
  DEF CommandStep, PickCard, TrustApprove, TrustStep, TrustReturns, BindCard,
      Unblock, GateAttestation, BlockRevoked, TrustTool, RevokeTool, bridgeVars
<1>12. ASSUME NEW g \in Glyph, NEW c \in Cards \union {NoCard}, Deploy(g, c)
       PROVE  CallsRight'
  BY <1>12, <1>k DEF Deploy
<1>13. CASE UNCHANGED vars
  BY <1>13, <1>k DEF vars, bridgeVars
<1> QED
  BY <1>1, <1>2, <1>3, <1>4, <1>5, <1>6, <1>7, <1>8, <1>9, <1>10, <1>11, <1>12, <1>13
  DEF BridgeNext, CallStep

----------------------------------------------------------------------------
(* The invariant holds.                                                    *)

LEMMA BridgeBase == BridgeInit => BridgeInv
<1> SUFFICES ASSUME BridgeInit PROVE BridgeInv
  OBVIOUS
<1>1. IInv
  BY BaseInit, EndorsedInit DEF BridgeInit, IInv
<1>2. /\ heap = <<Unbound>> /\ sync = NoSync /\ deploys = 0 /\ tickets = {}
      /\ cmd = [o \in Command |-> NewCommand] /\ call = [h \in Call |-> NewCall]
      /\ audit = [h \in Call |-> "none"]
      /\ server \in [Glyph -> Cards \union {NoCard}]
      /\ \A g \in Glyph : server[g] # NoCard => server[g].name = g
      /\ op = [a \in Actor |-> Idle]
  BY DEF BridgeInit, TrustInit
<1>3. Unbound \in Dict
  BY DEF Unbound, Dict
<1>4. heap \in Seq(Dict) /\ Len(heap) = 1 /\ heap[1] = Unbound
  BY <1>2, <1>3
<1>5. \A o \in Command : cmd[o] = NewCommand
  BY <1>2
<1>6. \A h \in Call : call[h] = NewCall
  BY <1>2
<1>7. NewCommand.ref = 0 /\ NewCall.ref = 0
  BY DEF NewCommand, NewCall
<1>8. BridgeTypeOK
  <2>1. NewCommand \in
          [pc : {"new", "pick", "approve", "approving", "revoking", "bind", "unblock",
                 "gate", "block", "done"},
           glyph : Glyph \union {NoGlyph}, ref : 0..Len(heap),
           card : Cards \union {NoCard}, shown : Cards \union {NoCard},
           overlapped : BOOLEAN]
    BY <1>4 DEF NewCommand
  <2>2. NewCall \in
          [pc : {"new", "gate", "ask", "confirm", "prepare", "send", "seal", "returned"},
           glyph : Glyph \union {NoGlyph}, ref : 0..Len(heap), confirmed : BOOLEAN,
           ran : Cards \union {NoCard}, intact : BOOLEAN, result : Results]
    BY <1>4, NoCodeIsNoResult DEF NewCall, Results
  <2>3. deploys \in 0..MaxDeploy /\ Len(heap) \in 1..MaxSync + 1
    BY <1>2, <1>4, BridgeAssumption
  <2>4. sync \in [pc : {"idle", "fetch", "evaluate"}, todo : SUBSET Glyph,
                  glyph : Glyph \union {NoGlyph}, dict : Dict]
    BY <1>2, NoSyncTyped
  <2> QED
    BY <1>1, <1>2, <1>4, <2>1, <2>2, <2>3, <2>4 DEF BridgeTypeOK, IInv
<1>9. SyncFrame /\ DictEndorsed
  BY <1>2, NoSyncTyped, Actors DEF SyncFrame, DictEndorsed
<1>10. CallableEndorsed
  BY <1>4, NoSyncTyped DEF CallableEndorsed
<1>11. ASSUME NEW o \in Command PROVE CommandFrame(o) /\ CommandCall(o)
  BY <1>2, <1>5, NewCommandTyped, Actors DEF CommandFrame, CommandCall
<1>12. ASSUME NEW h \in Call PROVE CallFrame(h)
  BY <1>2, <1>6, NewCallTyped, NoCodeIsNoResult DEF CallFrame
<1> QED
  BY <1>1, <1>8, <1>9, <1>10, <1>11, <1>12 DEF BridgeInv

LEMMA BridgeInductive == BridgeInv /\ [BridgeNext]_vars => BridgeInv'
<1> SUFFICES ASSUME BridgeInv, [BridgeNext]_vars PROVE BridgeInv'
  OBVIOUS
<1>1. IInv' /\ BindingsKept /\ CallableEndorsed' /\ Len(heap') \in 1..MaxSync + 1
  BY ManagerInv, HeapStep
<1>2. (SyncTyped /\ SyncFrame /\ DictEndorsed)'
  BY SyncNext
<1>3. CommandsRight'
  BY CommandNext
<1>4. CallsRight'
  BY CallNext
<1>5. BridgeTypeOK'
  <2>1. cmd' \in [Command ->
          [pc : {"new", "pick", "approve", "approving", "revoking", "bind", "unblock",
                 "gate", "block", "done"},
           glyph : Glyph \union {NoGlyph}, ref : 0..Len(heap'),
           card : Cards \union {NoCard}, shown : Cards \union {NoCard},
           overlapped : BOOLEAN]]
    BY <1>3 DEF CommandsRight, CommandTyped, CommandType
  <2>2. call' \in [Call ->
          [pc : {"new", "gate", "ask", "confirm", "prepare", "send", "seal", "returned"},
           glyph : Glyph \union {NoGlyph}, ref : 0..Len(heap'), confirmed : BOOLEAN,
           ran : Cards \union {NoCard}, intact : BOOLEAN, result : Results]]
    BY <1>4 DEF CallsRight, CallTyped, CallType
  <2> QED
    BY <1>1, <1>2, <1>4, <2>1, <2>2
    DEF BridgeTypeOK, IInv, BindingsKept, SyncTyped, CallsRight, CallTyped
<1> QED
  BY <1>1, <1>2, <1>3, <1>4, <1>5 DEF BridgeInv, CommandsRight, CallsRight

\* The bridge keeps in its variables what the code keeps there.
THEOREM BridgeTypeCorrect == BridgeSpec => []BridgeTypeOK
BY BridgeBase, BridgeInductive, PTL DEF BridgeSpec, BridgeInv

\* However syncs, commands and calls interleave, a tool that is not blocked,
\* in the published dict or in one a call still holds, carries a verified card
\* with a contract someone agreed to.
THEOREM CallableStaysEndorsed == BridgeSpec => []CallableEndorsed
BY BridgeBase, BridgeInductive, PTL DEF BridgeSpec, BridgeInv

----------------------------------------------------------------------------
(* What runs was confirmed; what is released was verified.                 *)

LEMMA OneCallMoves ==
  ASSUME BridgeInv, [BridgeNext]_vars, NEW h \in Call
  PROVE  \/ call'[h] = call[h] /\ audit'[h] = audit[h]
         \/ \E g \in Glyph : Lookup(h, g)
         \/ CallStep(h)
<1>t. call \in [Call -> CallType] /\ audit \in [Call -> {"none", "verified", "failed"}]
  BY DEF BridgeInv, BridgeTypeOK, CallType
<1> DEFINE Still == call'[h] = call[h] /\ audit'[h] = audit[h]
<1>1. CASE UNCHANGED <<call, audit>>
  BY <1>1
<1>2. ASSUME NEW k \in Call \ {h}, CallStep(k) \/ \E g \in Glyph : Lookup(k, g)
      PROVE  Still
  <2>1. ASSUME NEW r, Answer(k, r) PROVE Still
    BY <1>t, <1>2, <2>1 DEF Answer
  <2>2. ASSUME NEW pc, Step(k, pc) PROVE Still
    BY <1>t, <1>2, <2>2 DEF Step
  <2>3. ASSUME NEW g \in Glyph, Lookup(k, g) PROVE Still
    BY <1>t, <1>2, <2>3 DEF Lookup
  <2>4. CASE Gate(k) \/ Ask(k) \/ PrepareFails(k) \/ SendFails(k) \/ SealRaises(k)
    BY <2>1, <2>2, <2>4 DEF Gate, Ask, PrepareFails, SendFails, SealRaises
  <2>5. CASE Confirm(k)
    BY <1>t, <1>2, <2>1, <2>5 DEF Confirm
  <2>6. CASE Prepare(k) \/ Execute(k)
    BY <1>t, <1>2, <2>6 DEF Prepare, Execute
  <2>7. CASE Seal(k)
    BY <1>t, <1>2, <2>7 DEF Seal
  <2> QED
    BY <1>2, <2>3, <2>4, <2>5, <2>6, <2>7 DEF CallStep
<1>3. CASE Handshake \/ SyncStep
  BY <1>1, <1>3 DEF Handshake, SyncStep, FetchCard, FetchFails, TrustStep, Bind,
                    SyncAborts, Publish, bridgeVars
<1>4. ASSUME NEW o \in Command, CommandStep(o) \/ \E g \in Glyph : TrustTool(o, g)
                                                            \/ RevokeTool(o, g)
      PROVE  Still
  BY <1>1, <1>4
  DEF CommandStep, PickCard, TrustApprove, TrustStep, TrustReturns, BindCard,
      Unblock, GateAttestation, BlockRevoked, TrustTool, RevokeTool, bridgeVars
<1>5. ASSUME NEW g \in Glyph, NEW c \in Cards \union {NoCard}, Deploy(g, c) PROVE Still
  BY <1>1, <1>5 DEF Deploy
<1>6. ASSUME NEW k \in Call, Expire(k) PROVE Still
  BY <1>1, <1>6 DEF Expire
<1>7. CASE UNCHANGED vars
  BY <1>1, <1>7 DEF vars, bridgeVars
<1> QED
  BY <1>2, <1>3, <1>4, <1>5, <1>6, <1>7 DEF BridgeNext

LEMMA ConfirmedNext ==
  BridgeInv /\ ConfirmedExecution /\ [BridgeNext]_vars => ConfirmedExecution'
<1> SUFFICES ASSUME BridgeInv, ConfirmedExecution, [BridgeNext]_vars, NEW h \in Call,
                    call'[h].ran # NoCard, call'[h].ran.confirm
             PROVE  call'[h].confirmed
  BY DEF ConfirmedExecution
<1>t. /\ call[h] \in CallType /\ call \in [Call -> CallType] /\ CallFrame(h)
      /\ call[h].ran # NoCard /\ call[h].ran.confirm => call[h].confirmed
  BY DEF BridgeInv, BridgeTypeOK, CallType, ConfirmedExecution
<1>1. CASE call'[h].ran = call[h].ran /\ (call[h].confirmed => call'[h].confirmed)
  BY <1>1, <1>t
<1>2. CASE Execute(h)
  <2>1. /\ call'[h].ran = server[call[h].glyph]
        /\ call'[h].confirmed = call[h].confirmed
    BY <1>2, <1>t DEF Execute, CallType
  <2>2. server[call[h].glyph].confirm => h \in tickets
    BY <1>2 DEF Execute, Accepts
  <2> QED
    BY <1>t, <2>1, <2>2 DEF CallFrame
<1>3. ASSUME NEW g \in Glyph, Lookup(h, g) PROVE call'[h].ran = NoCard
  BY <1>3, <1>t DEF Lookup, NewCall, CallType
<1>4. ASSUME NEW r, Answer(h, r)
      PROVE  call'[h].ran = call[h].ran /\ call'[h].confirmed = call[h].confirmed
  BY <1>4, <1>t DEF Answer, CallType
<1>5. ASSUME NEW pc, call' = [call EXCEPT ![h].pc = pc]
      PROVE  call'[h].ran = call[h].ran /\ call'[h].confirmed = call[h].confirmed
  BY <1>5, <1>t DEF CallType
<1>6. CASE Gate(h) \/ Ask(h) \/ Prepare(h) \/ PrepareFails(h) \/ SendFails(h) \/ SealRaises(h)
  BY <1>1, <1>4, <1>5, <1>6
  DEF Gate, Ask, Prepare, PrepareFails, SendFails, SealRaises, Step
<1>7. CASE Confirm(h)
  <2>1. CASE call' = [call EXCEPT ![h].pc = "prepare", ![h].confirmed = TRUE]
    BY <2>1, <1>t DEF CallType
  <2> QED
    BY <1>1, <1>4, <1>7, <2>1 DEF Confirm
<1>8. CASE Seal(h)
  <2>1. call'[h].ran = call[h].ran /\ call'[h].confirmed = call[h].confirmed
    BY <1>8, <1>t DEF Seal, CallType
  <2> QED
    BY <1>1, <2>1
<1>9. CASE call'[h] = call[h]
  BY <1>1, <1>9
<1> QED
  BY <1>2, <1>3, <1>6, <1>7, <1>8, <1>9, OneCallMoves DEF CallStep

\* A card that requires confirmation is executed only for a call the user said
\* yes to, whatever is deployed, synced or trusted between the gate and the
\* call: the server asks for the token, and prepare comes after the answer.
THEOREM OnlyConfirmedExecute == BridgeSpec => []ConfirmedExecution
<1>1. BridgeInit => ConfirmedExecution
  BY NewCallTyped DEF BridgeInit, ConfirmedExecution
<1> QED
  BY <1>1, BridgeBase, BridgeInductive, ConfirmedNext, PTL DEF BridgeSpec

LEMMA ReleasedNext ==
  ASSUME ReceiptsVerify, BridgeInv, ReleasedIsEndorsed, [BridgeNext]_vars
  PROVE  ReleasedIsEndorsed'
<1> DEFINE Good(h) == /\ call[h].intact /\ audit[h] = "verified"
                      /\ \E e \in Cards : Endorsed(e) /\ SameContract(e, call[h].ran)
<1> SUFFICES ASSUME NEW h \in Call, call'[h].result = "released" PROVE Good(h)'
  BY DEF ReleasedIsEndorsed
<1>t. /\ call[h] \in CallType /\ call \in [Call -> CallType] /\ CallFrame(h)
      /\ audit \in [Call -> {"none", "verified", "failed"}]
      /\ call[h].result = "released" => Good(h)
  BY DEF BridgeInv, BridgeTypeOK, CallType, ReleasedIsEndorsed
<1>1. CASE call'[h] = call[h] /\ audit'[h] = audit[h]
  <2>1. \A e : Endorsed(e) => Endorsed(e)'
    BY EndorsedKept
  <2> QED
    BY <1>1, <1>t, <2>1
<1>2. CASE Seal(h)
  <2> DEFINE g == call[h].glyph
             pinned == IF pins[g] # NoPin THEN pins[g].card ELSE BindingOf(h).card
             verified == ReceiptsVerify =>
               CheckEnvelope([card |-> call[h].ran, intact |-> call[h].intact], pinned)
  <2>1. /\ call[h].pc = "seal" /\ call[h].ran \in Cards /\ g \in Glyph
        /\ HasBinding(call[h].ref, g) /\ Endorsed(BindingOf(h).card)
        /\ call[h].result # "released"
    BY <1>2, <1>t DEF Seal, CallFrame, HasBinding
  <2>2. /\ call' = [call EXCEPT ![h].pc = "returned",
             ![h].result = IF verified THEN "released"
                           ELSE IF OnFailureBlock THEN "RECEIPT_INVALID" ELSE "warned"]
        /\ audit' = [audit EXCEPT ![h] = IF verified THEN "verified" ELSE "failed"]
    BY <1>2 DEF Seal
  <2>3. PICK p : p = pinned /\ p \in Cards /\ Endorsed(p)
    <3>1. CASE pins[g] # NoPin
      <4>1. pins[g].card \in Cards
        BY <2>1, <3>1 DEF BridgeInv, BridgeTypeOK, TypeOK, Pin
      <4>2. Endorsed(pins[g].card)
        BY <2>1, <3>1 DEF BridgeInv, IInv, PinsEndorsed
      <4> QED
        BY <3>1, <4>1, <4>2
    <3>2. CASE pins[g] = NoPin
      <4>1. BindingOf(h) \in Binding
        BY <2>1, HeapTyped DEF HasBinding, BindingOf
      <4> QED
        BY <2>1, <3>2, <4>1 DEF Binding
    <3> QED
      BY <3>1, <3>2
  <2>4. verified
    <3> HIDE DEF verified
    <3> QED
      BY <2>2, <1>t DEF CallType
  <2>5. call[h].intact /\ SameIdAndKey(call[h].ran, p)
    BY <2>3, <2>4 DEF CheckEnvelope
  <2>6. SameContract(p, call[h].ran)
    BY <2>1, <2>3, <2>5, CardsAssumption, SameIdAndKeyContract, SameContractSymmetric
  <2>7. Endorsed(p)'
    BY <2>3, EndorsedKept
  <2>8. call'[h].intact = call[h].intact /\ call'[h].ran = call[h].ran
    BY <2>2, <1>t DEF CallType
  <2>9. audit'[h] = "verified"
    <3> HIDE DEF verified
    <3> QED
      BY <2>2, <2>4, <1>t
  <2> QED
    BY <2>3, <2>5, <2>6, <2>7, <2>8, <2>9
\* Every other step of the call gives it another result.
<1>3. ASSUME NEW r, r # "released", Answer(h, r) PROVE FALSE
  BY <1>3, <1>t DEF Answer, CallType
<1>4. CASE Gate(h)
  <2>1. HasBinding(call[h].ref, call[h].glyph)
    BY <1>4, <1>t DEF Gate, CallFrame
  <2>2. BindingOf(h) \in Binding
    BY <2>1, HeapTyped DEF HasBinding, BindingOf
  <2>3. BindingOf(h).blocked # "released"
    BY <2>2, NoCodeIsNoResult DEF Binding
  <2>4. Step(h, "ask")
    BY <1>3, <1>4, <2>3 DEF Gate
  <2>5. call[h].result # "released"
    BY <1>4, <1>t DEF Gate, CallFrame
  <2> QED
    BY <1>t, <2>4, <2>5 DEF Step, CallType
<1>5. CASE Ask(h) \/ Prepare(h)
  <2>1. call[h].result # "released"
    BY <1>5, <1>t DEF Ask, Prepare, CallFrame
  <2> QED
    BY <1>5, <1>t, <2>1 DEF Ask, Prepare, Step, CallType
<1>6. CASE Confirm(h)
  <2>1. call[h].result # "released"
    BY <1>6, <1>t DEF Confirm, CallFrame
  <2>2. CASE call' = [call EXCEPT ![h].pc = "prepare", ![h].confirmed = TRUE]
    BY <2>2, <1>t, <2>1 DEF CallType
  <2> QED
    BY <1>3, <1>6, <2>2 DEF Confirm
<1>7. CASE PrepareFails(h) \/ SendFails(h) \/ SealRaises(h)
  BY <1>3, <1>7 DEF PrepareFails, SendFails, SealRaises
<1>8. CASE Execute(h)
  <2>1. call[h].result # "released"
    BY <1>8, <1>t DEF Execute, CallFrame
  <2> QED
    BY <1>8, <1>t, <2>1 DEF Execute, CallType
<1>9. ASSUME NEW g \in Glyph, Lookup(h, g) PROVE FALSE
  <2>1. call'[h].result \in {"NOT_FOUND", NoCode}
    BY <1>9, <1>t DEF Lookup, NewCall, CallType
  <2>2. "released" \notin {"NOT_FOUND", NoCode}
    BY NoCodeIsNoResult
  <2> QED
    BY <2>1, <2>2
<1> QED
  BY <1>1, <1>2, <1>4, <1>5, <1>6, <1>7, <1>8, <1>9, OneCallMoves DEF CallStep

\* With receipts verified, a result the model is handed arrived intact, is
\* recorded as verified, and came from a card with a contract someone agreed
\* to, whatever was re-pinned, revoked or republished while the call was away.
THEOREM ReleasedStaysEndorsed ==
  ASSUME ReceiptsVerify
  PROVE  BridgeSpec => []ReleasedIsEndorsed
<1>1. BridgeInit => ReleasedIsEndorsed
  BY NewCallTyped, NoCodeIsNoResult DEF BridgeInit, ReleasedIsEndorsed
<1>2. BridgeInv /\ ReleasedIsEndorsed /\ [BridgeNext]_vars => ReleasedIsEndorsed'
  BY ReleasedNext
<1> QED
  BY <1>1, <1>2, BridgeBase, BridgeInductive, PTL DEF BridgeSpec

----------------------------------------------------------------------------
(* What `/glyph trust' shows is what it approves.                          *)

\* Between the diff and the approval of a command that overlaps nothing,
\* nothing else is under way, so the queue still holds the card shown.
ShownFrame(o) ==
  cmd[o].pc = "pick" /\ ~cmd[o].overlapped =>
    /\ sync.pc = "idle" /\ \A p \in Command \ {o} : ~Running(p)
    /\ Parked(o, cmd[o].glyph) = cmd[o].shown

LEMMA UnderWay ==
  ASSUME BridgeInv
  PROVE  /\ SyncStep => sync.pc # "idle"
         /\ \A o \in Command : CommandStep(o) => Running(o)
<1>t. TypeOK /\ Frames
  BY DEF BridgeInv, IInv
<1>1. ASSUME NEW a \in Actor, TrustStep(a) PROVE op[a] # Idle
  BY <1>t, <1>1, ContinueFrame, IdleFrame DEF TrustStep, SaveMoves, SavePcs
<1>2. SyncStep => sync.pc # "idle"
  <2>1. sync.pc = "idle" => op[Syncer] = Idle
    BY DEF BridgeInv, SyncFrame
  <2> QED
    BY <1>1, <2>1, Actors DEF SyncStep, FetchCard, FetchFails, Bind, SyncAborts, Publish
<1>3. ASSUME NEW o \in Command, CommandStep(o) PROVE Running(o)
  <2>1. ~Running(o) => op[o] = Idle
    BY DEF BridgeInv, CommandCall, Running
  <2> QED
    BY <1>1, <1>3, <2>1, Actors
    DEF CommandStep, PickCard, TrustApprove, TrustReturns, BindCard, Unblock,
        GateAttestation, BlockRevoked, Running
<1> QED
  BY <1>2, <1>3

LEMMA ShownNext ==
  ASSUME BridgeInv, \A o \in Command : ShownFrame(o), ShownIsApproved, [BridgeNext]_vars
  PROVE  (\A o \in Command : ShownFrame(o))' /\ ShownIsApproved'
<1> DEFINE Approved(o) == cmd[o].card # NoCard /\ cmd[o].shown # NoCard /\ ~cmd[o].overlapped
                            => cmd[o].card = cmd[o].shown
<1> SUFFICES ASSUME NEW o \in Command PROVE ShownFrame(o)' /\ Approved(o)'
  BY DEF ShownIsApproved
<1>t. /\ CommandTyped /\ TypeOK /\ Frames /\ CommandFrame(o)
      /\ ShownFrame(o) /\ Approved(o)
      /\ \A p \in Command : Running(p) \in BOOLEAN /\ cmd[p].overlapped \in BOOLEAN
  BY DEF BridgeInv, BridgeTypeOK, IInv, CommandTyped, CommandType, Running, ShownIsApproved
\* Something else begins: a command on its way is overlapped from now on.
<1>1. ASSUME cmd'[o] = [cmd[o] EXCEPT !.overlapped = @ \/ Running(o)]
      PROVE  ShownFrame(o)' /\ Approved(o)'
  <2>1. /\ cmd'[o].pc = cmd[o].pc /\ cmd'[o].card = cmd[o].card
        /\ cmd'[o].shown = cmd[o].shown
        /\ cmd'[o].overlapped = (cmd[o].overlapped \/ Running(o))
    BY <1>1, <1>t DEF CommandTyped, CommandType
  <2> QED
    BY <1>t, <2>1 DEF ShownFrame, Running
<1>2. ASSUME NEW p \in Command \ {o}, NEW g \in Glyph,
             TrustTool(p, g) \/ RevokeTool(p, g)
      PROVE  ShownFrame(o)' /\ Approved(o)'
  BY <1>1, <1>2 DEF TrustTool, RevokeTool, Start
<1>3. CASE Handshake
  BY <1>1, <1>3 DEF Handshake
\* The command itself begins.
<1>4. ASSUME NEW g \in Glyph, RevokeTool(o, g) PROVE ShownFrame(o)' /\ Approved(o)'
  <2>1. Start(o, g, "revoking", NoCard)
    BY <1>4 DEF RevokeTool
  <2>2. cmd'[o].pc = "revoking" /\ cmd'[o].card = NoCard
    BY <2>1, StartCommand
  <2> QED
    BY <2>2 DEF ShownFrame
<1>5. ASSUME NEW g \in Glyph, TrustTool(o, g) PROVE ShownFrame(o)' /\ Approved(o)'
  <2>1. Parked(o, g) \in Cards \union {NoCard}
    BY <1>t, Actors, ActorsAssumption DEF Parked, TypeOK, Queue
  <2>2. PICK shown \in Cards \union {NoCard} :
          shown = Parked(o, g) /\ Start(o, g, "pick", shown)
    BY <1>5, <2>1 DEF TrustTool
  <2>3. /\ cmd'[o].pc = "pick" /\ cmd'[o].glyph = g /\ cmd'[o].card = NoCard
        /\ cmd'[o].shown = shown /\ cmd'[o].overlapped = ~AtRest
        /\ \A p \in Command \ {o} :
             cmd'[p] = [cmd[p] EXCEPT !.overlapped = @ \/ Running(p)]
    BY <2>2, StartCommand
  <2>4. UNCHANGED <<sync, pending>>
    BY <1>5 DEF TrustTool, trustVars
  <2>5. \A p \in Command \ {o} : cmd'[p].pc = cmd[p].pc
    BY <1>t, <2>3 DEF CommandTyped, CommandType
  <2>6. ~cmd'[o].overlapped => sync.pc = "idle" /\ \A p \in Command \ {o} : ~Running(p)
    BY <2>3 DEF AtRest
  <2> QED
    BY <2>2, <2>3, <2>4, <2>5, <2>6 DEF ShownFrame, Parked, Running
\* The command approves.
<1>6. CASE PickCard(o)
  <2>1. CASE cmd' = [cmd EXCEPT ![o].pc = "done"]
    <3>1. /\ cmd'[o].pc = "done" /\ cmd'[o].card = cmd[o].card
          /\ cmd'[o].shown = cmd[o].shown /\ cmd'[o].overlapped = cmd[o].overlapped
      BY <1>t, <2>1 DEF CommandTyped, CommandType
    <3> QED
      BY <1>t, <3>1 DEF ShownFrame
  <2>2. CASE cmd' = [cmd EXCEPT ![o] = [@ EXCEPT !.pc = "approve", !.ref = Len(heap),
                                         !.card = CardToTrust(o, cmd[o].glyph)]]
    <3>1. /\ cmd'[o].pc = "approve" /\ cmd'[o].card = CardToTrust(o, cmd[o].glyph)
          /\ cmd'[o].shown = cmd[o].shown /\ cmd'[o].overlapped = cmd[o].overlapped
      BY <1>t, <2>2 DEF CommandTyped, CommandType
    <3>2. ~cmd[o].overlapped => Parked(o, cmd[o].glyph) = cmd[o].shown
      BY <1>6, <1>t DEF PickCard, ShownFrame
    <3>3. ~cmd[o].overlapped /\ cmd[o].shown # NoCard
            => CardToTrust(o, cmd[o].glyph) = cmd[o].shown
      BY <3>2 DEF CardToTrust
    <3> QED
      BY <3>1, <3>3 DEF ShownFrame
  <2> QED
    BY <1>6, <2>1, <2>2 DEF PickCard
\* It goes on.
<1>7. CASE CommandStep(o) /\ ~PickCard(o)
  <2>1. CASE TrustStep(o)
    <3>1. cmd[o].pc # "pick"
      <4>1. op[o] # Idle
        BY <1>t, <2>1, Actors, ContinueFrame, IdleFrame
        DEF TrustStep, SaveMoves, SavePcs
      <4> QED
        BY <4>1 DEF BridgeInv, CommandCall
    <3> QED
      BY <1>t, <2>1, <3>1 DEF TrustStep, bridgeVars, ShownFrame
  <2>2. CASE ~TrustStep(o)
    <3>1. PICK pc \in {"approving", "bind", "unblock", "gate", "block", "done"} :
            cmd' = [cmd EXCEPT ![o].pc = pc]
      BY <1>7, <2>2 DEF CommandStep, TrustApprove, TrustReturns, BindCard, Unblock,
                        GateAttestation, BlockRevoked
    <3>2. /\ cmd'[o].pc = pc /\ cmd'[o].card = cmd[o].card
          /\ cmd'[o].shown = cmd[o].shown /\ cmd'[o].overlapped = cmd[o].overlapped
      BY <1>t, <3>1 DEF CommandTyped, CommandType
    <3> QED
      BY <1>t, <3>2 DEF ShownFrame
  <2> QED
    BY <2>1, <2>2
\* The steps of the others, which do not exist between the diff and the approval.
<1>8. ASSUME cmd'[o] = cmd[o], cmd[o].pc = "pick" => cmd[o].overlapped
      PROVE  ShownFrame(o)' /\ Approved(o)'
  BY <1>t, <1>8 DEF ShownFrame
<1>9. CASE SyncStep
  <2>1. UNCHANGED cmd
    BY <1>9 DEF SyncStep, FetchCard, FetchFails, TrustStep, Bind, SyncAborts, Publish,
                bridgeVars
  <2> QED
    BY <1>8, <1>9, <1>t, <2>1, UnderWay DEF ShownFrame
<1>10. ASSUME NEW p \in Command \ {o}, CommandStep(p)
       PROVE  ShownFrame(o)' /\ Approved(o)'
  <2>1. cmd'[o] = cmd[o]
    BY <1>10, <1>t DEF CommandStep, TrustStep, PickCard, TrustApprove, TrustReturns,
                       BindCard, Unblock, GateAttestation, BlockRevoked, bridgeVars,
                       CommandTyped
  <2> QED
    BY <1>8, <1>10, <1>t, <2>1, UnderWay DEF ShownFrame
\* The calls and the server do not touch the queue, the syncs or the commands.
<1>11. ASSUME UNCHANGED <<cmd, sync, pending>> PROVE ShownFrame(o)' /\ Approved(o)'
  BY <1>t, <1>11 DEF ShownFrame, Parked, Running
<1>12. ASSUME NEW h \in Call, CallStep(h) \/ Expire(h) \/ \E g \in Glyph : Lookup(h, g)
       PROVE  ShownFrame(o)' /\ Approved(o)'
  BY <1>11, <1>12
  DEF CallStep, Expire, Lookup, Gate, Ask, Confirm, Prepare, PrepareFails,
      Execute, SendFails, Seal, SealRaises, Step, Answer, trustVars
<1>13. ASSUME NEW g \in Glyph, NEW c \in Cards \union {NoCard}, Deploy(g, c)
       PROVE  ShownFrame(o)' /\ Approved(o)'
  BY <1>11, <1>13 DEF Deploy, trustVars
<1>14. CASE UNCHANGED vars
  BY <1>11, <1>14 DEF vars, trustVars, bridgeVars
<1> QED
  BY <1>2, <1>3, <1>4, <1>5, <1>6, <1>7, <1>9, <1>10, <1>12, <1>13, <1>14
  DEF BridgeNext

\* A `/glyph trust' that shows a diff, and that no sync and no other command
\* overlaps, approves the card it showed: the two lookups of trust_tool find
\* the same card.
THEOREM ShownStaysApproved == BridgeSpec => []ShownIsApproved
<1> DEFINE Shown == (\A o \in Command : ShownFrame(o)) /\ ShownIsApproved
<1>1. BridgeInit => Shown
  BY NewCommandTyped DEF BridgeInit, ShownFrame, ShownIsApproved
<1>2. BridgeInv /\ Shown /\ [BridgeNext]_vars => Shown'
  BY ShownNext
<1> QED
  BY <1>1, <1>2, BridgeBase, BridgeInductive, PTL DEF BridgeSpec

----------------------------------------------------------------------------
(* The bridge uses the trust manager, and nothing else changes its state.  *)

\* Whatever syncs and commands do, what they do to the pins and to the queue
\* is a behaviour of the trust manager: what is proved of TrustSpec holds here.
THEOREM BridgeUsesTrust == BridgeSpec => TrustSpec
<1>1. BridgeInit => TrustInit
  BY DEF BridgeInit
<1>2. BridgeInv /\ [BridgeNext]_vars => [TrustNext]_trustVars
  BY ManagerStep
<1> QED
  BY <1>1, <1>2, BridgeBase, BridgeInductive, PTL DEF BridgeSpec, TrustSpec

\* Under the bridge too, no pin drifts across a change nobody agreed to.
THEOREM BridgePinsEndorsed == BridgeSpec => []PinsEndorsed
BY BridgeUsesTrust, PinsStayEndorsed, PTL

\* Nor does a sync take a card for pinned whose contract nobody agreed to.
THEOREM BridgeAnswersEndorsed == BridgeSpec => []AnswersEndorsed
BY BridgeUsesTrust, AnswersStayEndorsed, PTL

\* In one process with a disk that works, the file is the queue whenever no
\* sync and no command is on its way to save it, if the saves came one after the
\* other since one that ran alone.
THEOREM BridgeQueueDurable ==
  ASSUME \A p, q \in Proc : p = q, ~WriteFaults
  PROVE  BridgeSpec => []QueueDurable
<1>1. TrustSpec => []QueueDurable
  BY QueueStaysDurable
<1> QED
  BY <1>1, BridgeUsesTrust, PTL

\* With any number of processes, and with failing writes, the queue file
\* changes only as a whole while the saves of syncs and commands do not overlap.
THEOREM BridgeQueueIntact == BridgeSpec => QueueIntact
BY BridgeUsesTrust, QueueStaysIntact, PTL

\* And a save that overlaps no other finds the file it renames.
THEOREM BridgeLoneSave == BridgeSpec => []RaisesOnlyWhenMixed
BY BridgeUsesTrust, LoneSaveFindsItsFile, PTL

----------------------------------------------------------------------------
(* What is callable has a live pin, as long as nothing overlaps.           *)

NoOverlap == \A o \in Command : ~cmd[o].overlapped

\* A callable tool has a live pin, and passes the attestation policy unless the
\* gate raises on its card.
LivePin(g, c) ==
  pins[g] # NoPin /\ ~pins[g].revoked /\ SameContract(pins[g].card, c)
Matches(g, b) ==
  b # NoBinding /\ b.blocked = NoCode =>
    LivePin(g, b.card) /\ AttestationCode(b.card) \in {NoCode, GateRaised}

\* Every card is filed under its own glyph.
Filed(table) == \A g \in Glyph : table[g] # NoCard => table[g].name = g
Bound(dict) == \A g \in Glyph : dict[g] # NoBinding => dict[g].card.name = g
Approving(o) == cmd[o].pc \in {"approve", "approving", "bind", "unblock", "gate"}
FilesNamed ==
  /\ Filed(file.queue) /\ Filed(tmp.queue)
  /\ \A a \in Actor : Saving(a) => Filed(op[a].dump)
NamesInv ==
  /\ \A p \in Proc : Filed(pending[p])
  /\ FilesNamed
  /\ Bound(sync.dict) /\ \A i \in 1..Len(heap) : Bound(heap[i])
  /\ \A o \in Command :
       /\ Approving(o) => cmd[o].card.name = cmd[o].glyph
       /\ cmd[o].pc = "revoking" => op[o].name = cmd[o].glyph

\* One thing at a time.
Serial ==
  /\ sync.pc # "idle" => \A o \in Command : ~Running(o)
  /\ \A o, p \in Command : Running(o) /\ Running(p) => o = p

\* A sync publishes what it found in the store: nobody else writes it.
SyncMatches ==
  /\ \A g \in Glyph : Matches(g, sync.dict[g])
  /\ At(Syncer, "decide") => op[Syncer].pin = pins[op[Syncer].card.name]
  /\ op[Syncer].pc \in SavePcs \union {"done"} /\ op[Syncer].status = "pinned"
       => LivePin(op[Syncer].card.name, op[Syncer].card)

\* A command under way: between its write to the store and its last assignment
\* the binding of its glyph may disagree, no other does.
Written(o) ==
  \/ cmd[o].pc \in {"approving", "revoking"} /\ op[o].status \in {"approved", "revoked"}
  \/ cmd[o].pc \in {"bind", "unblock", "gate", "block"}
CommandMatches(o) ==
  /\ cmd[o].ref = Len(heap)
  /\ \A g \in Glyph : g # cmd[o].glyph => Matches(g, Bindings[g])
  /\ ~Written(o) => Matches(cmd[o].glyph, Bindings[cmd[o].glyph])
  /\ Written(o) /\ Approving(o) => pins[cmd[o].glyph] = PinOf(cmd[o].card)
  /\ cmd[o].pc \in {"unblock", "gate"} => Bindings[cmd[o].glyph].card = cmd[o].card
  /\ Saving(o) => op[o].alone

AllMatch == \A g \in Glyph : Matches(g, Bindings[g])

SerialInv ==
  /\ \A o \in Command : cmd[o].pc = "new" => ~cmd[o].overlapped
  /\ NoOverlap =>
       /\ Serial
       /\ sync.pc # "idle" => SyncMatches
       /\ \A o \in Command : Running(o) => CommandMatches(o)
       /\ (\A o \in Command : ~Running(o)) => AllMatch

\* The queue, the files and the dumps keep every card under its glyph.
LEMMA SaveNames ==
  ASSUME TypeOK, \A p \in Proc : Filed(pending[p]), FilesNamed, NEW a \in Actor,
         SaveStep(a)
  PROVE  FilesNamed'
<1>q. /\ Filed(NoFile.queue) /\ Filed(Emptied.queue) /\ Filed(Torn.queue)
      /\ \A q : Dumped(q).queue = q
  BY DEF Filed, NoFile, Emptied, Torn, NothingParked, Dumped
<1>a. /\ op \in [Actor -> Calls] /\ Filed(pending[ProcOf[a]])
      /\ Filed(file.queue) /\ Filed(tmp.queue)
  BY ActorsAssumption DEF TypeOK, FilesNamed
<1>f. ASSUME Filed(file'.queue), Filed(tmp'.queue),
             \A b \in Actor : Saving(b)' => Filed(op'[b].dump)
      PROVE  FilesNamed'
  BY <1>f DEF FilesNamed, Filed
<1>o. ASSUME \A b \in Actor : Saving(b)' => Saving(b) /\ op'[b].dump = op[b].dump,
             Filed(file'.queue), Filed(tmp'.queue)
      PROVE  FilesNamed'
  BY <1>f, <1>o DEF FilesNamed
<1>w. ASSUME NEW text, WriteText(a, text), Filed(text.queue)
      PROVE  Filed(file'.queue) /\ Filed(tmp'.queue)
  BY <1>a, <1>w DEF WriteText
<1>1. CASE Dump(a)
  <2>1. \A b \in Actor : Saving(b)' =>
          \/ op'[b].dump = pending[ProcOf[a]]
          \/ Saving(b) /\ op'[b].dump = op[b].dump
    <3>1. \A f \in Calls : /\ [f EXCEPT !.alone = FALSE].pc = f.pc
                            /\ [f EXCEPT !.alone = FALSE].dump = f.dump
      BY DEF Calls
    <3>2. op'[a].dump = pending[ProcOf[a]]
      <4> DEFINE frame == [op[a] EXCEPT !.pc = "open", !.dump = pending[ProcOf[a]],
                                        !.alone = ~OthersSave(a)]
      <4>1. (~OthersSave(a)) \in BOOLEAN /\ op[a] \in Calls
        BY <1>a
      <4>2. frame.dump = pending[ProcOf[a]]
        BY <4>1 DEF Calls
      <4>3. op'[a] = frame
        BY <1>1 DEF Dump
      <4> QED
        BY <4>2, <4>3
    <3>3. \A b \in Actor \ {a} : op'[b] = [op[b] EXCEPT !.alone = FALSE]
      BY <1>1 DEF Dump
    <3>4. \A b \in Actor \ {a} : op'[b].pc = op[b].pc /\ op'[b].dump = op[b].dump
      BY <1>a, <3>1, <3>3
    <3> QED
      BY <3>2, <3>4 DEF Saving
  <2>2. \A b \in Actor : Saving(b)' => Filed(op'[b].dump)
    BY <1>a, <2>1 DEF FilesNamed
  <2> QED
    BY <1>1, <1>a, <1>f, <2>2 DEF Dump
<1>3. CASE Open(a)
  <2>1. \A b \in Actor : Saving(b)' => Saving(b) /\ op'[b].dump = op[b].dump
    BY <1>3, <1>a DEF Open, At, Saving, Calls
  <2> QED
    BY <1>3, <1>a, <1>o, <1>q, <2>1 DEF Open
<1>4. CASE Write(a)
  <2>1. \A b \in Actor : Saving(b)' => Saving(b) /\ op'[b].dump = op[b].dump
    BY <1>4, <1>a DEF Write, At, Saving, Calls
  <2>2. Filed(op[a].dump)
    BY <1>4 DEF FilesNamed, Write, At, Saving
  <2> QED
    BY <1>4, <1>q, <1>o, <1>w, <2>1, <2>2 DEF Write
<1>5. CASE Rename(a)
  <2>1. \A b \in Actor : Saving(b)' => Saving(b) /\ op'[b].dump = op[b].dump
    BY <1>5, <1>a DEF Rename, Saved, Saving, Calls
  <2> QED
    BY <1>5, <1>a, <1>o, <1>q, <2>1 DEF Rename
<1>6. ASSUME op' = [op EXCEPT ![a] = Saved(a, "raised")]
      PROVE  \A b \in Actor : Saving(b)' => Saving(b) /\ op'[b].dump = op[b].dump
  <2>1. Saved(a, "raised").pc = "done"
    BY SavedFrame DEF Statuses
  <2> QED
    BY <1>6, <1>a, <2>1 DEF Saving
<1>8. CASE SaveRaises(a)
  BY <1>6, <1>8, <1>a, <1>o, <1>q, <1>w DEF SaveRaises
<1> QED
  BY <1>1, <1>3, <1>4, <1>5, <1>8 DEF SaveStep

LEMMA QueueNames ==
  ASSUME TypeOK, Frames, \A p \in Proc : Filed(pending[p]), FilesNamed,
         [TrustNext]_trustVars
  PROVE  (\A p \in Proc : Filed(pending[p]))' /\ FilesNamed'
<1> DEFINE Queues == (\A p \in Proc : Filed(pending[p]))'
<1>1. ASSUME UNCHANGED pending PROVE Queues
  BY <1>1 DEF Filed
<1>2. ASSUME NEW a \in Actor, NEW g, NEW c, SetPending(a, g, c), c # NoCard => c.name = g
      PROVE  Queues
  BY <1>2, ActorsAssumption DEF SetPending, TypeOK, Queue, Filed
<1>3. ASSUME NEW a \in Actor, MatchPin(a) \/ Unpark(a) PROVE Queues
  BY <1>2, <1>3 DEF MatchPin, Unpark
<1>4. ASSUME NEW a \in Actor, Park(a) PROVE Queues
  BY <1>2, <1>4 DEF Park, Deciding, Frames
<1>5. ASSUME NEW p \in Proc, Restart(p) PROVE Queues
  BY <1>5 DEF Restart, TypeOK, Filed, FilesNamed
<1>6. ASSUME NEW a \in Actor,
             \/ TofuPin(a) \/ Refuse(a) \/ AutoRepin(a) \/ RevokePut(a) \/ SaveStep(a)
             \/ Return(a)
             \/ \E c \in Cards : Evaluate(a, c) \/ Approve(a, c) \/ RefuseApproval(a, c)
             \/ \E g \in Glyph : Revoke(a, g)
      PROVE  Queues
  <2>1. SaveStep(a) => UNCHANGED pending
    BY SaveFiles
  <2> QED
    BY <1>1, <1>6, <2>1
    DEF TofuPin, Refuse, AutoRepin, RevokePut, Return, Evaluate, Approve, RefuseApproval,
        Revoke
<1>7. ASSUME UNCHANGED trustVars PROVE Queues
  BY <1>1, <1>7 DEF trustVars
<1>8. Queues
  BY <1>3, <1>4, <1>5, <1>6, <1>7 DEF TrustNext, Continue, SaveStep
<1>9. CASE \A a \in Actor : ~SaveStep(a)
  <2>1. /\ UNCHANGED <<file, tmp>>
        /\ \A b \in Actor : Saving(b)' => op'[b] = op[b]
    BY <1>9, NotSaving DEF files, Saving
  <2>2. \A b \in Actor : op'[b] = op[b] => Saving(b)' = Saving(b)
    BY DEF Saving
  <2>3. \A b \in Actor : Saving(b)' => Filed(op[b].dump) /\ op'[b].dump = op[b].dump
    BY <2>1, <2>2 DEF FilesNamed
  <2> QED
    BY <1>8, <2>1, <2>3 DEF FilesNamed, Filed
<1>10. CASE \E a \in Actor : SaveStep(a)
  BY <1>8, <1>10, SaveNames
<1> QED
  BY <1>8, <1>9, <1>10

\* What an assignment of a command changes.
Assigned(o, card, blocked) ==
  /\ Len(heap') = Len(heap) /\ cmd[o].ref \in 1..Len(heap) /\ cmd[o].glyph \in Glyph
  /\ \A i \in 1..Len(heap), g \in Glyph :
       i # cmd[o].ref \/ g # cmd[o].glyph => heap'[i][g] = heap[i][g]
  /\ heap'[cmd[o].ref][cmd[o].glyph] # NoBinding
  /\ heap'[cmd[o].ref][cmd[o].glyph].card = card
  /\ heap'[cmd[o].ref][cmd[o].glyph].blocked = blocked

LEMMA AssignBinding ==
  ASSUME BridgeInv, NEW o \in Command, Running(o)
  PROVE  /\ \A c \in Cards : SetCard(o, c)
              => Assigned(o, c, heap[cmd[o].ref][cmd[o].glyph].blocked)
         /\ \A code \in Codes : SetBlocked(o, code)
              => Assigned(o, heap[cmd[o].ref][cmd[o].glyph].card, code)
<1>1. PICK i \in 1..Len(heap), g \in Glyph :
        i = cmd[o].ref /\ g = cmd[o].glyph /\ heap[i][g] # NoBinding
  BY DEF Running, BridgeInv, CommandFrame, HasBinding
<1>2. heap \in Seq(Dict) /\ heap[i][g] \in Binding
  BY <1>1, HeapTyped
<1>3. ASSUME NEW b \in Binding, heap' = [heap EXCEPT ![i][g] = b]
      PROVE  Assigned(o, b.card, b.blocked)
  <2>1. Mutates(i, g, b)
    BY <1>2, <1>3, SetBinding, Zenon
  <2> QED
    BY <1>1, <2>1, BridgeAssumption DEF Mutates, Assigned
<1>4. ASSUME NEW c \in Cards, SetCard(o, c)
      PROVE  Assigned(o, c, heap[i][g].blocked)
  <2>1. [heap[i][g] EXCEPT !.card = c] \in Binding
    BY <1>2 DEF Binding
  <2>2. PICK b \in Binding : b = [heap[i][g] EXCEPT !.card = c]
    BY <2>1
  <2>3. b.card = c /\ b.blocked = heap[i][g].blocked
    BY <1>2, <2>2 DEF Binding
  <2>4. heap' = [heap EXCEPT ![i][g] = b]
    BY <1>1, <1>4, <2>2 DEF SetCard
  <2> QED
    BY <1>3, <2>3, <2>4, Zenon
<1>5. ASSUME NEW code \in Codes, SetBlocked(o, code)
      PROVE  Assigned(o, heap[i][g].card, code)
  <2>1. [heap[i][g] EXCEPT !.blocked = code] \in Binding
    BY <1>2 DEF Binding
  <2>2. PICK b \in Binding : b = [heap[i][g] EXCEPT !.blocked = code]
    BY <2>1
  <2>3. b.blocked = code /\ b.card = heap[i][g].card
    BY <1>2, <2>2 DEF Binding
  <2>4. heap' = [heap EXCEPT ![i][g] = b]
    BY <1>1, <1>5, <2>2 DEF SetBlocked
  <2> QED
    BY <1>3, <2>3, <2>4, Zenon
<1> QED
  BY <1>1, <1>4, <1>5
\* The steps of the others leave a command where it is.
LEMMA OtherSteps ==
  ASSUME BridgeInv, [BridgeNext]_vars, NEW o \in Command,
         ~CommandStep(o), \A g \in Glyph : ~TrustTool(o, g) /\ ~RevokeTool(o, g)
  PROVE  /\ cmd'[o].pc = cmd[o].pc /\ cmd'[o].card = cmd[o].card
         /\ cmd'[o].glyph = cmd[o].glyph /\ cmd'[o].ref = cmd[o].ref
         /\ \/ cmd'[o].overlapped = cmd[o].overlapped
            \/ cmd'[o].overlapped = (cmd[o].overlapped \/ Running(o))
         /\ SameCall(op'[o], op[o])
<1>t. /\ CommandTyped /\ TypeOK /\ Frames
      /\ \A p \in Command : CommandFrame(p) /\ Running(p) \in BOOLEAN
  BY DEF BridgeInv, BridgeTypeOK, IInv, CommandTyped, CommandType, Running
<1>s. UNCHANGED op => SameCall(op'[o], op[o])
  BY DEF SameCall
<1> DEFINE Kept == /\ cmd'[o].pc = cmd[o].pc /\ cmd'[o].card = cmd[o].card
                   /\ cmd'[o].glyph = cmd[o].glyph /\ cmd'[o].ref = cmd[o].ref
                   /\ \/ cmd'[o].overlapped = cmd[o].overlapped
                      \/ cmd'[o].overlapped = (cmd[o].overlapped \/ Running(o))
<1>1. ASSUME cmd'[o] = [cmd[o] EXCEPT !.overlapped = @ \/ Running(o)] PROVE Kept
  BY <1>t, <1>1 DEF CommandTyped, CommandType
<1>2. ASSUME cmd'[o] = cmd[o] PROVE Kept
  BY <1>2
<1>3. ASSUME NEW a \in Actor, a # o, ManagerCall(a) \/ UNCHANGED op
      PROVE  SameCall(op'[o], op[o])
  BY <1>s, <1>t, <1>3, Actors, OthersKept
<1>4. CASE Handshake
  BY <1>1, <1>4, <1>s DEF Handshake, trustVars
<1>5. CASE SyncStep
  <2>1. UNCHANGED cmd
    BY <1>5 DEF SyncStep, FetchCard, FetchFails, TrustStep, Bind, SyncAborts, Publish,
                bridgeVars
  <2>2. UNCHANGED op \/ ManagerCall(Syncer)
    <3>1. CASE FetchCard
      <4>1. \E g \in sync.todo : server[g] # NoCard /\ Evaluate(Syncer, server[g])
        BY <3>1 DEF FetchCard
      <4>2. \A g \in sync.todo : server[g] # NoCard => server[g] \in Cards
        BY DEF BridgeInv, BridgeTypeOK
      <4> QED
        BY <4>1, <4>2 DEF ManagerCall
    <3>2. CASE ~FetchCard
      BY <1>5, <3>2 DEF SyncStep, FetchFails, TrustStep, Bind, SyncAborts, Publish,
                        trustVars, ManagerCall
    <3> QED
      BY <3>1, <3>2
  <2> QED
    BY <1>2, <1>3, <2>1, <2>2, Actors
<1>6. ASSUME NEW p \in Command, p # o, NEW g \in Glyph, TrustTool(p, g) \/ RevokeTool(p, g)
      PROVE  Kept /\ SameCall(op'[o], op[o])
  <2>1. cmd'[o] = [cmd[o] EXCEPT !.overlapped = @ \/ Running(o)]
    BY <1>6 DEF TrustTool, RevokeTool, Start
  <2>2. ManagerCall(p) \/ UNCHANGED op
    BY <1>6 DEF TrustTool, RevokeTool, trustVars, ManagerCall
  <2> QED
    BY <1>1, <1>3, <1>6, <2>1, <2>2, Actors
<1>7. ASSUME NEW p \in Command, p # o, CommandStep(p)
      PROVE  Kept /\ SameCall(op'[o], op[o])
  <2>1. cmd'[o] = cmd[o]
    BY <1>7, <1>t DEF CommandStep, TrustStep, PickCard, TrustApprove, TrustReturns,
                      BindCard, Unblock, GateAttestation, BlockRevoked, bridgeVars,
                      CommandTyped
  <2>2. ManagerCall(p) \/ UNCHANGED op
    <3>1. CASE TrustApprove(p)
      <4>1. cmd[p].card \in Cards
        BY <1>t, <3>1 DEF TrustApprove, CommandFrame
      <4> QED
        BY <3>1, <4>1 DEF TrustApprove, ManagerCall
    <3>2. CASE ~TrustApprove(p)
      BY <1>7, <3>2 DEF CommandStep, TrustStep, PickCard, TrustReturns, BindCard, Unblock,
                        GateAttestation, BlockRevoked, trustVars, ManagerCall
    <3> QED
      BY <3>1, <3>2
  <2> QED
    BY <1>2, <1>3, <1>7, <2>1, <2>2, Actors
<1>8. ASSUME UNCHANGED <<cmd, op>> PROVE Kept /\ SameCall(op'[o], op[o])
  BY <1>8, <1>s
<1>9. ASSUME NEW h \in Call, CallStep(h) \/ Expire(h) \/ \E g \in Glyph : Lookup(h, g)
      PROVE  Kept /\ SameCall(op'[o], op[o])
  BY <1>8, <1>9 DEF CallStep, Expire, Lookup, Gate, Ask, Confirm, Prepare, PrepareFails,
                    Execute, SendFails, Seal, SealRaises, Step, Answer, trustVars
<1>10. ASSUME NEW g \in Glyph, NEW c \in Cards \union {NoCard}, Deploy(g, c)
       PROVE  Kept /\ SameCall(op'[o], op[o])
  BY <1>8, <1>10 DEF Deploy, trustVars
<1>11. CASE UNCHANGED vars
  BY <1>8, <1>11 DEF vars, trustVars, bridgeVars
<1> QED
  BY <1>4, <1>5, <1>6, <1>7, <1>9, <1>10, <1>11 DEF BridgeNext
LEMMA NamesNext ==
  ASSUME BridgeInv, NamesInv, [BridgeNext]_vars
  PROVE  NamesInv'
<1>t. /\ CommandTyped /\ TypeOK /\ Frames /\ Len(heap) \in Nat /\ heap \in Seq(Dict)
      /\ \A o \in Command : CommandFrame(o) /\ CommandCall(o)
      /\ Bindings \in Dict
  BY HeapTyped DEF BridgeInv, BridgeTypeOK, IInv, CommandTyped, CommandType
<1>q. (\A p \in Proc : Filed(pending[p]))' /\ FilesNamed'
  BY <1>t, ManagerStep, QueueNames DEF NamesInv
<1> DEFINE Dicts == Bound(sync.dict) /\ \A i \in 1..Len(heap) : Bound(heap[i])
           Named(o) == /\ Approving(o) => cmd[o].card.name = cmd[o].glyph
                       /\ cmd[o].pc = "revoking" => op[o].name = cmd[o].glyph
<1>n. Dicts /\ \A o \in Command : Named(o)
  BY DEF NamesInv
<1>d. Dicts'
  <2>1. ASSUME UNCHANGED <<sync, heap>> PROVE Dicts'
    BY <1>n, <2>1 DEF Bound
  <2>2. CASE Handshake \/ SyncAborts
    <3>1. sync'.dict = Unbound /\ UNCHANGED heap
      BY <2>2, NoSyncTyped DEF Handshake, SyncAborts, NoSync
    <3> QED
      BY <1>n, <3>1, NoSyncTyped DEF Bound
  <2>3. CASE FetchCard \/ FetchFails
    <3>1. sync'.dict = sync.dict /\ UNCHANGED heap
      BY <2>3 DEF FetchCard, FetchFails, BridgeInv, BridgeTypeOK
    <3> QED
      BY <1>n, <3>1 DEF Bound
  <2>4. CASE Bind
    <3>1. /\ sync.glyph \in Glyph /\ op[Syncer].card.name = sync.glyph
          /\ sync.dict \in Dict
      BY <2>4 DEF Bind, BridgeInv, BridgeTypeOK, SyncFrame
    <3>2. PICK b : b = [card |-> op[Syncer].card,
                        blocked |-> BlockedCode(op[Syncer].status, op[Syncer].card)]
      OBVIOUS
    <3>3. b.card = op[Syncer].card
      BY <3>2
    <3>4. sync'.dict = [sync.dict EXCEPT ![sync.glyph] = b] /\ UNCHANGED heap
      BY <2>4, <3>2 DEF Bind, BridgeInv, BridgeTypeOK
    <3> QED
      BY <1>n, <3>1, <3>3, <3>4 DEF Bound, Dict
  <2>5. CASE Publish
    <3>1. heap' = Append(heap, sync.dict) /\ sync' = NoSync /\ sync.dict \in Dict
      BY <2>5 DEF Publish, BridgeInv, BridgeTypeOK
    <3>2. /\ Len(heap') = Len(heap) + 1 /\ heap'[Len(heap) + 1] = sync.dict
          /\ \A i \in 1..Len(heap) : heap'[i] = heap[i]
      BY <1>t, <3>1, AppendProperties
    <3>3. \A i \in 1..Len(heap') : heap'[i] = sync.dict \/ i \in 1..Len(heap)
      BY <1>t, <3>2
    <3> QED
      BY <1>n, <3>1, <3>2, <3>3, NoSyncTyped DEF Bound
  <2>6. ASSUME NEW o \in Command, NEW c, NEW code, Assigned(o, c, code), UNCHANGED sync,
               c.name = cmd[o].glyph
        PROVE  Dicts'
    BY <1>n, <2>6 DEF Assigned, Bound
  <2>7. ASSUME NEW o \in Command, BindCard(o) PROVE Dicts'
    <3>1. /\ Running(o) /\ cmd[o].card \in Cards /\ cmd[o].card.name = cmd[o].glyph
          /\ SetCard(o, cmd[o].card) /\ UNCHANGED sync
      BY <1>t, <1>n, <2>7 DEF BindCard, Running, CommandFrame, Approving
    <3> QED
      BY <2>6, <3>1, AssignBinding
  <2>8. ASSUME NEW o \in Command, NEW code \in Codes, Running(o), SetBlocked(o, code),
               UNCHANGED sync
        PROVE  Dicts'
    <3>1. heap[cmd[o].ref][cmd[o].glyph].card.name = cmd[o].glyph
      BY <1>t, <1>n, <2>8 DEF Running, CommandFrame, HasBinding, Bound
    <3> QED
      BY <2>6, <2>8, <3>1, AssignBinding
  <2>9. ASSUME NEW o \in Command, Unblock(o) \/ GateAttestation(o) \/ BlockRevoked(o)
        PROVE  Dicts'
    <3>1. Running(o) /\ UNCHANGED sync /\ (cmd[o].pc = "gate" => cmd[o].card \in Cards)
      BY <1>t, <2>9 DEF Unblock, GateAttestation, BlockRevoked, Running, CommandFrame
    <3>2. cmd[o].pc = "gate" => AttestationCode(cmd[o].card) \in Codes \union {GateRaised}
      BY <3>1, CodesBlock
    <3>3. "CARD_REVOKED" \in Codes /\ NoCode \in Codes
      BY Zenon DEF Codes, NoCode
    <3> QED
      BY <2>1, <2>8, <2>9, <3>1, <3>2, <3>3 DEF Unblock, GateAttestation, BlockRevoked
  <2>10. ASSUME NEW o \in Command, \/ PickCard(o) \/ TrustApprove(o) \/ TrustReturns(o)
                                   \/ \E g \in Glyph : TrustTool(o, g) \/ RevokeTool(o, g)
         PROVE  Dicts'
    BY <2>1, <2>10 DEF PickCard, TrustApprove, TrustReturns, TrustTool, RevokeTool
  <2>11. ASSUME NEW a \in Actor, TrustStep(a) PROVE Dicts'
    BY <2>1, <2>11 DEF TrustStep, bridgeVars
  <2>12. ASSUME NEW h \in Call, CallStep(h) \/ Expire(h) \/ \E g \in Glyph : Lookup(h, g)
         PROVE  Dicts'
    BY <2>1, <2>12 DEF CallStep, Expire, Lookup, Gate, Ask, Confirm, Prepare,
                       PrepareFails, Execute, SendFails, Seal, SealRaises, Step, Answer
  <2>13. ASSUME NEW g \in Glyph, NEW c \in Cards \union {NoCard}, Deploy(g, c)
         PROVE  Dicts'
    BY <2>1, <2>13 DEF Deploy
  <2>14. CASE UNCHANGED vars
    BY <2>1, <2>14 DEF vars, bridgeVars
  <2> QED
    BY <2>2, <2>3, <2>4, <2>5, <2>7, <2>9, <2>10, <2>11, <2>12, <2>13, <2>14, Actors
    DEF BridgeNext, SyncStep, CommandStep
<1>c. ASSUME NEW o \in Command PROVE Named(o)'
  <2>1. ASSUME cmd'[o].pc = cmd[o].pc, cmd'[o].card = cmd[o].card,
               cmd'[o].glyph = cmd[o].glyph, op'[o].name = op[o].name
        PROVE  Named(o)'
    BY <1>n, <2>1 DEF Approving
  <2>2. CASE CommandStep(o) \/ \E g \in Glyph : TrustTool(o, g) \/ RevokeTool(o, g)
    <3>1. ASSUME NEW g \in Glyph, TrustTool(o, g) PROVE Named(o)'
      <4>1. Parked(o, g) \in Cards \union {NoCard}
        BY <1>t, Actors, ActorsAssumption DEF Parked, TypeOK, Queue
      <4>2. cmd'[o].pc = "pick"
        BY <3>1, <4>1, StartCommand DEF TrustTool
      <4> QED
        BY <4>2 DEF Approving
    <3>2. ASSUME NEW g \in Glyph, RevokeTool(o, g) PROVE Named(o)'
      <4>1. cmd'[o].pc = "revoking" /\ cmd'[o].glyph = g
        BY <3>2, StartCommand DEF RevokeTool
      <4>2. op'[o].name = g
        BY <1>t, <3>2, Actors DEF RevokeTool, Revoke, TypeOK, Idle
      <4> QED
        BY <4>1, <4>2 DEF Approving
    <3>3. CASE PickCard(o)
      <4> DEFINE g == cmd[o].glyph
      <4>1. g \in Glyph /\ cmd[o] \in CommandType
        BY <1>t, <3>3 DEF PickCard, CommandFrame, HasBinding, CommandTyped
      <4>2. CASE Bindings[g] = NoBinding
        <5>1. cmd'[o].pc = "done"
          BY <1>t, <3>3, <4>1, <4>2 DEF PickCard, CommandTyped, CommandType
        <5> QED
          BY <5>1 DEF Approving
      <4>3. CASE Bindings[g] # NoBinding
        <5>1. /\ cmd'[o].pc = "approve" /\ cmd'[o].card = CardToTrust(o, g)
              /\ cmd'[o].glyph = g
          BY <1>t, <3>3, <4>1, <4>3 DEF PickCard, CommandTyped, CommandType
        <5>2. Parked(o, g) # NoCard => Parked(o, g).name = g
          BY <4>1, Actors, ActorsAssumption DEF Parked, NamesInv, Filed
        <5>3. Bindings[g].card.name = g
          <6>1. Len(heap) \in 1..Len(heap)
            BY HeapTyped
          <6> QED
            BY <1>n, <4>1, <4>3, <6>1 DEF Bound, Bindings
        <5> QED
          BY <5>1, <5>2, <5>3 DEF CardToTrust
      <4> QED
        BY <4>2, <4>3
    <3>4. CASE TrustStep(o)
      <4>1. UNCHANGED cmd /\ op'[o].name = op[o].name
        BY <1>t, <3>4, Actors, ContinueFrame DEF TrustStep, bridgeVars
      <4> QED
        BY <2>1, <4>1
    <3>5. ASSUME NEW pc \in {"approving", "bind", "unblock", "gate", "block", "done"},
                 cmd' = [cmd EXCEPT ![o].pc = pc],
                 pc \notin {"block", "done"} => Approving(o)
          PROVE  Named(o)'
      <4>1. cmd'[o].pc = pc /\ cmd'[o].glyph = cmd[o].glyph /\ cmd'[o].card = cmd[o].card
        BY <1>t, <3>5, MoveCommand
      <4> QED
        BY <1>n, <3>5, <4>1 DEF Approving
    <3>6. CASE TrustApprove(o) \/ BindCard(o) \/ Unblock(o) \/ GateAttestation(o)
                 \/ BlockRevoked(o)
      BY <3>5, <3>6 DEF TrustApprove, BindCard, Unblock, GateAttestation, BlockRevoked,
                        Approving
    <3>7. CASE TrustReturns(o)
      <4>1. PICK pc \in {"bind", "block", "done"} :
              /\ cmd' = [cmd EXCEPT ![o].pc = pc]
              /\ pc = "bind" => op[o].status = "approved"
        BY <3>7 DEF TrustReturns
      <4>2. pc = "bind" => cmd[o].pc = "approving"
        BY <1>t, <3>7, <4>1 DEF TrustReturns, CommandCall, At
      <4> QED
        BY <3>5, <4>1, <4>2 DEF Approving
    <3> QED
      BY <2>2, <3>1, <3>2, <3>3, <3>4, <3>6, <3>7 DEF CommandStep
  <2>3. CASE ~(CommandStep(o) \/ \E g \in Glyph : TrustTool(o, g) \/ RevokeTool(o, g))
    <3>1. /\ cmd'[o].pc = cmd[o].pc /\ cmd'[o].card = cmd[o].card
          /\ cmd'[o].glyph = cmd[o].glyph /\ SameCall(op'[o], op[o])
      BY <2>3, OtherSteps
    <3> QED
      BY <2>1, <3>1 DEF SameCall
  <2> QED
    BY <2>2, <2>3
<1> QED
  BY <1>q, <1>d, <1>c DEF NamesInv
\* What a sync writes to the store keeps what is live alive, and the card that
\* evaluate pins is live.
LEMMA SyncKeepsLive ==
  ASSUME IInv, NEW a \in Actor, Continue(a), op[a].pc \in SavePcs \union {"decide"},
         At(a, "decide") => op[a].pin = pins[op[a].card.name],
         op[a].pc \in SavePcs /\ op[a].status = "pinned"
           => LivePin(op[a].card.name, op[a].card)
  PROVE  /\ \A g \in Glyph : \A c : LivePin(g, c) => LivePin(g, c)'
         /\ op'[a].pc \in SavePcs \union {"done"}
         /\ op'[a].status = "pinned" => LivePin(op[a].card.name, op[a].card)'
<1> DEFINE n == op[a].card.name
           Live == \A g \in Glyph : \A c : LivePin(g, c) => LivePin(g, c)'
<1>t. TypeOK /\ Frames
  BY DEF IInv
<1>1. ASSUME UNCHANGED pins PROVE Live
  BY <1>1 DEF LivePin
<1>2. op'[a].card = op[a].card /\ op'[a].pc \in SavePcs \union {"done"}
  BY <1>t, ContinueFrame DEF SaveMoves, SavePcs
<1>3. At(a, "decide") =>
        /\ op[a].card \in Cards /\ n \in Glyph
        /\ op[a].pin = pins[n] /\ pins[n] \in Pin \union {NoPin}
  BY <1>t, CardNames DEF Frames, TypeOK
<1>4. CASE SaveStep(a)
  <2>1. UNCHANGED pins /\ SaveMoves(op[a], op'[a])
    BY <1>t, <1>4, SaveFiles, SaveFrames
  <2>2. op'[a].status = "pinned" => op[a].status = "pinned"
    BY <2>1 DEF SaveMoves
  <2> QED
    BY <1>1, <1>2, <2>1, <2>2 DEF SaveMoves, LivePin
<1>5. CASE Park(a) \/ Refuse(a)
  <2>1. UNCHANGED pins /\ op'[a].status # "pinned"
    <3>1. UNCHANGED pins
      BY <1>5 DEF Park, Refuse
    <3>2. PICK pc, st : Goto(a, pc, st) /\ st # "pinned"
      BY <1>5 DEF Park, Refuse
    <3>3. op'[a].status = st
      BY <1>t, <3>2 DEF Goto, TypeOK, Calls
    <3> QED
      BY <3>1, <3>2, <3>3
  <2> QED
    BY <1>1, <1>2, <2>1
<1>6. CASE MatchPin(a)
  <2>1. /\ UNCHANGED pins /\ At(a, "decide")
        /\ Verdict(op[a].pin, op[a].card) = "match"
    BY <1>6 DEF MatchPin, Deciding
  <2>2. /\ op[a].pin # NoPin /\ ~op[a].pin.revoked
        /\ SameIdAndKey(op[a].pin.card, op[a].card)
    BY <2>1 DEF Verdict
  <2>3. op[a].pin.card \in Cards
    BY <1>3, <2>1, <2>2 DEF Pin
  <2>4. SameContract(op[a].pin.card, op[a].card)
    BY <1>3, <2>1, <2>2, <2>3, CardsAssumption, SameIdAndKeyContract
  <2>5. LivePin(n, op[a].card)
    BY <1>3, <2>1, <2>2, <2>4 DEF LivePin
  <2> QED
    BY <1>1, <1>2, <1>3, <2>1, <2>5
\* The two that write: nothing was live before a first use, and a review-only
\* change keeps the contract.
<1>7. CASE TofuPin(a) \/ AutoRepin(a)
  <2>1. /\ At(a, "decide") /\ Put(op[a].card)
        /\ Verdict(op[a].pin, op[a].card) \in {"tofu", "repin"}
    BY <1>7 DEF TofuPin, AutoRepin, Deciding
  <2>2. \/ pins[n] = NoPin
        \/ SameContract(pins[n].card, op[a].card)
    <3>1. CASE op[a].pin = NoPin
      BY <1>3, <2>1, <3>1
    <3>2. CASE op[a].pin # NoPin
      <4>1. ~RequiresApproval(op[a].pin.card, op[a].card) /\ ~op[a].pin.revoked
        BY <2>1, <3>2 DEF Verdict
      <4>2. op[a].pin.card.name = n
        BY <2>1, <3>2 DEF IInv, Frames, SnapshotsEndorsed, At
      <4> QED
        BY <1>3, <2>1, <4>1, <4>2 DEF SameContract
    <3> QED
      BY <3>1, <3>2
  <2>3. /\ pins'[n] = PinOf(op[a].card) /\ pins'[n] # NoPin
        /\ \A g \in Glyph : g # n => pins'[g] = pins[g]
    <3>1. PICK c \in Cards : c = op[a].card /\ Put(c)
      BY <1>3, <2>1
    <3>2. PinOf(c) # NoPin
      <4>1. PinOf(c) \in [card : Cards, revoked : BOOLEAN]
        BY <3>1 DEF PinOf
      <4> QED
        BY <4>1, TrustAssumption
    <3>3. /\ pins'[c.name] = PinOf(c)
          /\ \A g \in Glyph : g # c.name => pins'[g] = pins[g]
      BY <1>t, <3>1, PutPin
    <3> QED
      BY <3>1, <3>2, <3>3
  <2>4. PinOf(op[a].card).card = op[a].card /\ PinOf(op[a].card).revoked = FALSE
    BY DEF PinOf
  <2>5. LivePin(n, op[a].card)'
    <3>1. SameContract(op[a].card, op[a].card)
      BY SameContractReflexive
    <3> QED
      BY <1>2, <2>3, <2>4, <3>1 DEF LivePin
  <2>6. ASSUME NEW g \in Glyph, NEW c, LivePin(g, c) PROVE LivePin(g, c)'
    <3>1. CASE g # n
      BY <2>3, <2>6, <3>1 DEF LivePin
    <3>2. CASE g = n
      <4>1. SameContract(pins[n].card, op[a].card) /\ SameContract(pins[n].card, c)
        BY <2>2, <2>6, <3>2 DEF LivePin
      <4>2. SameContract(op[a].card, c)
        BY <4>1, SameContractSymmetric, SameContractTransitive
      <4> QED
        BY <2>3, <2>4, <3>2, <4>2 DEF LivePin
    <3> QED
      BY <3>1, <3>2
  <2> QED
    BY <1>2, <2>1, <2>5, <2>6 DEF At
<1>8. CASE RevokePut(a) \/ Unpark(a)
  BY <1>8 DEF RevokePut, Unpark, At, SavePcs
<1> QED
  BY <1>4, <1>5, <1>6, <1>7, <1>8 DEF Continue, SaveStep

LEMMA IdleStatus == Idle.status \notin {"approved", "revoked"}
BY Zenon DEF Idle
\* After a step under which nothing overlaps, nothing overlapped before; and
\* nothing was under way where something begins.
LEMMA OverlapGrows ==
  ASSUME BridgeInv, \A o \in Command : cmd[o].pc = "new" => ~cmd[o].overlapped,
         [BridgeNext]_vars
  PROVE  /\ \A o \in Command : cmd'[o].pc = "new" => ~cmd'[o].overlapped
         /\ NoOverlap' => NoOverlap
<1>t. CommandTyped /\ \A o \in Command : Running(o) \in BOOLEAN
                                           /\ cmd[o].overlapped \in BOOLEAN
  BY DEF BridgeInv, BridgeTypeOK, CommandTyped, CommandType, Running
<1> SUFFICES ASSUME NEW o \in Command
             PROVE  /\ cmd'[o].pc = "new" => ~cmd'[o].overlapped
                    /\ cmd[o].overlapped => cmd'[o].overlapped
  BY DEF NoOverlap
<1>1. ASSUME NEW g \in Glyph, TrustTool(o, g) \/ RevokeTool(o, g)
      PROVE  /\ cmd'[o].pc = "new" => ~cmd'[o].overlapped
             /\ cmd[o].overlapped => cmd'[o].overlapped
  <2>1. Parked(o, g) \in Cards \union {NoCard}
    BY Actors, ActorsAssumption DEF Parked, BridgeInv, IInv, TypeOK, Queue
  <2>2. PICK shown \in Cards \union {NoCard}, pc \in {"pick", "revoking"} :
          Start(o, g, pc, shown)
    BY <1>1, <2>1 DEF TrustTool, RevokeTool
  <2>3. cmd[o].pc = "new" /\ cmd'[o].pc = pc
    BY <2>2, StartCommand
  <2> QED
    BY <2>3
<1>2. CASE CommandStep(o)
  <2>1. Running(o)
    BY <1>2, UnderWay
  <2>2. \/ UNCHANGED cmd
        \/ \E pc \in {"approving", "bind", "unblock", "gate", "block", "done"} :
             cmd' = [cmd EXCEPT ![o].pc = pc]
        \/ \E c : cmd' = [cmd EXCEPT ![o] = [@ EXCEPT !.pc = "approve",
                                               !.ref = Len(heap), !.card = c]]
    BY <1>2 DEF CommandStep, TrustStep, PickCard, TrustApprove, TrustReturns, BindCard,
                Unblock, GateAttestation, BlockRevoked, bridgeVars
  <2>3. cmd'[o].pc # "new" /\ cmd'[o].overlapped = cmd[o].overlapped
    <3>1. CASE UNCHANGED cmd
      BY <2>1, <3>1 DEF Running
    <3>2. ASSUME NEW pc \in {"approving", "bind", "unblock", "gate", "block", "done"},
                 cmd' = [cmd EXCEPT ![o].pc = pc]
          PROVE  cmd'[o].pc # "new" /\ cmd'[o].overlapped = cmd[o].overlapped
      BY <1>t, <3>2 DEF CommandTyped, CommandType
    <3>3. ASSUME NEW c, cmd' = [cmd EXCEPT ![o] = [@ EXCEPT !.pc = "approve",
                                                   !.ref = Len(heap), !.card = c]]
          PROVE  cmd'[o].pc # "new" /\ cmd'[o].overlapped = cmd[o].overlapped
      BY <1>t, <3>3 DEF CommandTyped, CommandType
    <3> QED
      BY <2>2, <3>1, <3>2, <3>3
  <2> QED
    BY <2>3
<1>3. CASE ~CommandStep(o) /\ \A g \in Glyph : ~TrustTool(o, g) /\ ~RevokeTool(o, g)
  <2>1. /\ cmd'[o].pc = cmd[o].pc
        /\ \/ cmd'[o].overlapped = cmd[o].overlapped
           \/ cmd'[o].overlapped = (cmd[o].overlapped \/ Running(o))
    BY <1>3, OtherSteps
  <2> QED
    BY <1>t, <2>1 DEF Running
<1> QED
  BY <1>1, <1>2, <1>3

SerialMatches ==
  /\ Serial
  /\ sync.pc # "idle" => SyncMatches
  /\ \A o \in Command : Running(o) => CommandMatches(o)
  /\ (\A o \in Command : ~Running(o)) => AllMatch

\* The steps of a sync.
LEMMA SyncSerialNext ==
  ASSUME BridgeInv, SerialMatches, [BridgeNext]_vars, SyncStep
  PROVE  SerialMatches'
<1>t. /\ TypeOK /\ Frames /\ IInv /\ SyncFrame /\ sync.dict \in Dict /\ heap \in Seq(Dict)
      /\ Len(heap) \in Nat
  BY HeapTyped DEF BridgeInv, BridgeTypeOK, IInv
<1>1. /\ sync.pc # "idle" /\ SyncMatches /\ UNCHANGED cmd /\ AllMatch
      /\ \A o \in Command : ~Running(o)
  <2>1. sync.pc # "idle"
    BY UnderWay
  <2>2. UNCHANGED cmd
    BY DEF SyncStep, FetchCard, FetchFails, TrustStep, Bind, SyncAborts, Publish,
           bridgeVars
  <2> QED
    BY <2>1, <2>2 DEF SerialMatches, Serial
<1>2. (\A o \in Command : ~Running(o))'
  BY <1>1 DEF Running
<1>3. SUFFICES AllMatch' /\ (sync.pc # "idle" => SyncMatches)'
  BY <1>2 DEF SerialMatches, Serial
<1>4. ASSUME UNCHANGED <<pins, heap>> PROVE AllMatch'
  BY <1>1, <1>4 DEF AllMatch, Matches, LivePin, Bindings
<1>5. ASSUME UNCHANGED pins, sync'.dict = sync.dict
      PROVE  (\A g \in Glyph : Matches(g, sync.dict[g]))'
  BY <1>1, <1>5 DEF SyncMatches, Matches, LivePin
<1>6. CASE FetchCard
  <2>1. PICK g \in sync.todo :
          /\ server[g] # NoCard /\ Evaluate(Syncer, server[g])
          /\ sync' = [sync EXCEPT !.pc = "evaluate", !.glyph = g]
          /\ UNCHANGED heap
    BY <1>6 DEF FetchCard
  <2>2. sync'.dict = sync.dict /\ UNCHANGED pins
    BY <2>1 DEF Evaluate, BridgeInv, BridgeTypeOK
  <2>3. \/ op'[Syncer].pc = "decide" /\ op'[Syncer].pin = pins[op'[Syncer].card.name]
        \/ op'[Syncer].pc = "done" /\ op'[Syncer].status = "invalid"
    BY <1>t, <2>1, Actors DEF Evaluate, Idle, TypeOK
  <2>4. SyncMatches'
    BY <1>5, <2>2, <2>3 DEF SyncMatches, At, SavePcs
  <2> QED
    BY <1>4, <2>1, <2>2, <2>4
<1>7. CASE FetchFails
  <2>1. sync'.dict = sync.dict /\ UNCHANGED <<pins, heap, op>> /\ sync.pc = "fetch"
    BY <1>7 DEF FetchFails, BridgeInv, BridgeTypeOK, trustVars
  <2>2. SyncMatches'
    BY <1>1, <1>5, <2>1 DEF SyncMatches, At, LivePin
  <2> QED
    BY <1>4, <2>1, <2>2
<1>8. CASE TrustStep(Syncer)
  <2>1. Continue(Syncer) /\ UNCHANGED <<sync, heap>>
    BY <1>8 DEF TrustStep, bridgeVars
  <2>2. op[Syncer].pc \in SavePcs \union {"decide"}
    <3>1. op[Syncer].pc \in SavePcs \union {"decide", "revoke", "unpark"}
      BY <1>t, <2>1, Actors, ContinueFrame DEF SaveMoves
    <3>2. sync.pc # "evaluate" => op[Syncer].pc = "idle"
      BY <1>t, IdleFrame DEF SyncFrame
    <3> QED
      BY <1>t, <3>1, <3>2 DEF SyncFrame, SavePcs
  <2>3. /\ \A g \in Glyph : \A c : LivePin(g, c) => LivePin(g, c)'
        /\ op'[Syncer].pc \in SavePcs \union {"done"}
        /\ op'[Syncer].status = "pinned"
             => LivePin(op[Syncer].card.name, op[Syncer].card)'
    BY <1>t, <1>1, <2>1, <2>2, Actors, SyncKeepsLive DEF SyncMatches, At
  <2>4. op'[Syncer].card = op[Syncer].card
    BY <1>t, <2>1, Actors, ContinueFrame
  <2>5. \A g \in Glyph : \A b : Matches(g, b) => Matches(g, b)'
    BY <2>3 DEF Matches
  <2>6. (\A g \in Glyph : Matches(g, sync.dict[g]))'
    <3>1. ASSUME NEW g \in Glyph PROVE Matches(g, sync.dict[g])'
      <4>1. PICK b : b = sync.dict[g] /\ Matches(g, b)
        BY <1>1 DEF SyncMatches
      <4>2. Matches(g, b)'
        BY <2>5, <4>1
      <4> QED
        BY <2>1, <4>1, <4>2 DEF Matches, LivePin
    <3> QED
      BY <3>1
  <2>7. AllMatch'
    <3>1. ASSUME NEW g \in Glyph PROVE Matches(g, Bindings[g])'
      <4>1. PICK b : b = Bindings[g] /\ Matches(g, b)
        BY <1>1 DEF AllMatch
      <4>2. Matches(g, b)'
        BY <2>5, <4>1
      <4> QED
        BY <2>1, <4>1, <4>2 DEF Matches, LivePin, Bindings
    <3> QED
      BY <3>1 DEF AllMatch
  <2>8. SyncMatches'
    BY <2>3, <2>4, <2>6 DEF SyncMatches, At, LivePin, SavePcs
  <2> QED
    BY <2>7, <2>8
<1>9. CASE Bind
  <2> DEFINE status == op[Syncer].status
             g == sync.glyph
  <2>1. /\ sync.pc = "evaluate" /\ op[Syncer].pc = "done"
        /\ BlockedCode(status, op[Syncer].card) # GateRaised
        /\ Return(Syncer) /\ UNCHANGED heap
    BY <1>9 DEF Bind, At
  <2>2. PICK c \in Cards : c = op[Syncer].card /\ c.name = g
    BY <1>t, <2>1 DEF SyncFrame, SavePcs
  <2>3. /\ g \in Glyph
        /\ status \in {"pinned", "new", "revoked", "changed", "invalid", "raised"}
    BY <1>t, <2>1 DEF SyncFrame, SavePcs
  <2>4. PICK b \in Binding : b = [card |-> c, blocked |-> BlockedCode(status, c)]
    BY <2>1, <2>2, <2>3, BlockedCodes DEF Binding
  <2>5. sync' = [sync EXCEPT !.pc = "fetch", !.todo = @ \ {g},
                             !.dict[g] = b, !.glyph = NoGlyph]
    BY <1>9, <2>2, <2>4 DEF Bind
  <2>6. Matches(g, b)
    <3>1. b.card = c /\ b.blocked = BlockedCode(status, c)
      BY <2>4
    <3>2. b.blocked = NoCode => status = "pinned" /\ AttestationCode(c) = NoCode
      BY <2>2, <2>3, <3>1, BlockedCodes
    <3>3. status = "pinned" => LivePin(g, c)
      BY <1>1, <2>1, <2>2 DEF SyncMatches
    <3> QED
      BY <3>1, <3>2, <3>3 DEF Matches
  <2>7. op'[Syncer] = Idle /\ UNCHANGED pins
    BY <1>t, <2>1, Actors DEF Return, TypeOK
  <2>8. sync'.dict[g] = b /\ \A k \in Glyph \ {g} : sync'.dict[k] = sync.dict[k]
    BY <1>t, <2>3, <2>5 DEF BridgeInv, BridgeTypeOK, Dict
  <2>9. (\A k \in Glyph : Matches(k, sync.dict[k]))'
    BY <1>1, <2>6, <2>7, <2>8 DEF SyncMatches, Matches, LivePin
  <2>10. SyncMatches'
    BY <2>7, <2>9, IdleFrame DEF SyncMatches, At, SavePcs
  <2> QED
    BY <1>4, <2>1, <2>7, <2>10
<1>10. CASE SyncAborts
  <2>1. sync'.pc = "idle" /\ UNCHANGED <<pins, heap>>
    BY <1>10, NoSyncTyped DEF SyncAborts, Return
  <2> QED
    BY <1>4, <2>1
<1>11. CASE Publish
  <2>1. sync'.pc = "idle" /\ UNCHANGED pins /\ heap' = Append(heap, sync.dict)
    BY <1>11, NoSyncTyped DEF Publish, trustVars
  <2>2. Bindings' = sync.dict
    BY <1>t, <2>1, AppendProperties DEF Bindings
  <2>3. AllMatch'
    BY <1>1, <2>1, <2>2 DEF AllMatch, SyncMatches, Matches, LivePin
  <2> QED
    BY <2>1, <2>3
<1> QED
  BY <1>6, <1>7, <1>8, <1>9, <1>10, <1>11 DEF SyncStep
\* The steps of a command.
LEMMA CommandSerialNext ==
  ASSUME ~WriteFaults, BridgeInv, NamesInv, RaisesOnlyWhenMixed, SerialMatches,
         [BridgeNext]_vars, NEW o \in Command, CommandStep(o)
  PROVE  SerialMatches'
<1>0. PICK g, i, c : g = cmd[o].glyph /\ i = cmd[o].ref /\ c = cmd[o].card
  OBVIOUS
<1> USE <1>0
<1> DEFINE Others == \A k \in Glyph : k # g => Matches(k, Bindings[k])
<1>t. /\ TypeOK /\ Frames /\ CommandTyped /\ heap \in Seq(Dict)
      /\ Len(heap) \in Nat /\ Len(heap) \in 1..Len(heap)
      /\ CommandFrame(o) /\ CommandCall(o)
  BY HeapTyped DEF BridgeInv, BridgeTypeOK, IInv, CommandTyped, CommandType
<1>1. /\ Running(o) /\ CommandMatches(o) /\ sync.pc = "idle"
      /\ \A p \in Command : p # o => ~Running(p)
  BY UnderWay DEF SerialMatches, Serial
<1>s. \A a \in Actor \ {o} : op[a] = Idle
  <2>1. \A p \in Command : p # o => op[p] = Idle
    BY <1>1 DEF BridgeInv, CommandCall, Running
  <2>2. op[Syncer] = Idle
    BY <1>1 DEF BridgeInv, SyncFrame
  <2> QED
    BY <2>1, <2>2, BridgeAssumption
<1>r. ASSUME op'[o].pc \notin {"open", "write", "rename"} PROVE ~Saving(o)'
  BY <1>r DEF Saving
<1>j. op'[o] = Idle => ~Saving(o)'
  BY IdleFrame DEF Saving
<1>2. UNCHANGED sync /\ \A p \in Command : p # o => cmd'[p] = cmd[p]
  BY <1>t DEF CommandStep, PickCard, TrustApprove, TrustStep, TrustReturns, BindCard,
              Unblock, GateAttestation, BlockRevoked, bridgeVars, CommandTyped
<1>3. i = Len(heap) /\ g \in Glyph /\ Bindings[g] # NoBinding /\ Others
  BY <1>1, <1>t DEF Running, CommandFrame, HasBinding, CommandMatches, Bindings
<1>4. SUFFICES /\ Running(o)' => CommandMatches(o)'
               /\ ~Running(o)' => AllMatch'
  <2>1. sync'.pc = "idle" /\ \A p \in Command : p # o => ~Running(p)'
    BY <1>1, <1>2 DEF Running
  <2> QED
    BY <1>4, <2>1 DEF SerialMatches, Serial
\* A step that writes neither a pin nor a binding.
<1>q. ASSUME UNCHANGED <<pins, heap>>
      PROVE  /\ Others'
             /\ Matches(g, Bindings[g]) => Matches(g, Bindings[g])'
  BY <1>3, <1>q DEF Matches, LivePin, Bindings
<1>m. ASSUME NEW pc \in {"approving", "bind", "unblock", "gate", "block", "done"},
             cmd' = [cmd EXCEPT ![o].pc = pc]
      PROVE  /\ cmd'[o].pc = pc /\ cmd'[o].glyph = g /\ cmd'[o].ref = i
             /\ cmd'[o].card = c
  BY <1>t, <1>m, MoveCommand
<1>5. CASE PickCard(o)
  <2>1. /\ UNCHANGED <<pins, heap, op>> /\ cmd[o].pc = "pick" /\ op[o] = Idle
        /\ Matches(g, Bindings[g])
    BY <1>5, <1>1, <1>t DEF PickCard, trustVars, CommandMatches, Written, CommandCall
  <2>2. cmd' = [cmd EXCEPT ![o] = [@ EXCEPT !.pc = "approve", !.ref = Len(heap),
                                     !.card = CardToTrust(o, g)]]
    BY <1>5, <1>3 DEF PickCard
  <2>3. cmd'[o].pc = "approve" /\ cmd'[o].glyph = g /\ cmd'[o].ref = Len(heap)
    BY <1>t, <2>2 DEF CommandTyped, CommandType
  <2>4. CommandMatches(o)'
    BY <1>q, <1>j, <2>1, <2>3 DEF CommandMatches, Written
  <2> QED
    BY <2>3, <2>4 DEF Running
<1>6. CASE TrustApprove(o)
  <2>1. /\ cmd[o].pc = "approve" /\ cmd' = [cmd EXCEPT ![o].pc = "approving"]
        /\ Approve(o, c) \/ RefuseApproval(o, c)
        /\ c \in Cards /\ c.name = g /\ UNCHANGED heap
        /\ Matches(g, Bindings[g])
    BY <1>6, <1>1, <1>t
    DEF TrustApprove, CommandFrame, NamesInv, Approving, CommandMatches, Written
  <2>2. PICK d \in Cards : d = c /\ (Approve(o, d) \/ RefuseApproval(o, d))
    BY <2>1
  <2>3. /\ cmd'[o].pc = "approving" /\ cmd'[o].glyph = g /\ cmd'[o].ref = i
        /\ cmd'[o].card = d
    BY <1>m, <2>1, <2>2
  <2>4. CASE Approve(o, d)
    <3>1. op'[o].status = "approved" /\ op'[o].pc = "unpark"
      BY <1>t, <2>4, Actors DEF Approve, TypeOK
    <3>2. pins'[g] = PinOf(d) /\ \A k \in Glyph : k # g => pins'[k] = pins[k]
      BY <1>t, <2>1, <2>2, <2>4, PutPin DEF Approve
    <3>3. Others'
      BY <1>3, <2>1, <3>2 DEF Matches, LivePin, Bindings
    <3>4. CommandMatches(o)'
      BY <1>3, <1>r, <2>1, <2>3, <3>1, <3>2, <3>3 DEF CommandMatches, Written, PinOf
    <3> QED
      BY <2>3, <3>4 DEF Running
  <2>5. CASE RefuseApproval(o, d)
    <3>1. op'[o].status = "refused" /\ op'[o].pc = "done" /\ UNCHANGED pins
      BY <1>t, <2>5, Actors DEF RefuseApproval, TypeOK
    <3>2. CommandMatches(o)'
      BY <1>q, <1>r, <1>3, <2>1, <2>3, <3>1 DEF CommandMatches, Written
    <3> QED
      BY <2>3, <3>2 DEF Running
  <2> QED
    BY <2>2, <2>4, <2>5
<1>7. CASE TrustStep(o)
  <2>1. Continue(o) /\ UNCHANGED <<cmd, heap>>
    BY <1>7 DEF TrustStep, bridgeVars
  <2>2. op[o].pc # "decide" /\ cmd[o].pc \in {"approving", "revoking"}
    <3>1. op[o].pc \in SavePcs \union {"decide", "revoke", "unpark"}
      BY <1>t, <2>1, Actors, ContinueFrame DEF SaveMoves
    <3> QED
      BY <1>t, <3>1, IdleFrame DEF CommandCall, SavePcs
  <2>3. Running(o)'
    BY <2>1, <2>2 DEF Running
  <2>4. CASE RevokePut(o)
    <3>1. cmd[o].pc = "revoking" /\ op[o].name = g
      BY <1>t, <2>2, <2>4 DEF RevokePut, At, CommandCall, NamesInv, SavePcs
    <3>2. op'[o].status = "revoked" /\ op'[o].pc = "unpark"
      BY <1>t, <2>4, Actors DEF RevokePut, Goto, TypeOK, Calls
    <3>3. \A k \in Glyph : k # g => pins'[k] = pins[k]
      BY <1>t, <2>4, <3>1 DEF RevokePut, TypeOK
    <3>4. Others'
      BY <1>3, <2>1, <3>3 DEF Matches, LivePin, Bindings
    <3>5. CommandMatches(o)'
      BY <1>3, <1>r, <2>1, <3>1, <3>2, <3>4 DEF CommandMatches, Written, Approving
    <3> QED
      BY <2>3, <3>5
\* Nobody else saves, nor changes the queue: the save does not raise.
  <2>s. ASSUME SaveStep(o)
        PROVE  UNCHANGED pins /\ op'[o].status = op[o].status /\ (Saving(o)' => op'[o].alone)
    <3>1. UNCHANGED pins /\ SaveMoves(op[o], op'[o])
      BY <1>t, <2>s, Actors, SaveFiles, SaveFrames
    <3>2. ~OthersSave(o) /\ (\A b \in Actor \ {o} : ~At(b, "save"))
      BY <1>s, IdleFrame DEF OthersSave, Saving, At
    <3>3. ~SaveRaises(o)
      <4>1. ~(At(o, "rename") /\ tmp = NoFile)
        BY <1>1, Actors DEF CommandMatches, RaisesOnlyWhenMixed, At, Saving
      <4> QED
        BY <3>2, <4>1 DEF SaveRaises, Overtaken, DiskFails
    <3>4. CASE Dump(o)
      <4>1. op'[o] = [op[o] EXCEPT !.pc = "open", !.dump = pending[ProcOf[o]],
                                   !.alone = TRUE]
        BY <3>2, <3>4, Actors DEF Dump
      <4>2. op[o] \in Calls
        BY <1>t, Actors DEF TypeOK
      <4>3. op'[o].alone = TRUE /\ op'[o].status = op[o].status
        BY <4>1, <4>2 DEF Calls
      <4> QED
        BY <3>1, <4>3
    <3>5. CASE Open(o) \/ Write(o)
      <4>1. PICK pc, where : op' = [op EXCEPT ![o].pc = pc, ![o].where = where]
        BY <3>5 DEF Open, Write
      <4>2. op'[o].alone = op[o].alone /\ op'[o].status = op[o].status
        BY <1>t, <4>1, Actors DEF TypeOK, Calls
      <4>3. Saving(o)
        BY <3>5 DEF Open, Write, At, Saving
      <4> QED
        BY <1>1, <3>1, <4>2, <4>3 DEF CommandMatches
    <3>6. CASE Rename(o)
      <4>1. op'[o] = Saved(o, op[o].status) /\ op[o].status \in Statuses
        BY <1>t, <3>6, Actors DEF Rename, TypeOK, Calls
      <4> QED
        BY <1>t, <1>r, <3>1, <4>1, Actors, SavedFrame
    <3> QED
      BY <2>s, <3>3, <3>4, <3>5, <3>6 DEF SaveStep
  <2>5. CASE Unpark(o) \/ SaveStep(o)
    <3>1. /\ UNCHANGED pins /\ op'[o].status = op[o].status
          /\ Saving(o)' => op'[o].alone
      <4>1. CASE Unpark(o)
        <5>1. UNCHANGED pins /\ op'[o].status = op[o].status /\ op'[o].pc = "save"
          BY <1>t, <4>1, Actors DEF Unpark, Goto, TypeOK, Calls
        <5> QED
          BY <1>r, <5>1
      <4> QED
        BY <2>5, <2>s, <4>1
    <3>2. /\ cmd'[o] = cmd[o] /\ (Written(o)' <=> Written(o))
          /\ (Approving(o)' <=> Approving(o))
      BY <2>1, <3>1 DEF Written, Approving
    <3>3. Others' /\ (~Written(o) => Matches(g, Bindings[g])')
      BY <1>q, <1>1, <2>1, <3>1 DEF CommandMatches
    <3>4. Written(o) /\ Approving(o) => pins'[g] = PinOf(c)
      BY <1>1, <3>1 DEF CommandMatches
    <3>5. CommandMatches(o)'
      BY <1>3, <2>1, <2>2, <3>1, <3>2, <3>3, <3>4 DEF CommandMatches
    <3> QED
      BY <2>3, <3>5
  <2> QED
    BY <2>1, <2>2, <2>4, <2>5
    DEF Continue, SaveStep, TofuPin, Refuse, MatchPin, Park, AutoRepin, Deciding, At
<1>8. CASE TrustReturns(o)
  <2>1. /\ op[o].pc = "done" /\ cmd[o].pc \in {"approving", "revoking"}
        /\ UNCHANGED <<pins, heap>> /\ op'[o] = Idle
    BY <1>8, <1>t, Actors DEF TrustReturns, At, Return, TypeOK
  <2>2. PICK pc \in {"bind", "block", "done"} :
          /\ cmd' = [cmd EXCEPT ![o].pc = pc]
          /\ pc = "bind" <=> op[o].status = "approved"
          /\ pc = "block" <=> op[o].status = "revoked"
    BY <1>8 DEF TrustReturns
  <2>3. /\ cmd'[o].pc = pc /\ cmd'[o].glyph = g /\ cmd'[o].ref = i /\ cmd'[o].card = c
    BY <1>m, <2>2
  <2>4. CASE pc = "done"
    <3>1. ~Written(o)
      BY <2>1, <2>2, <2>4 DEF Written
    <3>2. AllMatch'
      BY <1>q, <1>1, <2>1, <3>1 DEF CommandMatches, AllMatch
    <3> QED
      BY <2>3, <2>4, <3>2 DEF Running
  <2>5. CASE pc # "done"
    <3>1. Written(o) /\ (pc = "bind" => Approving(o))
      BY <1>t, <2>1, <2>2, <2>5 DEF Written, CommandCall, Approving
    <3>2. CommandMatches(o)'
      BY <1>q, <1>j, <1>1, <1>3, <2>1, <2>2, <2>3, <2>5, <3>1
      DEF CommandMatches, Written, Approving
    <3> QED
      BY <2>3, <2>5, <3>2 DEF Running
  <2> QED
    BY <2>4, <2>5
\* The assignments: the bindings of the other glyphs stay.
<1>a. ASSUME NEW card, NEW code, Assigned(o, card, code), UNCHANGED pins
      PROVE  /\ Len(heap') = Len(heap) /\ Others'
             /\ Bindings'[g].card = card /\ Bindings'[g].blocked = code
  <2>1. Bindings' = heap'[Len(heap)]
    BY <1>a DEF Assigned, Bindings
  <2>2. \A k \in Glyph : k # g => Bindings'[k] = Bindings[k]
    BY <1>a, <1>t, <2>1 DEF Assigned, Bindings
  <2>3. Others'
    BY <1>3, <1>a, <2>2 DEF Matches, LivePin
  <2> QED
    BY <1>3, <1>a, <2>1, <2>3 DEF Assigned
<1>9. CASE BindCard(o)
  <2>1. /\ cmd[o].pc = "bind" /\ c \in Cards /\ SetCard(o, c)
        /\ UNCHANGED <<pins, op>> /\ cmd' = [cmd EXCEPT ![o].pc = "unblock"]
        /\ op'[o] = Idle
    BY <1>9, <1>t DEF BindCard, CommandFrame, CommandCall, trustVars
  <2>2. Assigned(o, c, heap[i][g].blocked)
    BY <1>1, <2>1, AssignBinding
  <2>3. Len(heap') = Len(heap) /\ Others' /\ Bindings'[g].card = c
    BY <1>a, <2>1, <2>2
  <2>4. /\ cmd'[o].pc = "unblock" /\ cmd'[o].glyph = g /\ cmd'[o].ref = i
        /\ cmd'[o].card = c
    BY <1>m, <2>1
  <2>5. pins'[g] = PinOf(c)
    BY <1>1, <2>1 DEF CommandMatches, Written, Approving
  <2>6. CommandMatches(o)'
    BY <1>3, <1>j, <2>1, <2>3, <2>4, <2>5 DEF CommandMatches, Written, Approving, PinOf
  <2> QED
    BY <2>4, <2>6 DEF Running
<1>10. CASE Unblock(o)
  <2>1. /\ cmd[o].pc = "unblock" /\ SetBlocked(o, NoCode)
        /\ UNCHANGED <<pins, op>> /\ cmd' = [cmd EXCEPT ![o].pc = "gate"]
        /\ op'[o] = Idle
    BY <1>10, <1>t DEF Unblock, CommandCall, trustVars
  <2>2. Assigned(o, heap[i][g].card, NoCode)
    BY <1>1, <2>1, NoCodeIsNoResult, AssignBinding
  <2>3. Len(heap') = Len(heap) /\ Others' /\ Bindings'[g].card = heap[i][g].card
    BY <1>a, <2>1, <2>2
  <2>4. /\ cmd'[o].pc = "gate" /\ cmd'[o].glyph = g /\ cmd'[o].ref = i /\ cmd'[o].card = c
    BY <1>m, <2>1
  <2>5. pins'[g] = PinOf(c) /\ heap[i][g].card = c
    BY <1>1, <1>3, <2>1 DEF CommandMatches, Written, Approving, Bindings
  <2>6. CommandMatches(o)'
    BY <1>3, <1>j, <2>1, <2>3, <2>4, <2>5 DEF CommandMatches, Written, Approving, PinOf
  <2> QED
    BY <2>4, <2>6 DEF Running
\* The command ends.
<1>e. ASSUME cmd' = [cmd EXCEPT ![o].pc = "done"], Others', Matches(g, Bindings[g])'
      PROVE  (Running(o)' => CommandMatches(o)') /\ (~Running(o)' => AllMatch')
  <2>1. cmd'[o].pc = "done"
    BY <1>e, <1>m
  <2>2. AllMatch'
    BY <1>e, <2>1, <1>m DEF AllMatch
  <2> QED
    BY <2>1, <2>2 DEF Running
<1>11. CASE GateAttestation(o)
  <2>1. /\ cmd[o].pc = "gate" /\ c \in Cards /\ UNCHANGED pins
        /\ cmd' = [cmd EXCEPT ![o].pc = "done"]
    BY <1>11, <1>t DEF GateAttestation, CommandFrame, trustVars
  <2>2. pins[g] = PinOf(c) /\ Bindings[g].card = c
    BY <1>1, <2>1 DEF CommandMatches, Written, Approving
  <2>3. cmd'[o].glyph = g
    BY <1>m, <2>1
  <2>4. CASE AttestationCode(c) \in {NoCode, GateRaised}
    <3>1. UNCHANGED heap
      BY <1>11, <2>4 DEF GateAttestation
    <3>2. LivePin(g, c)
      <4>1. PinOf(c) # NoPin
        <5>1. PinOf(c) \in [card : Cards, revoked : BOOLEAN]
          BY <2>1 DEF PinOf
        <5> QED
          BY <5>1, TrustAssumption
      <4>2. PinOf(c).card = c /\ PinOf(c).revoked = FALSE
        BY DEF PinOf
      <4> QED
        BY <2>2, <4>1, <4>2, SameContractReflexive DEF LivePin
    <3>3. Matches(g, Bindings[g])
      BY <2>2, <2>4, <3>2 DEF Matches
    <3>4. Others' /\ Matches(g, Bindings[g])'
      BY <1>q, <2>1, <2>3, <3>1, <3>3
    <3> QED
      BY <1>e, <2>1, <3>4
  <2>5. CASE AttestationCode(c) \notin {NoCode, GateRaised}
    <3>1. PICK code \in Codes : code = AttestationCode(c) /\ SetBlocked(o, code)
      BY <1>11, <2>1, <2>5, CodesBlock DEF GateAttestation
    <3>2. Assigned(o, heap[i][g].card, code)
      BY <1>1, <3>1, AssignBinding
    <3>3. Others' /\ Bindings'[g].blocked # NoCode
      BY <1>a, <2>1, <2>5, <3>1, <3>2
    <3>4. Matches(g, Bindings[g])'
      BY <2>3, <3>3 DEF Matches
    <3> QED
      BY <1>e, <2>1, <3>3, <3>4
  <2> QED
    BY <2>4, <2>5
<1>12. CASE BlockRevoked(o)
  <2>1. /\ UNCHANGED pins /\ cmd' = [cmd EXCEPT ![o].pc = "done"]
        /\ SetBlocked(o, "CARD_REVOKED")
    BY <1>12 DEF BlockRevoked, trustVars
  <2>2. "CARD_REVOKED" \in Codes /\ "CARD_REVOKED" # NoCode
    BY Zenon DEF Codes, NoCode
  <2>3. Assigned(o, heap[i][g].card, "CARD_REVOKED")
    BY <1>1, <2>1, <2>2, AssignBinding
  <2>4. Others' /\ Bindings'[g].blocked # NoCode
    BY <1>a, <2>1, <2>2, <2>3
  <2>5. cmd'[o].glyph = g
    BY <1>m, <2>1
  <2>6. Matches(g, Bindings[g])'
    BY <2>4, <2>5 DEF Matches
  <2> QED
    BY <1>e, <2>1, <2>4, <2>6
<1> QED
  BY <1>5, <1>6, <1>7, <1>8, <1>9, <1>10, <1>11, <1>12 DEF CommandStep
\* The steps that begin something.
LEMMA BeginSerialNext ==
  ASSUME BridgeInv, SerialMatches, NoOverlap', [BridgeNext]_vars,
         Handshake \/ \E o \in Command, g \in Glyph : TrustTool(o, g) \/ RevokeTool(o, g)
  PROVE  SerialMatches'
<1>t. /\ TypeOK /\ CommandTyped /\ SyncFrame /\ \A o \in Command : CommandCall(o)
      /\ \A o \in Command : Running(o) \in BOOLEAN /\ cmd[o].overlapped \in BOOLEAN
  BY DEF BridgeInv, BridgeTypeOK, IInv, CommandTyped, CommandType, Running
<1>1. CASE Handshake
  <2>1. /\ UNCHANGED <<pins, op, heap>>
        /\ sync' = [NoSync EXCEPT !.pc = "fetch",
                                  !.todo = {k \in Glyph : server[k] # NoCard}]
        /\ sync.pc = "idle"
    BY <1>1 DEF Handshake, trustVars
  <2>2. \A o \in Command : cmd'[o].pc = cmd[o].pc
                           /\ cmd'[o].overlapped = (cmd[o].overlapped \/ Running(o))
    BY <1>1, <1>t DEF Handshake, CommandTyped, CommandType
  <2>3. \A o \in Command : ~Running(o) /\ ~Running(o)'
    BY <1>t, <2>2 DEF NoOverlap, Running
  <2>4. AllMatch'
    BY <2>1, <2>3 DEF SerialMatches, AllMatch, Matches, LivePin, Bindings
  <2>5. sync'.dict = Unbound /\ op'[Syncer] = Idle
    BY <1>t, <2>1, NoSyncTyped DEF SyncFrame, NoSync
  <2>6. SyncMatches'
    BY <2>5, NoSyncTyped, IdleFrame DEF SyncMatches, Matches, At, SavePcs
  <2> QED
    BY <2>3, <2>4, <2>6 DEF SerialMatches, Serial
<1>2. ASSUME NEW o \in Command, NEW g \in Glyph, TrustTool(o, g) \/ RevokeTool(o, g)
      PROVE  SerialMatches'
  <2>1. Parked(o, g) \in Cards \union {NoCard}
    BY <1>t, Actors, ActorsAssumption DEF Parked, TypeOK, Queue
  <2>2. PICK pc \in {"pick", "revoking"}, shown \in Cards \union {NoCard} :
          Start(o, g, pc, shown)
    BY <1>2, <2>1 DEF TrustTool, RevokeTool
  <2>3. /\ cmd[o].pc = "new" /\ cmd'[o].pc = pc /\ cmd'[o].glyph = g
        /\ cmd'[o].ref = Len(heap) /\ cmd'[o].overlapped = ~AtRest
    BY <2>2, StartCommand
  <2>4. ASSUME NEW p \in Command \ {o} PROVE cmd'[p].pc = cmd[p].pc
    <3>1. cmd'[p] = [cmd[p] EXCEPT !.overlapped = @ \/ Running(p)]
      BY <2>2, <2>4 DEF Start
    <3>2. cmd[p] \in CommandType
      BY <1>t, <2>4 DEF CommandTyped
    <3> QED
      BY <3>1, <3>2 DEF CommandType
  <2>5. AtRest
    BY <2>3 DEF NoOverlap, AtRest
  <2>6. UNCHANGED <<pins, heap, sync>>
    BY <1>2 DEF TrustTool, RevokeTool, Revoke, trustVars
  <2>7. sync'.pc = "idle" /\ \A p \in Command \ {o} : ~Running(p)'
    BY <2>4, <2>5, <2>6 DEF AtRest, Running
  <2>8. AllMatch
    BY <2>5 DEF SerialMatches, AtRest
  <2>9. \A k \in Glyph : Matches(k, Bindings[k])'
    BY <2>6, <2>8 DEF AllMatch, Matches, LivePin, Bindings
  <2>10. ~Written(o)'
    <3>1. op[o] = Idle
      BY <1>t, <2>3 DEF CommandCall
    <3>2. op'[o].status \notin {"approved", "revoked"}
      <4>1. CASE TrustTool(o, g)
        BY <3>1, <4>1, IdleStatus DEF TrustTool, trustVars
      <4>2. CASE RevokeTool(o, g)
        <5>1. op'[o].status \in {"missing", Idle.status}
          BY <1>t, <4>2, Actors DEF RevokeTool, Revoke, TypeOK, Idle
        <5> QED
          BY <5>1, IdleStatus
      <4> QED
        BY <1>2, <4>1, <4>2
    <3> QED
      BY <2>3, <3>2 DEF Written
  <2>s. ~Saving(o)'
    <3>1. op[o] = Idle
      BY <1>t, <2>3 DEF CommandCall
    <3>2. op'[o] = Idle \/ op'[o].pc \in {"done", "revoke"}
      <4>1. CASE TrustTool(o, g)
        BY <3>1, <4>1 DEF TrustTool, trustVars
      <4>2. CASE RevokeTool(o, g)
        BY <1>t, <4>2, Actors DEF RevokeTool, Revoke, TypeOK, Idle
      <4> QED
        BY <1>2, <4>1, <4>2
    <3> QED
      BY <3>2, IdleFrame DEF Saving
  <2>11. CommandMatches(o)'
    BY <2>3, <2>6, <2>9, <2>10, <2>s DEF CommandMatches, Written
  <2> QED
    BY <2>7, <2>11, <2>3 DEF SerialMatches, Serial, Running
<1> QED
  BY <1>1, <1>2

LEMMA SerialNext ==
  ASSUME ~WriteFaults, BridgeInv, NamesInv, RaisesOnlyWhenMixed, SerialInv,
         [BridgeNext]_vars
  PROVE  SerialInv'
<1>1. /\ (\A o \in Command : cmd[o].pc = "new" => ~cmd[o].overlapped)'
      /\ NoOverlap' => NoOverlap
  BY OverlapGrows DEF SerialInv
<1>2. SUFFICES ASSUME NoOverlap' PROVE SerialMatches'
  BY <1>1, <1>2 DEF SerialInv, SerialMatches
<1>3. SerialMatches
  BY <1>1, <1>2 DEF SerialInv, SerialMatches
<1>4. CASE SyncStep
  BY <1>3, <1>4, SyncSerialNext
<1>5. ASSUME NEW o \in Command, CommandStep(o) PROVE SerialMatches'
  BY <1>3, <1>5, CommandSerialNext
<1>6. CASE Handshake \/ \E o \in Command, g \in Glyph : TrustTool(o, g) \/ RevokeTool(o, g)
  BY <1>2, <1>3, <1>6, BeginSerialNext
<1>7. CASE UNCHANGED <<pins, op, heap, sync, cmd>>
  BY <1>3, <1>7 DEF SerialMatches, Serial, SyncMatches, CommandMatches, AllMatch,
                    Running, Written, Approving, Matches, LivePin, At, Bindings, Saving
<1>8. ASSUME NEW h \in Call, CallStep(h) \/ Expire(h) \/ \E g \in Glyph : Lookup(h, g)
      PROVE  UNCHANGED <<pins, op, heap, sync, cmd>>
  BY <1>8 DEF CallStep, Expire, Lookup, Gate, Ask, Confirm, Prepare, PrepareFails,
              Execute, SendFails, Seal, SealRaises, Step, Answer, trustVars
<1>9. ASSUME NEW g \in Glyph, NEW c \in Cards \union {NoCard}, Deploy(g, c)
      PROVE  UNCHANGED <<pins, op, heap, sync, cmd>>
  BY <1>9 DEF Deploy, trustVars
<1>10. CASE UNCHANGED vars
  BY <1>7, <1>10 DEF vars, trustVars, bridgeVars
<1> QED
  BY <1>4, <1>5, <1>6, <1>7, <1>8, <1>9, <1>10 DEF BridgeNext

\* As long as the disk works and syncs and commands come one after the other,
\* with nothing under way a callable tool has a live pin of the contract it is
\* bound to, and passes the attestation policy unless the gate raises on its
\* card, whatever was deployed, approved and revoked: trust and revoke do take
\* effect on registered tools.  (A card the gate raises on is never callable
\* through a sync, which aborts, but through `/glyph trust'.)
THEOREM CallableStaysInStep ==
  ASSUME ~WriteFaults
  PROVE  BridgeSpec => []CallableMatchesStore
<1>1. BridgeInit => NamesInv /\ SerialInv
  <2> SUFFICES ASSUME BridgeInit PROVE NamesInv /\ SerialInv
    OBVIOUS
  <2>1. /\ heap = <<Unbound>> /\ sync = NoSync
        /\ \A o \in Command : cmd[o] = NewCommand
        /\ pending = [p \in Proc |-> NothingParked]
        /\ file = NoFile /\ tmp = NoFile /\ op = [a \in Actor |-> Idle]
    BY DEF BridgeInit, TrustInit
  <2>2. Len(heap) = 1 /\ heap[1] = Unbound /\ Bindings = Unbound
    BY <2>1 DEF Bindings
  <2>3. /\ NewCommand.pc = "new" /\ NewCommand.overlapped = FALSE
    BY DEF NewCommand
  <2>4. NamesInv
    <3>1. Filed(NothingParked) /\ NoFile.queue = NothingParked
      BY DEF Filed, NothingParked, NoFile
    <3>2. \A a \in Actor : ~Saving(a)
      BY <2>1, IdleFrame DEF Saving
    <3>3. \A p \in Proc : Filed(pending[p])
      BY <2>1, <3>1
    <3>4. FilesNamed
      BY <2>1, <3>1, <3>2 DEF FilesNamed
    <3>5. Bound(sync.dict) /\ \A i \in 1..Len(heap) : Bound(heap[i])
      BY <2>1, <2>2, NoSyncTyped DEF Bound
    <3> QED
      BY <2>1, <2>3, <3>3, <3>4, <3>5 DEF NamesInv, Approving
  <2>5. \A o \in Command : ~Running(o)
    BY <2>1, <2>3 DEF Running
  <2>6. AllMatch
    BY <2>2, NoSyncTyped DEF AllMatch, Matches
  <2>7. SerialInv
    BY <2>1, <2>3, <2>5, <2>6, NoSyncTyped DEF SerialInv, Serial
  <2> QED
    BY <2>4, <2>7
<1>2. BridgeInv /\ NamesInv /\ RaisesOnlyWhenMixed /\ SerialInv /\ [BridgeNext]_vars
        => NamesInv' /\ SerialInv'
  BY NamesNext, SerialNext
<1>3. SerialInv => CallableMatchesStore
  BY DEF SerialInv, CallableMatchesStore, NoOverlap, AtRest, AllMatch, Matches, LivePin
<1> QED
  BY <1>1, <1>2, <1>3, BridgeBase, BridgeInductive, BridgeLoneSave, PTL DEF BridgeSpec
=============================================================================
