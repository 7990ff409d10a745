---------------------------- MODULE TrustManager ----------------------------
(***************************************************************************)
(* TrustManager (trust.py): the pins and the re-approval queue of one      *)
(* server.  The pin file and the queue file are shared by the processes    *)
(* that work on the server (the Hermes process, the `hermes glyph' CLI);   *)
(* the queue itself, _pending, is a dict each process loads once.  Nothing *)
(* locks: an evaluate, approve or revoke is a sequence of steps, one per   *)
(* access to the store, the dict or the file system, and those of          *)
(* different actors interleave.                                            *)
(*                                                                         *)
(* Every save writes one file, <alias>.tmp, and renames it to <alias>.json *)
(* over the one there.  A writer keeps the file it opened, whatever name   *)
(* that has by then: `where' in a call's frame says which.                 *)
(***************************************************************************)
EXTENDS Cards

CONSTANTS
  Actor,            \* threads that call the trust manager
  Proc,             \* processes
  ProcOf,           \* the process of each actor
  NoPin,            \* "no pin"
  AutoRepinReview,  \* auto_repin_review
  WriteFaults,      \* whether saving the queue can raise
  Crashes           \* whether processes die

ASSUME ActorsAssumption == ProcOf \in [Actor -> Proc]

ASSUME TrustAssumption ==
  /\ {AutoRepinReview, WriteFaults, Crashes} \subseteq BOOLEAN
  /\ NoPin \notin [card : Cards, revoked : BOOLEAN]

VARIABLES
  pins,      \* the pin store (external: FilePinStore)
  pending,   \* _pending, per process
  file,      \* the queue file, pending_path
  tmp,       \* the file a save is written to first
  op,        \* the call each actor is in
  mixed,     \* history: two saves overlapped, and none has run alone since
  approved,  \* history: cards an operator approved
  firstUse   \* history: cards TOFU pinned

files == <<file, tmp, mixed>>
trustVars == <<pins, pending, file, tmp, op, mixed, approved, firstUse>>

Pin == [card : Cards, revoked : BOOLEAN]
PinOf(c) == [card |-> c, revoked |-> FALSE]
Queue == [Glyph -> Cards \union {NoCard}]
NothingParked == [g \in Glyph |-> NoCard]

\* What a name of the file system stands for: no file, a file just emptied, one
\* that does not parse, or a dump.  Only a dump loads as more than nothing.
NoFile == [state |-> "absent", queue |-> NothingParked]
Emptied == [state |-> "empty", queue |-> NothingParked]
Torn == [state |-> "torn", queue |-> NothingParked]
Dumped(q) == [state |-> "whole", queue |-> q]
Texts == {NoFile, Emptied, Torn} \union {Dumped(q) : q \in Queue}

\* pc: where the call is.  card, name: its argument.  pin: what it read from
\* the store.  status: what it will return.  dump: the queue being saved.
\* where: what the file being written is called.  alone, history: no other save
\* has been under way during this one.
Idle == [pc |-> "idle", name |-> "", card |-> NoCard, pin |-> NoPin, status |-> "",
         dump |-> NothingParked, where |-> "", alone |-> FALSE]

----------------------------------------------------------------------------
(* Steps shared by the operations.                                         *)

At(a, pc) == op[a].pc = pc

Goto(a, pc, status) ==
  op' = [op EXCEPT ![a] = [@ EXCEPT !.pc = pc, !.status = status]]

\* _pin: a fresh pin, not revoked, replaces whatever the store holds.
Put(c) == pins' = [pins EXCEPT ![c.name] = PinOf(c)]

SetPending(a, g, c) == pending' = [pending EXCEPT ![ProcOf[a]][g] = c]

----------------------------------------------------------------------------
(* evaluate.                                                               *)

\* Mutant: auto_repin_review is asked before the severity of the change.
Verdict_RepinsAnyChange(pin, c) ==
  IF pin = NoPin THEN IF TofuAllows(c) THEN "tofu" ELSE "new"
  ELSE IF pin.revoked THEN "revoked"
  ELSE IF SameIdAndKey(pin.card, c) THEN "match"
  ELSE IF AutoRepinReview THEN "repin" ELSE "park"

\* Mutant: the revocation is looked at after the comparison.
Verdict_RevokedLast(pin, c) ==
  IF pin = NoPin THEN IF TofuAllows(c) THEN "tofu" ELSE "new"
  ELSE IF SameIdAndKey(pin.card, c) THEN "match"
  ELSE IF RequiresApproval(pin.card, c) \/ ~AutoRepinReview THEN "park"
  ELSE "repin"

\* The ladder of evaluate below the signature check, on the pin it read.
Verdict(pin, c) ==
  CASE pin = NoPin -> IF TofuAllows(c) THEN "tofu" ELSE "new"
    [] pin # NoPin /\ pin.revoked -> "revoked"
    [] pin # NoPin /\ ~pin.revoked ->
         IF SameIdAndKey(pin.card, c) THEN "match"
         ELSE IF RequiresApproval(pin.card, c) \/ ~AutoRepinReview THEN "park"
         ELSE "repin"

\* verify_glyph, then store.get: what follows works on the pin read here.
Evaluate(a, c) ==
  /\ At(a, "idle")
  /\ op' = [op EXCEPT ![a] =
       IF c.signed
       THEN [Idle EXCEPT !.pc = "decide", !.name = c.name, !.card = c,
                         !.pin = pins[c.name]]
       ELSE [Idle EXCEPT !.pc = "done", !.name = c.name, !.card = c,
                         !.status = "invalid"]]
  /\ UNCHANGED <<pins, pending, files, approved, firstUse>>

Deciding(a, verdict) ==
  At(a, "decide") /\ Verdict(op[a].pin, op[a].card) = verdict

TofuPin(a) ==
  /\ Deciding(a, "tofu")
  /\ Put(op[a].card)
  /\ firstUse' = firstUse \union {op[a].card}
  /\ Goto(a, "done", "pinned")
  /\ UNCHANGED <<pending, files, approved>>

\* The two answers that change nothing: `new' and `revoked'.
Refuse(a) ==
  /\ \E status \in {"new", "revoked"} :
       Deciding(a, status) /\ Goto(a, "done", status)
  /\ UNCHANGED <<pins, pending, files, approved, firstUse>>

MatchPin(a) ==
  /\ Deciding(a, "match")
  /\ SetPending(a, op[a].name, NoCard)
  /\ Goto(a, "save", "pinned")
  /\ UNCHANGED <<pins, files, approved, firstUse>>

Park(a) ==
  /\ Deciding(a, "park")
  /\ SetPending(a, op[a].name, op[a].card)
  /\ Goto(a, "save", "changed")
  /\ UNCHANGED <<pins, files, approved, firstUse>>

\* The review-only re-pin leaves the queue as it is.
AutoRepin(a) ==
  /\ Deciding(a, "repin")
  /\ Put(op[a].card)
  /\ Goto(a, "done", "pinned")
  /\ UNCHANGED <<pending, files, approved, firstUse>>

----------------------------------------------------------------------------
(* approve and revoke.                                                     *)

Approve(a, c) ==
  /\ At(a, "idle") /\ c.signed
  /\ Put(c)
  /\ approved' = approved \union {c}
  /\ op' = [op EXCEPT ![a] = [Idle EXCEPT !.pc = "unpark", !.name = c.name,
                                          !.card = c, !.status = "approved"]]
  /\ UNCHANGED <<pending, files, firstUse>>

RefuseApproval(a, c) ==
  /\ At(a, "idle") /\ ~c.signed
  /\ op' = [op EXCEPT ![a] = [Idle EXCEPT !.pc = "done", !.name = c.name,
                                          !.card = c, !.status = "refused"]]
  /\ UNCHANGED <<pins, pending, files, approved, firstUse>>

Revoke(a, g) ==
  /\ At(a, "idle")
  /\ op' = [op EXCEPT ![a] =
       IF pins[g] = NoPin
       THEN [Idle EXCEPT !.pc = "done", !.name = g, !.status = "missing"]
       ELSE [Idle EXCEPT !.pc = "revoke", !.name = g, !.pin = pins[g]]]
  /\ UNCHANGED <<pins, pending, files, approved, firstUse>>

\* Mutant: the card is stored where the pin belongs.
RevokePut_StoresCard(a) ==
  /\ At(a, "revoke")
  /\ pins' = [pins EXCEPT ![op[a].name] = op[a].pin.card]
  /\ Goto(a, "unpark", "revoked")
  /\ UNCHANGED <<pending, files, approved, firstUse>>

RevokePut(a) ==
  /\ At(a, "revoke")
  /\ pins' = [pins EXCEPT ![op[a].name] = [op[a].pin EXCEPT !.revoked = TRUE]]
  /\ Goto(a, "unpark", "revoked")
  /\ UNCHANGED <<pending, files, approved, firstUse>>

\* Mutant: the command forgets to save the queue it popped from.
Unpark_NoSave(a) ==
  /\ At(a, "unpark")
  /\ SetPending(a, op[a].name, NoCard)
  /\ Goto(a, "done", op[a].status)
  /\ UNCHANGED <<pins, files, approved, firstUse>>

Unpark(a) ==
  /\ At(a, "unpark")
  /\ SetPending(a, op[a].name, NoCard)
  /\ Goto(a, "save", op[a].status)
  /\ UNCHANGED <<pins, files, approved, firstUse>>

----------------------------------------------------------------------------
(* _save_pending: dumps this process's whole queue, writes the text to tmp *)
(* and renames tmp to the queue file.                                      *)

Saving(a) == op[a].pc \in {"open", "write", "rename"}
OthersSave(a) == \E b \in Actor \ {a} : Saving(b)

\* The frame of a call whose save has ended.
Saved(a, status) ==
  [op[a] EXCEPT !.pc = "done", !.status = status, !.dump = NothingParked,
                !.where = "", !.alone = FALSE]

\* json.dumps of the dict as it is now.
Dump(a) ==
  /\ At(a, "save")
  /\ op' = [b \in Actor |->
       IF b = a THEN [op[a] EXCEPT !.pc = "open", !.dump = pending[ProcOf[a]],
                                   !.alone = ~OthersSave(a)]
       ELSE [op[b] EXCEPT !.alone = FALSE]]
  /\ mixed' = (mixed \/ OthersSave(a))
  /\ UNCHANGED <<pins, pending, file, tmp, approved, firstUse>>

\* Mutant: the queue file itself is opened.
Open_InPlace(a) ==
  /\ At(a, "open")
  /\ file' = Emptied
  /\ op' = [op EXCEPT ![a].pc = "write", ![a].where = "file"]
  /\ UNCHANGED <<pins, pending, tmp, mixed, approved, firstUse>>

\* Mutant: a file left behind is opened as it is, not emptied.
Open_KeepsContent(a) ==
  /\ At(a, "open")
  /\ tmp' = IF tmp = NoFile THEN Emptied ELSE tmp
  /\ op' = [op EXCEPT ![a].pc = "write", ![a].where = "tmp"]
  /\ UNCHANGED <<pins, pending, file, mixed, approved, firstUse>>

\* open("w"): the file of that name, emptied, or a new one.
Open(a) ==
  /\ At(a, "open")
  /\ tmp' = Emptied
  /\ op' = [op EXCEPT ![a].pc = "write", ![a].where = "tmp"]
  /\ UNCHANGED <<pins, pending, file, mixed, approved, firstUse>>

\* The file a has open, and a write to it.
Opened(a) ==
  CASE op[a].where = "tmp" -> tmp
    [] op[a].where = "file" -> file
    [] OTHER -> Emptied

WriteText(a, text) ==
  /\ tmp' = IF op[a].where = "tmp" THEN text ELSE tmp
  /\ file' = IF op[a].where = "file" THEN text ELSE file

\* Mutant: the text is still in the buffer when the file is renamed.
Write_Unflushed(a) ==
  /\ At(a, "write")
  /\ op' = [op EXCEPT ![a].pc = "rename", ![a].where = ""]
  /\ UNCHANGED <<pins, pending, files, approved, firstUse>>

\* The whole text, from the start of the file.  If another save has written
\* there since the file was emptied, what is left of that may stick out.
Write(a) ==
  /\ At(a, "write")
  /\ \E text \in {Dumped(op[a].dump)}
                  \union (IF Opened(a) = Emptied THEN {} ELSE {Torn}) :
       WriteText(a, text)
  /\ op' = [op EXCEPT ![a].pc = "rename", ![a].where = ""]
  /\ UNCHANGED <<pins, pending, mixed, approved, firstUse>>

\* The name another writer knows its file by, after a rename of tmp.
AfterRename(where) ==
  CASE where = "tmp" -> "file"
    [] where = "file" -> "gone"
    [] OTHER -> where

Rename(a) ==
  /\ At(a, "rename") /\ tmp # NoFile
  /\ file' = tmp /\ tmp' = NoFile
  /\ mixed' = (mixed /\ ~op[a].alone)
  /\ op' = [b \in Actor |->
       IF b = a THEN Saved(a, op[a].status)
       ELSE [op[b] EXCEPT !.where = AfterRename(@)]]
  /\ UNCHANGED <<pins, pending, approved, firstUse>>

\* Another thread of the process parks or takes a card while json.dumps goes
\* through the dict (its own save is yet to come): RuntimeError.  Or another save
\* has renamed the file already: FileNotFoundError.
Overtaken(a) ==
  \/ At(a, "save") /\ \E b \in Actor \ {a} : ProcOf[b] = ProcOf[a] /\ At(b, "save")
  \/ At(a, "rename") /\ tmp = NoFile

\* The directory or the disk.
DiskFails(a) == WriteFaults /\ (At(a, "save") \/ Saving(a))

\* A write that fails may leave a torn text.  When _save_pending raises, so does
\* the operation.
SaveRaises(a) ==
  /\ Overtaken(a) \/ DiskFails(a)
  /\ \/ UNCHANGED <<tmp, file>>
     \/ At(a, "write") /\ WriteText(a, Torn)
  /\ op' = [op EXCEPT ![a] = Saved(a, "raised")]
  /\ UNCHANGED <<pins, pending, mixed, approved, firstUse>>

Return(a) ==
  /\ At(a, "done")
  /\ op' = [op EXCEPT ![a] = Idle]
  /\ UNCHANGED <<pins, pending, files, approved, firstUse>>

\* A process dies and starts again: its calls are gone, its queue is what
\* _load_pending finds.
Restart(p) ==
  /\ Crashes
  /\ op' = [a \in Actor |-> IF ProcOf[a] = p THEN Idle ELSE op[a]]
  /\ pending' = [pending EXCEPT ![p] = file.queue]
  /\ UNCHANGED <<pins, files, approved, firstUse>>

----------------------------------------------------------------------------
TrustInit ==
  /\ pins = [g \in Glyph |-> NoPin]
  /\ pending = [p \in Proc |-> NothingParked]
  /\ file = NoFile /\ tmp = NoFile /\ mixed = FALSE
  /\ op = [a \in Actor |-> Idle]
  /\ approved = {}
  /\ firstUse = {}

\* The steps of a call once it is under way.
Continue(a) ==
  \/ TofuPin(a) \/ Refuse(a) \/ MatchPin(a) \/ Park(a) \/ AutoRepin(a)
  \/ RevokePut(a) \/ Unpark(a)
  \/ Dump(a) \/ Open(a) \/ Write(a) \/ Rename(a) \/ SaveRaises(a)

TrustNext ==
  \/ \E a \in Actor :
       \/ \E c \in Cards : Evaluate(a, c) \/ Approve(a, c) \/ RefuseApproval(a, c)
       \/ \E g \in Glyph : Revoke(a, g)
       \/ Continue(a)
       \/ Return(a)
  \/ \E p \in Proc : Restart(p)

TrustSpec == TrustInit /\ [][TrustNext]_trustVars

----------------------------------------------------------------------------
(* Properties.                                                             *)

Pcs == {"idle", "decide", "revoke", "unpark", "save", "open", "write", "rename",
        "done"}

Statuses == {"", "pinned", "new", "revoked", "changed", "invalid", "approved",
             "refused", "missing", "raised"}

Calls == [pc : Pcs, name : Glyph \union {""}, card : Cards \union {NoCard},
          pin : Pin \union {NoPin}, status : Statuses, dump : Queue,
          where : {"", "tmp", "file", "gone"}, alone : BOOLEAN]

\* Every variable holds what the code keeps there.
TypeOK ==
  /\ pins \in [Glyph -> Pin \union {NoPin}]
  /\ pending \in [Proc -> Queue]
  /\ {file, tmp} \subseteq Texts
  /\ op \in [Actor -> Calls]
  /\ mixed \in BOOLEAN
  /\ approved \subseteq Cards
  /\ firstUse \subseteq Cards

\* Cards a human, or the TOFU policy, said yes to.
Endorsed(c) ==
  /\ c.signed
  /\ \E e \in approved \union {f \in firstUse : TofuAllows(f)} :
       e.signed /\ SameContract(e, c)

\* Whatever calls interleave, fail or are cut off by a restart, a pin never
\* drifts across a breaking change nobody agreed to: it is a verified card of
\* its glyph, with the contract of an approved card or of one that TOFU
\* allows (trust.py: "breaking fields gate execution (need human
\* re-approval)").
PinsEndorsed ==
  \A g \in Glyph : pins[g] # NoPin =>
    pins[g].card.name = g /\ Endorsed(pins[g].card)

\* An evaluate that is about to answer `pinned', the only answer that makes a
\* tool callable, answers so for a card with an endorsed contract, even when
\* the pin it compared the card with has since been replaced.
AnswersEndorsed ==
  \A a \in Actor :
    (op[a].pc \in {"save", "done"} \/ Saving(a)) /\ op[a].status = "pinned"
      => Endorsed(op[a].card)

Queued(p) ==
  \A a \in Actor : ProcOf[a] = p => ~At(a, "save") /\ ~Saving(a)

\* With one process and a disk that works, the queue file is the queue whenever
\* no call is on its way to save it, if the saves came one after the other
\* since one that ran alone: an operation that raised leaves the file no older
\* than the dict (json.dumps of a dict that changes raises).
QueueDurable ==
  \A p \in Proc : Queued(p) /\ ~mixed => file.queue = pending[p]

\* As long as no two saves overlapped, and again from the first save on that
\* runs alone, the queue file changes only as a whole, to the dump of the save
\* that is renamed, whatever write failed and whoever died in between: a
\* process that starts loads the queue saved last.
QueueIntact ==
  [][file' # file /\ ~mixed =>
       \E a \in Actor : At(a, "rename") /\ file' = Dumped(op[a].dump)]_trustVars

\* A save that overlaps no other never finds its file renamed away.
RaisesOnlyWhenMixed ==
  \A a \in Actor : At(a, "rename") /\ tmp = NoFile => ~op[a].alone

----------------------------------------------------------------------------
(* The inductive strengthening: what a call under way keeps in its frame.  *)

Frames ==
  \A a \in Actor :
    /\ At(a, "decide") =>
         op[a].card \in Cards /\ op[a].card.signed /\ op[a].card.name = op[a].name
    /\ op[a].pc \in {"decide", "revoke", "unpark"} => op[a].name \in Glyph
    /\ At(a, "revoke") => op[a].pin # NoPin /\ op[a].card = NoCard
    /\ At(a, "unpark") => op[a].status \in {"approved", "revoked"}

\* A pin read from the store stays endorsed however old it gets.
SnapshotsEndorsed ==
  \A a \in Actor :
    op[a].pc \in {"decide", "revoke"} /\ op[a].pin # NoPin =>
      op[a].pin.card.name = op[a].name /\ Endorsed(op[a].pin.card)

IInv == TypeOK /\ Frames /\ PinsEndorsed /\ AnswersEndorsed /\ SnapshotsEndorsed

\* With one thread nothing changes the store between its read and its use.
SnapshotsFresh ==
  \A a \in Actor : op[a].pc \in {"decide", "revoke"} => op[a].pin = pins[op[a].name]

----------------------------------------------------------------------------
\* An approve or revoke that has written its pin and not yet returned.  An
\* evaluate that answers `revoked' has a card in its frame.
CommandInEffect(call) ==
  /\ call.pc \in {"unpark", "save", "open", "write", "rename", "done"}
  /\ \/ call.status = "approved"
     \/ call.status = "revoked" /\ call.card = NoCard

OperatorActed == \E a \in Actor : CommandInEffect(op[a])

Ledger == INSTANCE TrustLedger WITH ledger <- pins, operator <- OperatorActed

\* Called by one thread, the manager implements the ledger: its calls, made
\* of several steps and possibly cut off by an error or a restart, change a
\* pin in one step that the ledger allows, and without an operator's command
\* only on a first use TOFU allows or across a review change.
ImplementsLedger == Ledger!LedgerSpec

\* What the code does not give: with nothing to save a parked card is in the
\* file (trust.py: "persistence of the re-approval queue").  Of two overlapping
\* saves of one process the one with the older dump can be renamed last; no run
\* checks it.
ParkedIsSaved ==
  \A p \in Proc : Queued(p) => file.queue = pending[p]

\* What the code does not give: when evaluate answers `pinned' no change of that
\* glyph is left in the queue `/glyph diff' shows as pending and `/glyph trust'
\* approves from (README: "/glyph diff <tool> | pending breaking changes").  It
\* fails after an automatic re-pin, and no run checks it.
PinnedMeansNothingParked ==
  \A a \in Actor :
    At(a, "done") /\ op[a].status = "pinned"
      => pending[ProcOf[a]][op[a].name] = NoCard
=============================================================================
