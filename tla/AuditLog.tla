------------------------------ MODULE AuditLog ------------------------------
(***************************************************************************)
(* The receipt audit log of one server (audit.py) and the end of a tool    *)
(* call that writes it (ServerBridge._seal): the envelope is checked       *)
(* against the card pinned by then, a line is appended, the result is      *)
(* handed out or withheld.  The log is read back by verify_all long after, *)
(* when the glyph's key may have been rotated and re-approved.             *)
(*                                                                         *)
(* record opens the file for appending and hands one line to one write, of *)
(* any size; calls of several threads and processes append in some order.  *)
(* A write cut short (disk full, power loss) leaves a line without its     *)
(* end, and the next record continues that line.                           *)
(***************************************************************************)
EXTENDS Integers, Sequences, SequencesExt, FiniteSets

CONSTANTS
  Call,            \* calls, of whatever process, whose envelope has arrived
  PublicKey,       \* signing keys of the glyph's publisher, and of others
  ReceiptsVerify,  \* receipts.verify
  OnFailureBlock,  \* receipts.on_failure = block
  MaxRotate        \* bound: approvals of a card with another key

ASSUME AuditLogAssumption ==
  /\ IsFiniteSet(Call)
  /\ {ReceiptsVerify, OnFailureBlock} \subseteq BOOLEAN /\ MaxRotate \in Nat

VARIABLES
  pinned,   \* the public key of the card pinned for the glyph
  rotated,  \* number of times it changed
  call,     \* the calls
  log       \* the file: its lines

vars == <<pinned, rotated, call, log>>

\* A signed receipt, and whether payload, card id and inspection go with it.
Envelope == [key : PublicKey, signed : BOOLEAN, matches : BOOLEAN]

\* A call nothing was handed out for.
NoResult == ""

\* What of an entry the log is read for; whole says its JSON is complete.
Entry(h, whole) ==
  [call |-> h, pinned |-> call[h].pinned, key |-> call[h].envelope.key,
   signed |-> call[h].envelope.signed, verified |-> call[h].verified,
   whole |-> whole]

\* Ends of the file: a line is what was written up to a newline.
OpenLine == log # <<>> /\ ~Last(log).ended

----------------------------------------------------------------------------
(* _seal.                                                                  *)

Goto(h, pc) == call' = [call EXCEPT ![h].pc = pc]

\* check_envelope.
Verified(envelope, key) == envelope.key = key /\ envelope.signed /\ envelope.matches

\* The pin is read and the envelope checked against it; with verification off,
\* `verified' keeps its initial True.
Check(h, envelope) ==
  /\ call[h].pc = "new"
  /\ call' = [call EXCEPT ![h] =
       [pc |-> "record", envelope |-> envelope, pinned |-> pinned,
        verified |-> ReceiptsVerify => Verified(envelope, pinned), result |-> NoResult]]
  /\ UNCHANGED <<pinned, rotated, log>>

\* A line of its own, or the rest of an unfinished one.
Appended(entry, ended) ==
  IF OpenLine
  THEN [log EXCEPT ![Len(log)] = [parts |-> Append(@.parts, entry), ended |-> ended]]
  ELSE Append(log, [parts |-> <<entry>>, ended |-> ended])

Record(h) ==
  /\ call[h].pc = "record"
  /\ log' = Appended(Entry(h, TRUE), TRUE)
  /\ Goto(h, "answer")
  /\ UNCHANGED <<pinned, rotated>>

\* Mutant: a log that cannot be written does not stop the call.
RecordFails_Swallowed(h) ==
  /\ call[h].pc = "record"
  /\ log' \in {log} \union {Appended(Entry(h, whole), FALSE) : whole \in BOOLEAN}
  /\ Goto(h, "answer")
  /\ UNCHANGED <<pinned, rotated>>

\* Mutant: a write that failed is tried again.
RecordFails_Retried(h) ==
  /\ call[h].pc = "record"
  /\ log' \in {log} \union {Appended(Entry(h, whole), FALSE) : whole \in BOOLEAN}
  /\ UNCHANGED <<pinned, rotated, call>>

\* Nothing, a part of the JSON, or all but the newline gets written: the call
\* ends in an exception.
RecordFails(h) ==
  /\ call[h].pc = "record"
  /\ log' \in {log} \union {Appended(Entry(h, whole), FALSE) : whole \in BOOLEAN}
  /\ Goto(h, "raised")
  /\ UNCHANGED <<pinned, rotated>>

Answer(h) ==
  /\ call[h].pc = "answer"
  /\ call' = [call EXCEPT ![h].pc = "returned", ![h].result =
       IF call[h].verified THEN "released"
       ELSE IF OnFailureBlock THEN "withheld" ELSE "warned"]
  /\ UNCHANGED <<pinned, rotated, log>>

\* /glyph trust of a card with another key.
Rotate(key) ==
  /\ rotated < MaxRotate /\ key # pinned
  /\ pinned' = key
  /\ rotated' = rotated + 1
  /\ UNCHANGED <<call, log>>

----------------------------------------------------------------------------
(* Reading the log: verify_all.                                            *)

\* A line that json.loads can parse holds one complete entry.
Readable(line) == Len(line.parts) = 1 /\ Head(line.parts).whole

\* Mutant: the receipt is checked against the key pinned by now.
ReceiptOk_CurrentPin(entry) == entry.key = pinned /\ entry.signed

\* The receipt is signed, by the key the entry says was pinned.
ReceiptOk(entry) == entry.key = entry.pinned /\ entry.signed

\* Mutant: lines that cannot be parsed are skipped, not counted.
Unparseable_Skipped == {}

Unparseable == {i \in DOMAIN log : ~Readable(log[i])}

Parsed == {Head(line.parts) : line \in {l \in ToSet(log) : Readable(l)}}
Bad == {entry \in Parsed : ~ReceiptOk(entry)}

----------------------------------------------------------------------------
NewCall(key) ==
  [pc |-> "new", envelope |-> [key |-> key, signed |-> TRUE, matches |-> TRUE],
   pinned |-> key, verified |-> FALSE, result |-> NoResult]

Init ==
  /\ pinned \in PublicKey
  /\ rotated = 0
  /\ call = [h \in Call |-> NewCall(pinned)]
  /\ log = <<>>

Next ==
  \/ \E h \in Call :
       \/ \E envelope \in Envelope : Check(h, envelope)
       \/ Record(h) \/ RecordFails(h) \/ Answer(h)
  \/ \E key \in PublicKey : Rotate(key)

Spec == Init /\ [][Next]_vars

----------------------------------------------------------------------------
(* Properties.                                                             *)

Entries == [call : Call, pinned : PublicKey, key : PublicKey, signed : BOOLEAN,
            verified : BOOLEAN, whole : BOOLEAN]

TypeOK ==
  /\ pinned \in PublicKey /\ rotated \in 0..MaxRotate
  /\ call \in [Call ->
       [pc : {"new", "record", "answer", "returned", "raised"}, envelope : Envelope,
        pinned : PublicKey, verified : BOOLEAN,
        result : {NoResult, "released", "withheld", "warned"}]]
  /\ log \in Seq([parts : Seq(Entries), ended : BOOLEAN])
  \* Only the last line can be unfinished; no call writes twice.
  /\ \A i \in DOMAIN log :
       /\ i < Len(log) => log[i].ended
       /\ \A part \in ToSet(log[i].parts) : call[part.call].pc \notin {"new", "record"}

\* What verified when the call was made verifies when the log is read, however
\* often the glyph's key was rotated and re-approved since: verify_all
\* "re-checks the receipt against THIS, not against the receipt's own key",
\* the key the entry says was trusted at call time.
EvidenceHolds ==
  ReceiptsVerify => \A entry \in Parsed : entry.verified => entry \notin Bad

\* The entry of a call the model got an answer from.
Answered(h) == call[h].pc = "returned"
RecordedIn(h, line) == \E part \in ToSet(line.parts) : part.call = h

\* Every answered call, withheld or warned about included, is in the log (README:
\* "always audited").  Where it cannot be read back, because it continued a line
\* another call left unfinished, verify_all counts that line as unparseable:
\* evidence is never lost without a trace.
AlwaysAudited ==
  \A h \in Call : Answered(h) =>
    \/ \E entry \in Parsed : entry.call = h /\ entry.verified = call[h].verified
    \/ \E i \in Unparseable : RecordedIn(h, log[i])

\* A full disk costs at most one more entry: an answered call's entry is
\* unreadable only in a line whose first part was cut short, and every later
\* line starts afresh.
OneLostPerTear ==
  Cardinality({h \in Call : Answered(h) /\ ~\E entry \in Parsed : entry.call = h})
    <= Cardinality({h \in Call : call[h].pc = "raised"})
=============================================================================
