--------------------------- MODULE AuditLogProofs ---------------------------
(***************************************************************************)
(* AuditLog, for any number of calls, keys and rotations: what verified    *)
(* when a call was made verifies whenever the log is read, no answered     *)
(* call is missing from it, and each torn write costs at most one more     *)
(* entry.                                                                  *)
(*                                                                         *)
(* The argument is about the shape of the file (Lines): a line is the      *)
(* entries of calls whose write was cut short, and, once it has its end,   *)
(* one more, of a call that went on to answer.  With no call filed twice   *)
(* (FiledOnce), an answered call whose entry cannot be read shares its     *)
(* line with a torn one, and no two of them share the same.                *)
(***************************************************************************)
EXTENDS AuditLog, FiniteSetTheorems, FunctionTheorems, SequenceTheorems, TLAPS

Filing == {"answer", "returned"}

\* Every line is torn entries, but for the last one of a line with an end.
Lines ==
  \A i \in DOMAIN log :
    /\ log[i].parts # <<>>
    /\ i < Len(log) => log[i].ended
    /\ \A j \in DOMAIN log[i].parts :
         IF j = Len(log[i].parts) /\ log[i].ended
         THEN call[log[i].parts[j].call].pc \in Filing
         ELSE call[log[i].parts[j].call].pc = "raised"

\* No call is filed in two places.
FiledOnce ==
  \A i, k \in DOMAIN log :
    \A j \in DOMAIN log[i].parts, l \in DOMAIN log[k].parts :
      log[i].parts[j].call = log[k].parts[l].call => i = k /\ j = l

\* A call is verified, and filed as verified, only with a receipt signed by the
\* key it was checked against.
Checked ==
  ReceiptsVerify =>
    /\ \A h \in Call : call[h].pc # "new" /\ call[h].verified =>
         call[h].envelope.key = call[h].pinned /\ call[h].envelope.signed
    /\ \A i \in DOMAIN log : \A j \in DOMAIN log[i].parts :
         log[i].parts[j].verified => ReceiptOk(log[i].parts[j])

\* A call that goes on to answer has its whole entry in some line.
Filed ==
  \A h \in Call : call[h].pc \in Filing =>
    \E i \in DOMAIN log : \E j \in DOMAIN log[i].parts :
      /\ log[i].parts[j].call = h
      /\ log[i].parts[j].verified = call[h].verified
      /\ log[i].parts[j].whole

AuditInv ==
  /\ TypeOK
  /\ Lines
  /\ FiledOnce
  /\ Checked
  /\ Filed

----------------------------------------------------------------------------
(* The file.                                                               *)

Line == [parts : Seq(Entries), ended : BOOLEAN]

Calls ==
  [pc : {"new", "record", "answer", "returned", "raised"}, envelope : Envelope,
   pinned : PublicKey, verified : BOOLEAN,
   result : {NoResult, "released", "withheld", "warned"}]

LEMMA LineType ==
  ASSUME TypeOK
  PROVE  /\ call \in [Call -> Calls] /\ log \in Seq(Line)
         /\ DOMAIN log = 1..Len(log) /\ Len(log) \in Nat
         /\ \A i \in DOMAIN log :
              /\ log[i] \in Line
              /\ log[i].parts \in Seq(Entries) /\ log[i].ended \in BOOLEAN
              /\ Len(log[i].parts) \in Nat
              /\ DOMAIN log[i].parts = 1..Len(log[i].parts)
              /\ \A j \in DOMAIN log[i].parts : log[i].parts[j] \in Entries
<1>1. call \in [Call -> Calls] /\ log \in Seq(Line)
  BY DEF TypeOK, Calls, Line
<1>2. \A i \in DOMAIN log : log[i] \in Line
  BY <1>1, ElementOfSeq
<1> QED
  BY <1>1, <1>2, ElementOfSeq, LenProperties DEF Line

\* What an append does: one entry more at the end of the last line, which is a
\* new one or goes on with a line that had no end; every other entry stays
\* where it was.
Grown(e, ended) ==
  \E k \in DOMAIN log', n \in Nat :
  /\ log' \in Seq(Line) /\ k = Len(log')
  /\ Len(log'[k].parts) = n + 1 /\ log'[k].parts[n + 1] = e
  /\ log'[k].ended = ended
  /\ \A i \in DOMAIN log' : i # k =>
       i \in DOMAIN log /\ log'[i] = log[i] /\ log[i].ended
  /\ \A j \in DOMAIN log'[k].parts : j # n + 1 =>
       /\ k \in DOMAIN log /\ ~log[k].ended
       /\ j \in DOMAIN log[k].parts
       /\ log'[k].parts[j] = log[k].parts[j]
  /\ \A i \in DOMAIN log :
       /\ i \in DOMAIN log'
       /\ \A j \in DOMAIN log[i].parts :
            /\ j \in DOMAIN log'[i].parts
            /\ log'[i].parts[j] = log[i].parts[j]
            /\ ~(i = k /\ j = n + 1)

LEMMA Appending ==
  ASSUME TypeOK, NEW e \in Entries, NEW ended \in BOOLEAN,
         log' = Appended(e, ended)
  PROVE  Grown(e, ended)
<1> USE LineType
<1>1. CASE OpenLine
  <2> DEFINE k == Len(log)
             old == log[k].parts
  <2>1. k \in DOMAIN log /\ ~log[k].ended
    BY <1>1 DEF OpenLine, Last
  <2>2. PICK m : m = [parts |-> Append(old, e), ended |-> ended]
    OBVIOUS
  <2>3. /\ Append(old, e) \in Seq(Entries) /\ Len(old) \in Nat
        /\ Len(Append(old, e)) = Len(old) + 1
        /\ \A j \in 1..Len(old) : Append(old, e)[j] = old[j]
        /\ Append(old, e)[Len(old) + 1] = e
    BY <2>1, AppendProperties
  <2>4. /\ m \in Line /\ m.ended = ended
        /\ Len(m.parts) = Len(old) + 1 /\ m.parts[Len(old) + 1] = e
        /\ DOMAIN m.parts = 1..(Len(old) + 1)
        /\ \A j \in 1..Len(old) : m.parts[j] = old[j]
    BY <2>2, <2>3 DEF Line
  <2>5. log' = [log EXCEPT ![k] = m]
    BY <1>1, <2>2 DEF Appended
  <2>6. log' \in Seq(Line) /\ Len(log') = k /\ DOMAIN log' = 1..k
    BY <2>1, <2>4, <2>5
  <2>7. \A i \in DOMAIN log' : log'[i] = IF i = k THEN m ELSE log[i]
    BY <2>5, <2>6
  <2>8. \A i \in 1..k : i # k => log[i].ended
    BY DEF TypeOK
  <2>9. DOMAIN old = 1..Len(old)
    BY <2>1
  <2>10. DOMAIN log = 1..k /\ k \in 1..k
    BY <2>1
  <2>11. log'[k] = m
    BY <2>6, <2>7, <2>10
  <2>12. ASSUME NEW i \in DOMAIN log
         PROVE  /\ i \in DOMAIN log'
                /\ \A j \in DOMAIN log[i].parts :
                     /\ j \in DOMAIN log'[i].parts
                     /\ log'[i].parts[j] = log[i].parts[j]
                     /\ ~(i = k /\ j = Len(old) + 1)
    <3>1. CASE i = k
      BY <3>1, <2>3, <2>4, <2>6, <2>9, <2>10, <2>11
    <3>2. CASE i # k
      BY <3>2, <2>6, <2>7, <2>10
    <3> QED
      BY <3>1, <3>2
  <2>13. \A j \in DOMAIN log'[k].parts : j # Len(old) + 1 =>
           j \in DOMAIN old /\ log'[k].parts[j] = old[j]
    BY <2>3, <2>4, <2>9, <2>11
  <2>14. \A i \in DOMAIN log' : i # k =>
           i \in DOMAIN log /\ log'[i] = log[i] /\ log[i].ended
    BY <2>6, <2>7, <2>8, <2>10
  <2> USE DEF Grown
  <2> WITNESS k \in DOMAIN log', Len(old) \in Nat
  <2> QED
    BY <2>1, <2>3, <2>4, <2>6, <2>11, <2>12, <2>13, <2>14, Zenon
<1>2. CASE ~OpenLine
  <2> DEFINE k == Len(log) + 1
  <2>1. \A i \in DOMAIN log : log[i].ended
    BY <1>2 DEF OpenLine, Last, TypeOK
  <2>2. PICK m : m = [parts |-> <<e>>, ended |-> ended]
    OBVIOUS
  <2>3. /\ m \in Line /\ m.ended = ended
        /\ Len(m.parts) = 1 /\ m.parts[1] = e /\ DOMAIN m.parts = {1}
    BY <2>2 DEF Line
  <2>4. log' = Append(log, m)
    BY <1>2, <2>2 DEF Appended
  <2>5. /\ log' \in Seq(Line) /\ Len(log') = k /\ DOMAIN log' = 1..k
        /\ log'[k] = m /\ \A i \in 1..Len(log) : log'[i] = log[i]
    BY <2>3, <2>4, AppendProperties
  <2> USE DEF Grown
  <2> WITNESS k \in DOMAIN log', 0 \in Nat
  <2> QED
    BY <2>1, <2>3, <2>5
<1> QED
  BY <1>1, <1>2

\* Until its write a call is nowhere in the file.
LEMMA NotFiledYet ==
  ASSUME AuditInv, NEW h \in Call, call[h].pc \in {"new", "record"},
         NEW i \in DOMAIN log, NEW j \in DOMAIN log[i].parts
  PROVE  log[i].parts[j].call # h
BY DEF AuditInv, Lines, Filing

----------------------------------------------------------------------------
(* The steps.                                                              *)

\* A step of a call that leaves the file alone.
LEMMA AsideKeepsInv ==
  ASSUME AuditInv, NEW h \in Call, NEW s \in Calls,
         call' = [call EXCEPT ![h] = s], UNCHANGED <<pinned, rotated, log>>,
         \/ call[h].pc \in {"new", "record"} /\ s.pc \notin Filing
         \/ /\ call[h].pc \in Filing /\ s.pc \in Filing
            /\ s.verified = call[h].verified,
         ReceiptsVerify /\ s.pc # "new" /\ s.verified =>
           s.envelope.key = s.pinned /\ s.envelope.signed
  PROVE  AuditInv'
<1> USE DEF AuditInv
<1>1. log' = log /\ call' \in [Call -> Calls]
  BY LineType
<1>2. \A g \in Call : call'[g] = IF g = h THEN s ELSE call[g]
  BY LineType
<1>3. ASSUME NEW i \in DOMAIN log, NEW j \in DOMAIN log[i].parts
      PROVE  LET g == log[i].parts[j].call IN
             \/ call'[g].pc = call[g].pc
             \/ call[g].pc \in Filing /\ call'[g].pc \in Filing
  <2>1. PICK g \in Call : g = log[i].parts[j].call
    BY LineType DEF Entries
  <2>2. CASE g = h
    <3>1. call[h].pc \in Filing /\ s.pc \in Filing
      BY <2>1, <2>2, NotFiledYet
    <3> QED
      BY <2>1, <3>1, <2>2, <1>2
  <2>3. CASE g # h
    <3>1. call'[g] = call[g]
      BY <2>3, <1>2, Zenon
    <3> QED
      BY <3>1, <2>1
  <2> QED
    BY <2>1, <2>2, <2>3
<1>4. Lines'
  <2> SUFFICES ASSUME NEW i \in DOMAIN log
               PROVE  /\ log[i].parts # <<>>
                      /\ i < Len(log) => log[i].ended
                      /\ \A j \in DOMAIN log[i].parts :
                           IF j = Len(log[i].parts) /\ log[i].ended
                           THEN call'[log[i].parts[j].call].pc \in Filing
                           ELSE call'[log[i].parts[j].call].pc = "raised"
    BY <1>1 DEF Lines
  <2>1. ASSUME NEW j \in DOMAIN log[i].parts,
               j = Len(log[i].parts) /\ log[i].ended
        PROVE  call'[log[i].parts[j].call].pc \in Filing
    BY <2>1, <1>3 DEF Lines
  <2>2. ASSUME NEW j \in DOMAIN log[i].parts,
               ~(j = Len(log[i].parts) /\ log[i].ended)
        PROVE  call'[log[i].parts[j].call].pc = "raised"
    <3>1. call[log[i].parts[j].call].pc = "raised"
      BY <2>2 DEF Lines
    <3> QED
      BY <3>1, <1>3 DEF Filing
  <2> QED
    BY <2>1, <2>2 DEF Lines
<1>5. FiledOnce'
  BY <1>1 DEF FiledOnce
<1>6. Checked'
  BY <1>1, <1>2 DEF Checked, ReceiptOk
<1>7. Filed'
  <2> SUFFICES ASSUME NEW g \in Call, call'[g].pc \in Filing
               PROVE  \E i \in DOMAIN log : \E j \in DOMAIN log[i].parts :
                        /\ log[i].parts[j].call = g
                        /\ log[i].parts[j].verified = call'[g].verified
                        /\ log[i].parts[j].whole
    BY <1>1 DEF Filed
  <2>1. call[g].pc \in Filing /\ call'[g].verified = call[g].verified
    BY <1>2
  <2> QED
    BY <2>1 DEF Filed
<1>8. TypeOK'
  <2>1. pinned' \in PublicKey /\ rotated' \in 0..MaxRotate /\ log' \in Seq(Line)
    BY <1>1, LineType DEF TypeOK
  <2>2. ASSUME NEW i \in DOMAIN log, NEW part \in ToSet(log[i].parts)
        PROVE  call'[part.call].pc \notin {"new", "record"}
    <3>1. PICK j \in DOMAIN log[i].parts : part = log[i].parts[j]
      BY DEF ToSet
    <3> QED
      BY <3>1, <1>1, <1>4 DEF Lines, Filing
  <2> QED
    BY <2>1, <2>2, <1>1, <1>4 DEF TypeOK, Calls, Line, Lines, ToSet
<1> QED
  BY <1>4, <1>5, <1>6, <1>7, <1>8

\* The step that writes: the call's entry is appended, whole or not, and the
\* call goes on to answer exactly if the line got its end.
LEMMA FilingKeepsInv ==
  ASSUME AuditInv, NEW h \in Call, NEW e \in Entries, NEW ended \in BOOLEAN,
         call[h].pc = "record",
         e.call = h, e.verified = call[h].verified, ended => e.whole,
         ReceiptsVerify /\ e.verified => ReceiptOk(e),
         log' = Appended(e, ended),
         NEW s \in Calls, call' = [call EXCEPT ![h] = s],
         \/ s.pc = "answer" /\ ended
         \/ s.pc = "raised" /\ ~ended,
         s.envelope = call[h].envelope, s.pinned = call[h].pinned,
         s.verified = call[h].verified,
         UNCHANGED <<pinned, rotated>>
  PROVE  AuditInv'
<1> USE DEF AuditInv
<1>1. PICK k \in DOMAIN log', n \in Nat :
        /\ log' \in Seq(Line) /\ k = Len(log')
        /\ Len(log'[k].parts) = n + 1 /\ log'[k].parts[n + 1] = e
        /\ log'[k].ended = ended
        /\ \A i \in DOMAIN log' : i # k =>
             i \in DOMAIN log /\ log'[i] = log[i] /\ log[i].ended
        /\ \A j \in DOMAIN log'[k].parts : j # n + 1 =>
             /\ k \in DOMAIN log /\ ~log[k].ended
             /\ j \in DOMAIN log[k].parts
             /\ log'[k].parts[j] = log[k].parts[j]
        /\ \A i \in DOMAIN log :
             /\ i \in DOMAIN log'
             /\ \A j \in DOMAIN log[i].parts :
                  /\ j \in DOMAIN log'[i].parts
                  /\ log'[i].parts[j] = log[i].parts[j]
                  /\ ~(i = k /\ j = n + 1)
  <2>1. Grown(e, ended)
    BY Appending
  <2> QED
    BY <2>1 DEF Grown
<1>2. log'[k].parts[n + 1] = e /\ log'[k].ended = ended
  BY <1>1
<1>3. /\ call' \in [Call -> Calls] /\ call'[h] = s
      /\ \A g \in Call : g # h => call'[g] = call[g]
  BY LineType
<1>4. \A i \in DOMAIN log : \A j \in DOMAIN log[i].parts :
        /\ log[i].parts[j].call # h
        /\ log[i].parts[j].call \in Call
        /\ call'[log[i].parts[j].call] = call[log[i].parts[j].call]
  BY <1>3, NotFiledYet, LineType DEF Entries
<1>5. /\ Len(log') \in Nat /\ DOMAIN log' = 1..k /\ k \in Nat
      /\ DOMAIN log'[k].parts = 1..(n + 1)
  <2>1. log'[k] \in Line
    BY <1>1, ElementOfSeq
  <2> QED
    BY <1>1, <2>1, LenProperties DEF Line
<1>6. Lines'
  <2> SUFFICES ASSUME NEW i \in DOMAIN log'
               PROVE  /\ log'[i].parts # <<>>
                      /\ i < Len(log') => log'[i].ended
                      /\ \A j \in DOMAIN log'[i].parts :
                           IF j = Len(log'[i].parts) /\ log'[i].ended
                           THEN call'[log'[i].parts[j].call].pc \in Filing
                           ELSE call'[log'[i].parts[j].call].pc = "raised"
    BY DEF Lines
  <2>1. CASE i # k
    BY <2>1, <1>1, <1>4 DEF Lines
  <2>2. CASE i = k
    <3>1. log'[k].parts # <<>> /\ ~(k < Len(log'))
      BY <1>1, <1>5
    <3>2. call'[log'[k].parts[n + 1].call].pc = s.pc
      BY <1>1, <1>3
    <3>3. ASSUME NEW j \in DOMAIN log'[k].parts, j # n + 1
          PROVE  call'[log'[k].parts[j].call].pc = "raised"
      <4>1. /\ k \in DOMAIN log /\ ~log[k].ended
            /\ j \in DOMAIN log[k].parts
            /\ log'[k].parts[j] = log[k].parts[j]
        BY <3>3, <1>1
      <4>2. call[log[k].parts[j].call].pc = "raised"
        BY <4>1 DEF Lines
      <4> QED
        BY <4>1, <4>2, <1>4
    <3> QED
      BY <2>2, <3>1, <3>2, <3>3, <1>1 DEF Filing
  <2> QED
    BY <2>1, <2>2
<1>7. FiledOnce'
  <2>1. ASSUME NEW i \in DOMAIN log', NEW j \in DOMAIN log'[i].parts
        PROVE  \/ i = k /\ j = n + 1 /\ log'[i].parts[j].call = h
               \/ /\ i \in DOMAIN log /\ j \in DOMAIN log[i].parts
                  /\ log'[i].parts[j] = log[i].parts[j]
                  /\ log'[i].parts[j].call # h
    BY <1>1, <1>4
  <2> SUFFICES ASSUME NEW i \in DOMAIN log', NEW m \in DOMAIN log',
                      NEW j \in DOMAIN log'[i].parts,
                      NEW l \in DOMAIN log'[m].parts,
                      log'[i].parts[j].call = log'[m].parts[l].call
               PROVE  i = m /\ j = l
    BY DEF FiledOnce
  <2> QED
    BY <2>1 DEF FiledOnce
<1>8. Checked'
  <2> SUFFICES ASSUME ReceiptsVerify
               PROVE  /\ \A g \in Call : call'[g].pc # "new" /\ call'[g].verified =>
                           call'[g].envelope.key = call'[g].pinned
                             /\ call'[g].envelope.signed
                      /\ \A i \in DOMAIN log' : \A j \in DOMAIN log'[i].parts :
                           log'[i].parts[j].verified => ReceiptOk(log'[i].parts[j])
    BY DEF Checked, ReceiptOk
  <2>1. \A g \in Call : call'[g].pc # "new" /\ call'[g].verified =>
          call'[g].envelope.key = call'[g].pinned /\ call'[g].envelope.signed
    BY <1>3 DEF Checked
  <2>2. ASSUME NEW i \in DOMAIN log', NEW j \in DOMAIN log'[i].parts,
               log'[i].parts[j].verified
        PROVE  ReceiptOk(log'[i].parts[j])
    <3>1. CASE i = k /\ j = n + 1
      BY <3>1, <2>2, <1>1
    <3>2. CASE ~(i = k /\ j = n + 1)
      BY <3>2, <2>2, <1>1 DEF Checked
    <3> QED
      BY <3>1, <3>2
  <2> QED
    BY <2>1, <2>2
<1>9. Filed'
  <2> SUFFICES ASSUME NEW g \in Call, call'[g].pc \in Filing
               PROVE  \E i \in DOMAIN log' : \E j \in DOMAIN log'[i].parts :
                        /\ log'[i].parts[j].call = g
                        /\ log'[i].parts[j].verified = call'[g].verified
                        /\ log'[i].parts[j].whole
    BY DEF Filed
  <2>1. CASE g = h
    <3>1. ended
      BY <2>1, <1>3 DEF Filing
    <3>2. n + 1 \in DOMAIN log'[k].parts
      BY <1>5
    <3>3. /\ log'[k].parts[n + 1].call = g
          /\ log'[k].parts[n + 1].verified = call'[g].verified
          /\ log'[k].parts[n + 1].whole
      BY <2>1, <3>1, <1>2, <1>3
    <3> QED
      BY <3>2, <3>3
  <2>2. CASE g # h
    <3>1. PICK i \in DOMAIN log : \E j \in DOMAIN log[i].parts :
            /\ log[i].parts[j].call = g
            /\ log[i].parts[j].verified = call[g].verified
            /\ log[i].parts[j].whole
      BY <2>2, <1>3 DEF Filed
    <3>2. PICK j \in DOMAIN log[i].parts :
            /\ log[i].parts[j].call = g
            /\ log[i].parts[j].verified = call[g].verified
            /\ log[i].parts[j].whole
      BY <3>1
    <3>3. /\ i \in DOMAIN log' /\ j \in DOMAIN log'[i].parts
          /\ log'[i].parts[j] = log[i].parts[j]
      BY <1>1
    <3>4. call'[g].verified = call[g].verified
      BY <2>2, <1>3
    <3> QED
      BY <3>2, <3>3, <3>4
  <2> QED
    BY <2>1, <2>2
<1>10. TypeOK'
  <2>1. pinned' \in PublicKey /\ rotated' \in 0..MaxRotate
    BY DEF TypeOK
  <2>2. ASSUME NEW i \in DOMAIN log', NEW part \in ToSet(log'[i].parts)
        PROVE  call'[part.call].pc \notin {"new", "record"}
    <3>1. PICK j \in DOMAIN log'[i].parts : part = log'[i].parts[j]
      BY DEF ToSet
    <3> QED
      BY <3>1, <1>6 DEF Lines, Filing
  <2> QED
    BY <2>1, <2>2, <1>1, <1>3, <1>6 DEF TypeOK, Calls, Line, Lines, ToSet
<1> QED
  BY <1>6, <1>7, <1>8, <1>9, <1>10

LEMMA EntryType ==
  ASSUME TypeOK, NEW h \in Call, NEW whole \in BOOLEAN
  PROVE  /\ Entry(h, whole) \in Entries
         /\ Entry(h, whole).call = h /\ Entry(h, whole).whole = whole
         /\ Entry(h, whole).verified = call[h].verified
         /\ Entry(h, whole).key = call[h].envelope.key
         /\ Entry(h, whole).pinned = call[h].pinned
         /\ Entry(h, whole).signed = call[h].envelope.signed
BY DEF TypeOK, Entry, Entries, Envelope

LEMMA CheckKeepsInv ==
  ASSUME AuditInv, NEW h \in Call, NEW envelope \in Envelope, Check(h, envelope)
  PROVE  AuditInv'
<1>1. PICK v \in BOOLEAN : v = (ReceiptsVerify => Verified(envelope, pinned))
  OBVIOUS
<1>2. PICK s : s = [pc |-> "record", envelope |-> envelope, pinned |-> pinned,
                    verified |-> v, result |-> NoResult]
  OBVIOUS
<1>3. /\ s \in Calls /\ s.pc = "record" /\ s.verified = v
      /\ s.envelope = envelope /\ s.pinned = pinned
  BY <1>2 DEF Calls, AuditInv, TypeOK
<1>4. /\ call[h].pc = "new" /\ call' = [call EXCEPT ![h] = s]
      /\ UNCHANGED <<pinned, rotated, log>>
  BY <1>1, <1>2, Zenon DEF Check
<1>5. ReceiptsVerify /\ v => envelope.key = pinned /\ envelope.signed
  BY <1>1 DEF Verified
<1> QED
  BY <1>3, <1>4, <1>5, AsideKeepsInv DEF Filing

\* The entry a call files is the receipt it was checked with.
LEMMA EntryChecked ==
  ASSUME AuditInv, NEW h \in Call, call[h].pc = "record", NEW whole \in BOOLEAN,
         ReceiptsVerify, Entry(h, whole).verified
  PROVE  ReceiptOk(Entry(h, whole))
<1>1. call[h].verified => call[h].envelope.key = call[h].pinned /\ call[h].envelope.signed
  BY DEF AuditInv, Checked
<1> QED
  BY <1>1, EntryType DEF AuditInv, ReceiptOk

\* The two ends of a write.
LEMMA WriteKeepsInv ==
  ASSUME AuditInv, NEW h \in Call, call[h].pc = "record", NEW whole \in BOOLEAN,
         NEW ended \in BOOLEAN, ended => whole,
         log' = Appended(Entry(h, whole), ended),
         NEW p \in {"answer", "raised"}, p = "answer" <=> ended,
         Goto(h, p), UNCHANGED <<pinned, rotated>>
  PROVE  AuditInv'
<1>1. PICK e : e = Entry(h, whole)
  OBVIOUS
<1>2. /\ e \in Entries /\ e.call = h /\ e.verified = call[h].verified
      /\ ended => e.whole
      /\ ReceiptsVerify /\ e.verified => ReceiptOk(e)
  BY <1>1, EntryType, EntryChecked DEF AuditInv
<1>3. call[h] \in Calls
  BY LineType DEF AuditInv
<1>4. PICK s : s = [call[h] EXCEPT !.pc = p]
  OBVIOUS
<1>5. /\ s \in Calls /\ s.pc = p /\ s.verified = call[h].verified
      /\ s.envelope = call[h].envelope /\ s.pinned = call[h].pinned
  BY <1>3, <1>4 DEF Calls
<1>6. call' = [call EXCEPT ![h] = s]
  BY <1>4 DEF Goto
<1>7. \/ s.pc = "answer" /\ ended
      \/ s.pc = "raised" /\ ~ended
  BY <1>5
<1>8. log' = Appended(e, ended)
  BY <1>1
<1> QED
  BY <1>2, <1>5, <1>6, <1>7, <1>8, FilingKeepsInv

LEMMA RecordKeepsInv ==
  ASSUME AuditInv, NEW h \in Call, Record(h)
  PROVE  AuditInv'
BY WriteKeepsInv DEF Record

LEMMA RecordFailsKeepsInv ==
  ASSUME AuditInv, NEW h \in Call, RecordFails(h)
  PROVE  AuditInv'
<1>1. /\ call[h].pc = "record" /\ Goto(h, "raised")
      /\ UNCHANGED <<pinned, rotated>>
  BY DEF RecordFails
<1>2. CASE log' = log
  <2>1. call[h] \in Calls
    BY LineType DEF AuditInv
  <2>2. PICK s : s = [call[h] EXCEPT !.pc = "raised"]
    OBVIOUS
  <2>3. /\ s \in Calls /\ s.pc = "raised" /\ s.verified = call[h].verified
        /\ s.envelope = call[h].envelope /\ s.pinned = call[h].pinned
    BY <2>1, <2>2 DEF Calls
  <2>4. call' = [call EXCEPT ![h] = s]
    BY <1>1, <2>2 DEF Goto
  <2>5. ReceiptsVerify /\ s.verified => s.envelope.key = s.pinned /\ s.envelope.signed
    BY <1>1, <2>3 DEF AuditInv, Checked
  <2> QED
    BY <1>1, <1>2, <2>3, <2>4, <2>5, AsideKeepsInv DEF Filing
<1>3. CASE \E whole \in BOOLEAN : log' = Appended(Entry(h, whole), FALSE)
  BY <1>1, <1>3, WriteKeepsInv
<1> QED
  BY <1>2, <1>3 DEF RecordFails

LEMMA AnswerKeepsInv ==
  ASSUME AuditInv, NEW h \in Call, Answer(h)
  PROVE  AuditInv'
<1>1. PICK r \in {"released", "withheld", "warned"} :
        call' = [call EXCEPT ![h].pc = "returned", ![h].result = r]
  <2>1. CASE call[h].verified
    BY <2>1 DEF Answer
  <2>2. CASE ~call[h].verified /\ OnFailureBlock
    BY <2>2 DEF Answer
  <2>3. CASE ~call[h].verified /\ ~OnFailureBlock
    BY <2>3 DEF Answer
  <2> QED
    BY <2>1, <2>2, <2>3
<1>2. call[h].pc = "answer" /\ UNCHANGED <<pinned, rotated, log>>
  BY DEF Answer
<1>3. call[h] \in Calls
  BY LineType DEF AuditInv
<1>4. PICK s : s = [call[h] EXCEPT !.pc = "returned", !.result = r]
  OBVIOUS
<1>5. /\ s \in Calls /\ s.pc = "returned" /\ s.verified = call[h].verified
      /\ s.envelope = call[h].envelope /\ s.pinned = call[h].pinned
  BY <1>3, <1>4 DEF Calls
<1>6. call' = [call EXCEPT ![h] = s]
  BY <1>1, <1>4, LineType DEF AuditInv
<1>7. ReceiptsVerify /\ s.verified => s.envelope.key = s.pinned /\ s.envelope.signed
  BY <1>2, <1>5 DEF AuditInv, Checked
<1> QED
  BY <1>2, <1>5, <1>6, <1>7, AsideKeepsInv DEF Filing

\* The file and the calls keep the keys they saw.
LEMMA RotateKeepsInv ==
  ASSUME AuditInv, NEW key \in PublicKey, Rotate(key)
  PROVE  AuditInv'
<1>1. /\ call' = call /\ log' = log
      /\ pinned' \in PublicKey /\ rotated' \in 0..MaxRotate
  BY AuditLogAssumption DEF Rotate, AuditInv, TypeOK, AuditLogAssumption
<1>2. TypeOK'
  BY <1>1 DEF AuditInv, TypeOK
<1> QED
  BY <1>1, <1>2 DEF AuditInv, Lines, FiledOnce, Checked, Filed, ReceiptOk

LEMMA AuditInitially == Init => AuditInv
<1> SUFFICES ASSUME Init
             PROVE  AuditInv
  OBVIOUS
<1>1. log = <<>> /\ DOMAIN log = {} /\ pinned \in PublicKey /\ rotated = 0
  BY DEF Init
<1>2. NewCall(pinned) \in Calls /\ NewCall(pinned).pc = "new"
  BY <1>1 DEF NewCall, Calls, Envelope
<1>3. call \in [Call -> Calls] /\ \A h \in Call : call[h].pc = "new"
  BY <1>2 DEF Init
<1>4. TypeOK
  BY <1>1, <1>3, AuditLogAssumption DEF TypeOK, Calls, AuditLogAssumption
<1>5. Lines /\ FiledOnce /\ Checked /\ Filed
  BY <1>1, <1>3 DEF Lines, FiledOnce, Checked, Filed, Filing
<1> QED
  BY <1>4, <1>5 DEF AuditInv

LEMMA AuditInductive == AuditInv /\ [Next]_vars => AuditInv'
<1> SUFFICES ASSUME AuditInv, [Next]_vars
             PROVE  AuditInv'
  OBVIOUS
<1>1. CASE UNCHANGED vars
  BY <1>1 DEF vars, AuditInv, TypeOK, Lines, FiledOnce, Checked, Filed, ReceiptOk
<1>2. ASSUME NEW h \in Call, NEW envelope \in Envelope, Check(h, envelope)
      PROVE  AuditInv'
  BY <1>2, CheckKeepsInv
<1>3. ASSUME NEW h \in Call, Record(h)
      PROVE  AuditInv'
  BY <1>3, RecordKeepsInv
<1>4. ASSUME NEW h \in Call, RecordFails(h)
      PROVE  AuditInv'
  BY <1>4, RecordFailsKeepsInv
<1>5. ASSUME NEW h \in Call, Answer(h)
      PROVE  AuditInv'
  BY <1>5, AnswerKeepsInv
<1>6. ASSUME NEW key \in PublicKey, Rotate(key)
      PROVE  AuditInv'
  BY <1>6, RotateKeepsInv
<1> QED
  BY <1>1, <1>2, <1>3, <1>4, <1>5, <1>6 DEF Next

LEMMA AuditInvariant == Spec => []AuditInv
BY AuditInitially, AuditInductive, PTL DEF Spec

----------------------------------------------------------------------------
(* What the shape of the file says of reading it.                          *)

\* An entry that can be read is the first of its line.
LEMMA ParsedPlace ==
  ASSUME TypeOK, NEW entry \in Parsed
  PROVE  \E i \in DOMAIN log :
           /\ Readable(log[i]) /\ 1 \in DOMAIN log[i].parts
           /\ entry = log[i].parts[1]
<1>1. PICK i \in DOMAIN log : Readable(log[i]) /\ entry = Head(log[i].parts)
  BY DEF Parsed, ToSet
<1> QED
  BY <1>1, LineType DEF Readable

LEMMA ReadableParsed ==
  ASSUME TypeOK, NEW i \in DOMAIN log, Readable(log[i])
  PROVE  log[i].parts[1] \in Parsed
<1>1. Head(log[i].parts) = log[i].parts[1]
  BY LineType DEF Readable
<1>2. log[i] \in {l \in ToSet(log) : Readable(l)}
  BY DEF ToSet
<1> QED
  BY <1>1, <1>2 DEF Parsed

LEMMA InvEvidence == AuditInv => EvidenceHolds
<1> SUFFICES ASSUME AuditInv, ReceiptsVerify, NEW entry \in Parsed, entry.verified
             PROVE  entry \notin Bad
  BY DEF EvidenceHolds
<1>1. PICK i \in DOMAIN log : 1 \in DOMAIN log[i].parts /\ entry = log[i].parts[1]
  BY ParsedPlace DEF AuditInv
<1>2. ReceiptOk(entry)
  BY <1>1 DEF AuditInv, Checked
<1> QED
  BY <1>2 DEF Bad

\* Where the entry of an answered call is: at the end of its line.
LEMMA AnsweredPlace ==
  ASSUME AuditInv, NEW h \in Call, Answered(h)
  PROVE  \E i \in DOMAIN log :
           LET n == Len(log[i].parts) IN
           /\ n \in DOMAIN log[i].parts /\ 1 \in DOMAIN log[i].parts
           /\ log[i].parts[n].call = h
           /\ log[i].parts[n].verified = call[h].verified
           /\ ~Readable(log[i]) => n # 1
<1> USE DEF AuditInv
<1>1. PICK i \in DOMAIN log : \E j \in DOMAIN log[i].parts :
        /\ log[i].parts[j].call = h
        /\ log[i].parts[j].verified = call[h].verified
        /\ log[i].parts[j].whole
  BY DEF Filed, Filing, Answered
<1>2. PICK j \in DOMAIN log[i].parts :
        /\ log[i].parts[j].call = h
        /\ log[i].parts[j].verified = call[h].verified
        /\ log[i].parts[j].whole
  BY <1>1
<1>3. j = Len(log[i].parts)
  BY <1>2 DEF Lines, Answered
<1>4. 1 \in DOMAIN log[i].parts
  BY LineType
<1>5. Len(log[i].parts) = 1 => Readable(log[i])
  BY <1>2, <1>3, LineType DEF Readable
<1> QED
  BY <1>2, <1>3, <1>4, <1>5

LEMMA InvAudited == AuditInv => AlwaysAudited
<1> SUFFICES ASSUME AuditInv, NEW h \in Call, Answered(h)
             PROVE  \/ \E entry \in Parsed :
                         entry.call = h /\ entry.verified = call[h].verified
                    \/ \E i \in Unparseable : RecordedIn(h, log[i])
  BY DEF AlwaysAudited
<1>1. PICK i \in DOMAIN log :
        LET n == Len(log[i].parts) IN
        /\ n \in DOMAIN log[i].parts /\ 1 \in DOMAIN log[i].parts
        /\ log[i].parts[n].call = h
        /\ log[i].parts[n].verified = call[h].verified
        /\ ~Readable(log[i]) => n # 1
  BY AnsweredPlace
<1>2. CASE Readable(log[i])
  <2>1. log[i].parts[1] \in Parsed
    BY <1>2, ReadableParsed DEF AuditInv
  <2> QED
    BY <1>1, <1>2, <2>1 DEF Readable
<1>3. CASE ~Readable(log[i])
  BY <1>1, <1>3 DEF Unparseable, RecordedIn, ToSet
<1> QED
  BY <1>2, <1>3

Lost == {h \in Call : Answered(h) /\ ~\E entry \in Parsed : entry.call = h}
Torn == {h \in Call : call[h].pc = "raised"}

\* A torn entry h's own was written behind.
Spoils(g, h) ==
  \E i \in DOMAIN log :
    /\ 1 \in DOMAIN log[i].parts /\ log[i].parts[1].call = g
    /\ Len(log[i].parts) \in DOMAIN log[i].parts
    /\ log[i].parts[Len(log[i].parts)].call = h

LEMMA LostIsSpoiled ==
  ASSUME AuditInv, NEW h \in Lost
  PROVE  \E g \in Torn : Spoils(g, h)
<1> USE DEF AuditInv
<1>1. h \in Call /\ Answered(h) /\ ~\E entry \in Parsed : entry.call = h
  BY DEF Lost
<1>2. PICK i \in DOMAIN log :
        LET n == Len(log[i].parts) IN
        /\ n \in DOMAIN log[i].parts /\ 1 \in DOMAIN log[i].parts
        /\ log[i].parts[n].call = h
        /\ log[i].parts[n].verified = call[h].verified
        /\ ~Readable(log[i]) => n # 1
  BY <1>1, AnsweredPlace
<1>3. ~Readable(log[i])
  BY <1>1, <1>2, ReadableParsed DEF Readable
<1>4. PICK g \in Call : g = log[i].parts[1].call
  BY <1>2, LineType DEF Entries
<1>5. call[g].pc = "raised"
  BY <1>2, <1>3, <1>4 DEF Lines
<1> QED
  BY <1>2, <1>4, <1>5 DEF Torn, Spoils

LEMMA SpoilsOne ==
  ASSUME AuditInv, NEW g, NEW h, NEW k, Spoils(g, h), Spoils(g, k)
  PROVE  h = k
BY DEF AuditInv, FiledOnce, Spoils

LEMMA InvOneLost == AuditInv => OneLostPerTear
<1> SUFFICES ASSUME AuditInv
             PROVE  Cardinality(Lost) <= Cardinality(Torn)
  BY DEF OneLostPerTear, Lost, Torn
<1> DEFINE f == [h \in Lost |-> CHOOSE g \in Torn : Spoils(g, h)]
<1>1. \A h \in Lost : f[h] \in Torn /\ Spoils(f[h], h)
  BY LostIsSpoiled
<1>2. f \in [Lost -> Torn]
  BY <1>1
<1>3. \A h, k \in Lost : f[h] = f[k] => h = k
  <2> HIDE DEF f
  <2> QED
    BY <1>1, SpoilsOne
<1>4. f \in Injection(Lost, Torn)
  BY <1>2, <1>3, Fun_IsInj
<1>5. IsFiniteSet(Torn)
  BY AuditLogAssumption, FS_Subset DEF Torn, AuditLogAssumption
<1> QED
  BY <1>4, <1>5, FS_Injection

----------------------------------------------------------------------------
(* The theorems.                                                           *)

\* The log is a sequence of lines of which only the last can be unfinished,
\* and a call has no entry before it wrote one.
THEOREM AuditTypeCorrect == Spec => []TypeOK
<1>1. AuditInv => TypeOK
  BY DEF AuditInv
<1> QED
  BY <1>1, AuditInvariant, PTL

\* verify_all: a receipt that verified when the call was made verifies whenever
\* the log is read, however many calls, keys and rotations there were: the entry
\* carries the key it was checked against.
THEOREM EvidenceStays == Spec => []EvidenceHolds
BY InvEvidence, AuditInvariant, PTL

\* _seal, record: no answer is handed out, warned about or withheld without an
\* entry in the log, or a line that verify_all counts as unparseable.
THEOREM EveryAnswerAudited == Spec => []AlwaysAudited
BY InvAudited, AuditInvariant, PTL

\* record: there are never more answered calls whose entry cannot be read than
\* calls that raised because their own write was cut short.
THEOREM TearsLoseOneEach == Spec => []OneLostPerTear
BY InvOneLost, AuditInvariant, PTL
=============================================================================
