-------------------------- MODULE AttestationProofs --------------------------
(***************************************************************************)
(* What the attestation gate guarantees for any contents, identities and   *)
(* policies, and however many signatures and revisions: what it lets       *)
(* through as keyless is bound to its card and within the owner's policy,  *)
(* whether it answers or raises depends on one verdict only, and no card   *)
(* with a keyless attestation both verifies and passes.                    *)
(***************************************************************************)
EXTENDS Attestation, SequenceTheorems, TLAPS

----------------------------------------------------------------------------
(* Identity policies.                                                      *)

\* matches: a value that begins with an entry and goes on with a delimiter, or
\* after one, begins with the segments of the entry.
LEMMA MatchesWithin ==
  ASSUME NEW value \in Seq(STRING), NEW entry \in Seq(STRING),
         Matches(value, entry)
  PROVE  Within(value, entry)
<1>1. CASE value = entry
  BY <1>1 DEF Within, IsSegment
<1>2. CASE value # entry
  <2> DEFINE n == Len(entry)
  <2>1. /\ n \in Nat \ {0} /\ DOMAIN entry = 1..n
        /\ Len(value) \in Nat /\ DOMAIN value = 1..Len(value)
    BY <1>2, EmptySeq, LenProperties DEF Matches
  <2>2. /\ n <= Len(value)
        /\ \A k \in 1..n : value[k] = entry[k]
        /\ {entry[n], value[n + 1]} \cap SEGMENT_DELIMITERS # {}
    <3>1. /\ IsPrefix(entry, value)
          /\ {Last(entry), value[Len(entry) + 1]} \cap SEGMENT_DELIMITERS # {}
      BY <1>2 DEF Matches, IsStrictPrefix
    <3>2. n <= Len(value) /\ SubSeq(entry, 1, n) = SubSeq(value, 1, n)
      BY <3>1 DEF IsPrefix
    <3>3. ASSUME NEW k \in 1..n
          PROVE  value[k] = entry[k]
      <4>1. SubSeq(entry, 1, n)[k] = entry[k] /\ SubSeq(value, 1, n)[k] = value[k]
        BY <2>1, <3>2
      <4> QED
        BY <3>2, <4>1
    <3> QED
      BY <3>1, <3>2, <3>3 DEF Last
  <2>3. \A k \in 1..n : k \in Begins(value) <=> k \in Begins(entry)
    BY <2>1, <2>2 DEF Begins
  <2>4. n = Len(value) \/ n + 1 \in Begins(value)
    <3>1. CASE n # Len(value)
      <4>1. n + 1 \in DOMAIN value /\ (n + 1) - 1 = n /\ value[n] = entry[n]
        <5>1. n <= Len(value) /\ n \in 1..n
          BY <2>1, <2>2
        <5>2. n + 1 \in 1..Len(value) /\ (n + 1) - 1 = n
          <6>1. PICK k \in Nat, m \in Nat : k = n /\ m = Len(value)
            BY <2>1
          <6>2. k + 1 \in 1..m /\ (k + 1) - 1 = k
            BY <3>1, <5>1, <6>1
          <6> QED
            BY <6>1, <6>2
        <5>3. value[n] = entry[n]
          BY <2>2, <5>1
        <5> QED
          BY <2>1, <5>2, <5>3
      <4>2. {value[(n + 1) - 1], value[n + 1]} \cap SEGMENT_DELIMITERS # {}
        BY <2>2, <4>1
      <4> QED
        BY <4>1, <4>2 DEF Begins
    <3> QED
      BY <3>1
  <2> SUFFICES ASSUME NEW i \in DOMAIN entry, NEW j \in DOMAIN entry,
                      IsSegment(entry, i, j)
               PROVE  /\ j \in DOMAIN value /\ IsSegment(value, i, j)
                      /\ \A k \in i..j : value[k] = entry[k]
    BY DEF Within
  <2>5. i \in 1..n /\ j \in 1..n /\ i..j \subseteq 1..n
    BY <2>1
  <2>6. j = Len(value) \/ j + 1 \in Begins(value)
    <3>1. CASE j = n
      BY <3>1, <2>4
    <3>2. CASE j # n
      <4>1. j + 1 \in 1..n
        BY <2>1, <2>5, <3>2
      <4> QED
        BY <2>3, <3>2, <4>1 DEF IsSegment
    <3> QED
      BY <3>1, <3>2
  <2>7. \A k \in i + 1..j : k \notin Begins(value)
    <3>1. \A k \in i + 1..j : k \in 1..n
      BY <2>1, <2>5
    <3> QED
      BY <2>3, <3>1 DEF IsSegment
  <2> QED
    BY <2>1, <2>2, <2>3, <2>5, <2>6, <2>7 DEF IsSegment
<1> QED
  BY <1>1, <1>2

\* The blank name matches no entry of a policy.
LEMMA BlankMatchesNone ==
  ASSUME NEW entry \in Seq(STRING) \ {<<>>}, Matches(<<>>, entry)
  PROVE  FALSE
<1>1. Len(entry) <= Len(<<>>)
  BY DEF Matches, IsStrictPrefix, IsPrefix
<1> QED
  BY <1>1, EmptySeq, LenProperties

----------------------------------------------------------------------------
(* The cards that publishers make.                                         *)

\* A card has its four fields, and a keyless bundle that parses has names in
\* it, blank ones among them.
Bundle(att) ==
  att \notin {NoAtt, BareAtt} /\ att.type = KEYLESS_TYPE /\ att.payload = "wellFormed"

CardShape ==
  /\ card = [content |-> card.content, tier |-> card.tier, att |-> card.att,
             id |-> card.id]
  /\ Bundle(card.att) =>
       card.att.issuer \in Seq(STRING) /\ card.att.identity \in Seq(STRING)

AttestationInv == TypeOK /\ CardShape

\* What the gate does: it answers, or it raises on an attestation of that form.
Gate ==
  \/ enforce_policy(card) \in {"", "ATTESTATION_REQUIRED", "ATTESTATION_UNTRUSTED"}
  \/ enforce_policy(card) = GateRaised
     /\ (card.att # BareAtt =>
           card.att.type = KEYLESS_TYPE /\ card.att.payload = "notText")

\* Only the keyless verifier raises, and only on a payload that is no text.
LEMMA VerifierRaises ==
  ASSUME Result(card) = Raised
  PROVE  card.att.type = KEYLESS_TYPE /\ card.att.payload = "notText"
<1>1. Raised # Invalid /\ \A b : Raised # Keyless(b)
  BY DEF Raised, Invalid, Keyless
<1>2. Raised # [valid |-> TRUE, trusted |-> "none"]
  BY DEF Raised
<1>3. CASE card.att.type = DIGEST_TYPE
  BY <1>1, <1>2, <1>3 DEF Result, DigestVerifier, DIGEST_TYPE, KEYLESS_TYPE
<1>4. CASE card.att.type # DIGEST_TYPE /\ card.att.type # KEYLESS_TYPE
  BY <1>1, <1>4 DEF Result
<1>5. CASE card.att.type = KEYLESS_TYPE
  <2>1. KeylessVerifier(card) = Raised
    BY <1>5 DEF Result, DIGEST_TYPE, KEYLESS_TYPE
  <2>2. CASE card.att.payload = "notText"
    BY <1>5, <2>2
  <2>3. CASE card.att.payload # "notText"
    BY <1>1, <2>1, <2>3 DEF KeylessVerifier
  <2> QED
    BY <2>2, <2>3
<1> QED
  BY <1>3, <1>4, <1>5

LEMMA GateAnswers == Gate
<1>1. CASE enforce_policy(card) = GateRaised
  <2>1. card.att = BareAtt \/ Result(card) = Raised
    BY <1>1 DEF enforce_policy, GateRaised
  <2> QED
    BY <1>1, <2>1, VerifierRaises DEF Gate
<1>2. CASE enforce_policy(card) # GateRaised
  BY <1>2 DEF enforce_policy, Gate
<1> QED
  BY <1>1, <1>2

\* The attestations a publisher attaches that are no keyless bundle.
OtherAtt == [type : {DIGEST_TYPE, KEYLESS_TYPE}, payload : Payloads]
              \union {Unregistered, BareAtt}

LEMMA OtherIsNoBundle ==
  ASSUME NEW att \in OtherAtt, AttachOther(att)
  PROVE  ~Bundle(att)
<1> SUFFICES ASSUME Bundle(att) PROVE FALSE
  OBVIOUS
<1>1. att \in [type : {DIGEST_TYPE, KEYLESS_TYPE}, payload : Payloads]
  BY DEF OtherAtt, Bundle, Unregistered, KEYLESS_TYPE
<1>2. att = [type |-> att.type, payload |-> att.payload]
  BY <1>1
<1> QED
  BY <1>2 DEF AttachOther, Bundle

LEMMA ShapeStep == AttestationInv /\ [Next]_vars => AttestationInv'
<1> SUFFICES ASSUME AttestationInv, [Next]_vars PROVE AttestationInv'
  OBVIOUS
<1> USE DEF AttestationInv
<1>g. Gate'
  BY GateAnswers, PTL
<1>1. ASSUME NEW content \in Content, NEW tier \in Tier, Revise(content, tier)
      PROVE  AttestationInv'
  <2>1. /\ card' = [content |-> content, tier |-> tier, att |-> card.att,
                    id |-> card.id]
        /\ revised' \in 0..MaxRevise
        /\ UNCHANGED <<policy, backend, signs>>
    <3>1. revised' = revised + 1 /\ revised < MaxRevise /\ MaxRevise \in Nat
          /\ revised \in 0..MaxRevise
      BY <1>1, AttestationAssumption DEF Revise, TypeOK, AttestationAssumption
    <3>2. card' = [card EXCEPT !.content = content, !.tier = tier]
      BY <1>1 DEF Revise, Deploy
    <3>3. revised' \in 0..MaxRevise
      BY <3>1
    <3> QED
      BY <1>1, <3>2, <3>3 DEF Revise, Deploy, CardShape
  <2>2. card'.content \in Content /\ card'.tier \in Tier
    BY <2>1
  <2>3. TypeOK'
    BY <1>g, <2>1, <2>2 DEF TypeOK, Gate
  <2>4. card'.att = card.att /\ card' = [content |-> card'.content,
          tier |-> card'.tier, att |-> card'.att, id |-> card'.id]
    BY <2>1
  <2> QED
    BY <2>3, <2>4 DEF CardShape
<1>2. ASSUME NEW issuer \in Issuer, NEW identity \in Identity,
             SignKeyless(issuer, identity)
      PROVE  AttestationInv'
  <2>1. signs' = signs + 1 /\ signs < MaxSign /\ MaxSign \in Nat
        /\ signs \in 0..MaxSign
    BY <1>2, AttestationAssumption DEF SignKeyless, TypeOK, AttestationAssumption
  <2>2. signs' \in 0..MaxSign
    BY <2>1
  <2> QED
    BY <1>g, <1>2, <2>2 DEF SignKeyless, TypeOK, CardShape, Gate
<1>3. ASSUME NEW issuer \in Issuer \union {<<>>},
             NEW identity \in Identity \union {<<>>},
             AttachKeyless(issuer, identity)
      PROVE  AttestationInv'
  <2>1. issuer \in Seq(STRING) /\ identity \in Seq(STRING)
    <3>1. Issuer \union Identity \subseteq Seq(STRING)
      BY AttestationAssumption DEF AttestationAssumption
    <3>2. <<>> \in Seq(STRING)
      BY EmptySeq
    <3> QED
      BY <3>1, <3>2
  <2>2. PICK att : att = [type |-> KEYLESS_TYPE, payload |-> "wellFormed",
            subject |-> SubjectDigest(card), issuer |-> issuer,
            identity |-> identity, envelope |-> envelope]
    OBVIOUS
  <2>3. card' = [card EXCEPT !.att = att]
        /\ UNCHANGED <<policy, backend, signs, revised>>
    BY <1>3, <2>2 DEF AttachKeyless, Deploy
  <2>4. card' = [content |-> card.content, tier |-> card.tier, att |-> att,
                 id |-> card.id]
    BY <2>3 DEF CardShape
  <2>5. att.issuer \in Seq(STRING) /\ att.identity \in Seq(STRING)
    BY <2>1, <2>2
  <2> QED
    <3>1. TypeOK'
      BY <1>g, <2>3, <2>4 DEF TypeOK, Gate
    <3>2. card'.att = att /\ card' = [content |-> card'.content,
            tier |-> card'.tier, att |-> card'.att, id |-> card'.id]
      BY <2>4
    <3> QED
      BY <2>5, <3>1, <3>2 DEF CardShape
<1>4. ASSUME NEW att \in OtherAtt, AttachOther(att)
      PROVE  AttestationInv'
  <2>1. ~Bundle(att)
    BY <1>4, OtherIsNoBundle
  <2> QED
    BY <1>g, <1>4, <2>1 DEF AttachOther, Deploy, TypeOK, CardShape, Gate
<1>5. CASE Seal
  <2>1. card' = [card EXCEPT !.id = IdOf(card)]
        /\ UNCHANGED <<policy, backend, signs, revised>>
    BY <1>5 DEF Seal, Deploy
  <2>2. card' = [content |-> card.content, tier |-> card.tier, att |-> card.att,
                 id |-> IdOf(card)]
    BY <2>1 DEF CardShape
  <2> QED
    BY <1>g, <2>1, <2>2 DEF TypeOK, CardShape, Gate
<1>6. CASE UNCHANGED vars
  BY <1>6, <1>g DEF vars, TypeOK, CardShape, Gate
<1> QED
  BY <1>1, <1>2, <1>3, <1>4, <1>5, <1>6 DEF Next, OtherAtt

LEMMA ShapeInit == Init => AttestationInv
<1> SUFFICES ASSUME Init PROVE AttestationInv
  OBVIOUS
<1>1. PICK content \in Content, tier \in Tier : card = NewCard(content, tier)
  BY DEF Init
<1>2. /\ card.content = content /\ card.tier = tier /\ card.att = NoAtt
      /\ CardShape
  <2>1. PICK c : c = [content |-> content, tier |-> tier, att |-> NoAtt, id |-> NoAtt]
    OBVIOUS
  <2>2. card = [c EXCEPT !.id = IdOf(c)]
    BY <1>1, <2>1 DEF NewCard
  <2>3. card = [content |-> content, tier |-> tier, att |-> NoAtt, id |-> IdOf(c)]
    BY <2>1, <2>2
  <2> QED
    BY <2>3 DEF CardShape, Bundle
<1>3. 0 \in 0..MaxSign /\ 0 \in 0..MaxRevise /\ Backend \subseteq {"none", "sigstore"}
  BY AttestationAssumption DEF AttestationAssumption
<1>4. TypeOK
  BY <1>2, <1>3, GateAnswers DEF Init, TypeOK, Gate
<1> QED
  BY <1>2, <1>4 DEF AttestationInv

LEMMA ShapeInvariant == Spec => []AttestationInv
BY ShapeInit, ShapeStep, PTL DEF Spec

\* The variables hold what the code and the publisher keep there, and whatever
\* is signed, attached and revised, the gate answers in its three codes except
\* on an attestation that is not a mapping (attestation.py:327) or a keyless one
\* whose payload is no text (attestation.py:159), where it raises.
THEOREM AttestationTypeCorrect == Spec => []TypeOK
<1>1. AttestationInv => TypeOK
  BY DEF AttestationInv
<1> QED
  BY <1>1, ShapeInvariant, PTL

\* enforce_policy: its code, or that it raises, depends on the tier and on one
\* verdict about the attestation, whatever attestations there are.
THEOREM GateIsAsAssumed == Spec => []GateAsAssumed
<1>1. GateAsAssumed
  BY PolicyAssumption
     DEF PolicyAssumption, GateAsAssumed, enforce_policy, AttestationCode, Gated, Verdict,
         GateRaised
<1> QED
  BY <1>1, PTL

----------------------------------------------------------------------------
(* What the gate lets through.                                             *)

\* A keyless attestation that passes is one the verifier trusts.
LEMMA PassedKeyless ==
  ASSUME Gated(card), HasKeyless(card), enforce_policy(card) = ""
  PROVE  /\ Bundle(card.att) /\ card.att.subject = SubjectDigest(card)
         /\ backend = "sigstore" /\ SigstoreTrusts(card) /\ PolicyOk(card)
<1>1. /\ Result(card) # Raised /\ Result(card).valid /\ Result(card).trusted # "no"
      /\ Result(card) = KeylessVerifier(card)
  BY DEF enforce_policy, HasKeyless, GateRaised, Result, KEYLESS_TYPE, DIGEST_TYPE
<1>2. card.att.payload = "wellFormed" /\ card.att.subject = SubjectDigest(card)
  <2>1. KeylessVerifier(card) # Invalid
    <3>1. ~Invalid.valid
      BY DEF Invalid
    <3>2. KeylessVerifier(card).valid
      BY <1>1
    <3> QED
      BY <3>1, <3>2
  <2>2. card.att.payload # "notText"
    BY <1>1 DEF KeylessVerifier
  <2> QED
    BY <2>1, <2>2 DEF KeylessVerifier
<1>4. backend = "sigstore" /\ SigstoreTrusts(card) /\ PolicyOk(card)
  <2> DEFINE trusted == backend = "sigstore" /\ SigstoreTrusts(card) /\ PolicyOk(card)
  <2>1. KeylessVerifier(card) = Keyless(trusted)
    BY <1>2 DEF KeylessVerifier
  <2>2. ASSUME NEW t \in BOOLEAN, Keyless(t).trusted # "no" PROVE t
    BY <2>2 DEF Keyless
  <2>3. trusted \in BOOLEAN
    OBVIOUS
  <2>4. Keyless(trusted).trusted # "no"
    BY <1>1, <2>1
  <2> HIDE DEF trusted
  <2>5. trusted
    BY <2>2, <2>3, <2>4
  <2> QED
    BY <2>5 DEF trusted
<1>5. Bundle(card.att)
  BY <1>2 DEF Bundle, HasKeyless
<1> QED
  BY <1>2, <1>4, <1>5

\* Whatever a publisher puts together, a card whose keyless attestation passes
\* the gate has a bundle made for its content, signed over its id by a
\* certificate within what the owner allowed.
THEOREM TrustedStaysAllowed == Spec => []TrustedIsAllowed
<1>1. AttestationInv => TrustedIsAllowed
  <2> SUFFICES ASSUME AttestationInv, Gated(card), card.att \notin {NoAtt, BareAtt},
                      enforce_policy(card) = "", card.att.type = KEYLESS_TYPE
               PROVE  /\ backend = "sigstore"
                      /\ card.att.subject = SubjectDigest(card)
                      /\ card.att.envelope.artifact = card.id
                      /\ policy.issuers # {} =>
                           \E entry \in policy.issuers :
                             Within(card.att.envelope.issuer, entry)
                      /\ policy.identities # {} =>
                           \E entry \in policy.identities :
                             Within(card.att.envelope.identity, entry)
    BY DEF TrustedIsAllowed
  <2>1. /\ Bundle(card.att) /\ card.att.subject = SubjectDigest(card)
        /\ backend = "sigstore" /\ SigstoreTrusts(card) /\ PolicyOk(card)
    BY PassedKeyless DEF HasKeyless
  <2>2. /\ card.att.envelope.artifact = card.id
        /\ card.att.envelope.issuer = card.att.issuer
        /\ card.att.identity # <<>> =>
             card.att.envelope.identity = card.att.identity
    BY <2>1 DEF SigstoreTrusts
  <2>3. card.att.issuer \in Seq(STRING) /\ card.att.identity \in Seq(STRING)
    BY <2>1 DEF AttestationInv, CardShape
  <2>4. policy.issuers \union policy.identities \subseteq Seq(STRING) \ {<<>>}
    BY AttestationAssumption DEF AttestationAssumption, AttestationInv, TypeOK
  <2>5. ASSUME policy.issuers # {}
        PROVE  \E entry \in policy.issuers : Within(card.att.envelope.issuer, entry)
    <3>1. PICK entry \in policy.issuers : Matches(card.att.issuer, entry)
      BY <2>1, <2>5 DEF PolicyOk, matches_any
    <3>2. Within(card.att.issuer, entry)
      BY <2>3, <2>4, <3>1, MatchesWithin
    <3> QED
      BY <2>2, <3>2
  <2>6. ASSUME policy.identities # {}
        PROVE  \E entry \in policy.identities : Within(card.att.envelope.identity, entry)
    <3>1. PICK entry \in policy.identities : Matches(card.att.identity, entry)
      BY <2>1, <2>6 DEF PolicyOk, matches_any
    <3>2. Within(card.att.identity, entry)
      BY <2>3, <2>4, <3>1, MatchesWithin
    <3>3. card.att.identity # <<>>
      BY <2>4, <3>1, BlankMatchesNone
    <3> QED
      BY <2>2, <3>2, <3>3
  <2> QED
    BY <2>1, <2>2, <2>5, <2>6
<1> QED
  BY <1>1, ShapeInvariant, PTL

----------------------------------------------------------------------------
(* Why no card with a keyless attestation verifies and passes.             *)

\* Every id is younger than the one that the bundle it covers was signed for:
\* the signature is made of an id that is there already.
Signed(att) == Bundle(att) /\ att.envelope # NoEnvelope

Ages(ids, age) ==
  /\ age \in [ids -> Nat]
  /\ card.id \in ids
  /\ envelope # NoEnvelope => envelope.artifact \in ids
  /\ Signed(card.att) => card.att.envelope.artifact \in ids
  /\ \A id \in ids : Signed(id.att) =>
       /\ id.att.envelope.artifact \in ids
       /\ age[id.att.envelope.artifact] < age[id]

AgeInv == \E ids : \E age : Ages(ids, age)

LEMMA AgeInit == Init => AgeInv
<1> SUFFICES ASSUME Init PROVE AgeInv
  OBVIOUS
<1>1. PICK content \in Content, tier \in Tier : card = NewCard(content, tier)
  BY DEF Init
<1>2. card.att = NoAtt /\ card.id.att = NoAtt /\ envelope = NoEnvelope
  BY <1>1 DEF Init, NewCard, IdOf
<1>3. PICK age : age = [id \in {card.id} |-> 0]
  OBVIOUS
<1>4. Ages({card.id}, age)
  BY <1>2, <1>3 DEF Ages, Signed, Bundle
<1> QED
  BY <1>4 DEF AgeInv

\* Only Seal makes an id, of the attestation the card has by then.
LEMMA AgeSeal ==
  ASSUME CardShape, NEW ids, NEW age, Ages(ids, age), Seal
  PROVE  AgeInv'
<1>1. /\ card'.id = IdOf(card) /\ card'.att = card.att /\ envelope' = envelope
      /\ IdOf(card).att = card.att
  BY DEF Seal, Deploy, CardShape, IdOf
<1>2. CASE IdOf(card) \in ids
  <2>1. Ages(ids, age)'
    BY <1>1, <1>2 DEF Ages
  <2> QED
    BY <2>1 DEF AgeInv
<1>3. CASE IdOf(card) \notin ids
  <2>1. PICK new : new = IdOf(card)
    OBVIOUS
  <2>2. PICK a \in Nat : Signed(new.att) =>
                           /\ new.att.envelope.artifact \in ids
                           /\ age[new.att.envelope.artifact] < a
    <3>1. CASE Signed(new.att)
      <4>1. new.att.envelope.artifact \in ids
        BY <1>1, <2>1, <3>1 DEF Ages
      <4>2. PICK a \in Nat : a = age[new.att.envelope.artifact]
        BY <4>1 DEF Ages
      <4>3. a + 1 \in Nat /\ age[new.att.envelope.artifact] < a + 1
        BY <4>2
      <4> QED
        BY <4>1, <4>3
    <3> QED
      BY <3>1
  <2>3. PICK aged : aged = [id \in ids \union {new} |-> IF id = new THEN a ELSE age[id]]
    OBVIOUS
  <2>4. Ages(ids \union {new}, aged)'
    <3>1. aged \in [ids \union {new} -> Nat]
      BY <2>2, <2>3 DEF Ages
    <3>2. \A id \in ids : aged[id] = age[id] /\ id # new
      BY <1>3, <2>1, <2>3
    <3>3. aged[new] = a
      BY <2>3
    <3>4. ASSUME NEW id \in ids \union {new}, Signed(id.att)
          PROVE  /\ id.att.envelope.artifact \in ids
                 /\ aged[id.att.envelope.artifact] < aged[id]
      <4>1. CASE id = new
        BY <2>2, <3>2, <3>3, <3>4, <4>1
      <4>2. CASE id # new
        BY <3>2, <3>4, <4>2 DEF Ages
      <4> QED
        BY <4>1, <4>2
    <3> QED
      BY <1>1, <2>1, <3>1, <3>4 DEF Ages
  <2> QED
    BY <2>4 DEF AgeInv
<1> QED
  BY <1>2, <1>3

LEMMA AgeStep == CardShape /\ AgeInv /\ [Next]_vars => AgeInv'
<1> SUFFICES ASSUME CardShape, AgeInv, [Next]_vars PROVE AgeInv'
  OBVIOUS
<1>1. PICK ids, age : Ages(ids, age)
  BY DEF AgeInv
<1>2. CASE Seal
  BY <1>1, <1>2, AgeSeal
<1>3. CASE ~Seal
  <2>1. Ages(ids, age)'
    <3>1. ASSUME NEW content \in Content, NEW tier \in Tier, Revise(content, tier)
          PROVE  Ages(ids, age)'
      <4>1. card'.id = card.id /\ card'.att = card.att /\ envelope' = envelope
        BY <3>1 DEF Revise, Deploy, CardShape
      <4> QED
        BY <1>1, <4>1 DEF Ages
    <3>2. ASSUME NEW issuer \in Issuer, NEW identity \in Identity,
                 SignKeyless(issuer, identity)
          PROVE  Ages(ids, age)'
      <4>1. card' = card /\ envelope'.artifact = card.id
        BY <3>2 DEF SignKeyless
      <4> QED
        BY <1>1, <4>1 DEF Ages
    <3>3. ASSUME NEW issuer, NEW identity, AttachKeyless(issuer, identity)
          PROVE  Ages(ids, age)'
      <4>1. /\ card'.id = card.id /\ card'.att.envelope = envelope
            /\ envelope' = envelope
        BY <3>3 DEF AttachKeyless, Deploy, CardShape
      <4> QED
        BY <1>1, <4>1 DEF Ages, Signed
    <3>4. ASSUME NEW att \in OtherAtt, AttachOther(att)
          PROVE  Ages(ids, age)'
      <4>1. card'.id = card.id /\ card'.att = att /\ envelope' = envelope
        BY <3>4 DEF AttachOther, Deploy, CardShape
      <4>2. ~Signed(card'.att)
        BY <3>4, <4>1, OtherIsNoBundle DEF Signed
      <4> QED
        BY <1>1, <4>1, <4>2 DEF Ages
    <3>5. CASE UNCHANGED vars
      BY <1>1, <3>5 DEF vars, Ages
    <3> QED
      BY <1>3, <3>1, <3>2, <3>3, <3>4, <3>5 DEF Next, OtherAtt
  <2> QED
    BY <2>1 DEF AgeInv
<1> QED
  BY <1>2, <1>3

\* In whatever order a publisher signs, attaches and seals, and however often:
\* a card whose id covers its attestation (verify_glyph) does not have a bundle
\* signed over that id (SigstoreBackend), so that no card with a keyless
\* attestation both verifies and gets a yes from a gate that asks.
THEOREM KeylessStaysOut == Spec => []KeylessNeverPasses
<1>1. AgeInv => KeylessNeverPasses
  <2> SUFFICES ASSUME AgeInv, Gated(card), HasKeyless(card), Passes(card)
               PROVE  FALSE
    BY DEF KeylessNeverPasses
  <2>1. PICK ids, age : Ages(ids, age)
    BY DEF AgeInv
  <2>2. /\ Signed(card.att) /\ card.att.envelope.artifact = card.id
        /\ card.id.att = card.att
    <3>1. enforce_policy(card) = "" /\ card.id = IdOf(card)
      BY DEF Passes, SignedCard
    <3>2. Bundle(card.att) /\ SigstoreTrusts(card)
      BY <3>1, PassedKeyless
    <3>3. card.att.envelope # NoEnvelope /\ card.att.envelope.artifact = card.id
      BY <3>2 DEF SigstoreTrusts
    <3>4. IdOf(card).att = card.att
      BY DEF IdOf
    <3>5. card.id.att = card.att
      BY <3>1, <3>4
    <3> QED
      BY <3>2, <3>3, <3>5 DEF Signed
  <2>3. age[card.id] < age[card.id] /\ age[card.id] \in Nat
    BY <2>1, <2>2 DEF Ages
  <2> QED
    BY <2>3
<1>2. AttestationInv => CardShape
  BY DEF AttestationInv
<1> QED
  BY <1>1, <1>2, AgeInit, AgeStep, ShapeInvariant, PTL DEF Spec
=============================================================================
