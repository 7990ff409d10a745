--------------------------- MODULE RuntimeProofs ---------------------------
(***************************************************************************)
(* What reconciliation guarantees for any servers, glyphs and naming: that *)
(* the runtime knows what is registered, that a reconcile without failures *)
(* leaves the model's tool list in step with the bindings, that no glyph   *)
(* shadows another where the digests keep their names apart, and that a    *)
(* tool leaves the list only when no bridge has a card for it.             *)
(***************************************************************************)
EXTENDS Runtime, SequenceTheorems, WellFoundedInduction, TLAPS

----------------------------------------------------------------------------
(* The runtime's record of the registry.                                   *)

\* registry is a function, which Put and Pop preserve.
IsRegistry == registry = [t \in DOMAIN registry |-> registry[t]]

\* rec is a record of its seven fields, whatever they hold.
IsRecord ==
  DOMAIN rec = {"pc", "next", "added", "kept", "removed", "tool", "schema"}

RecordInv == RegistryRecorded /\ IsRegistry /\ IsRecord

LEMMA RecordStep == RecordInv /\ [Next]_vars => RecordInv'
<1> SUFFICES ASSUME RecordInv, [Next]_vars PROVE RecordInv'
  OBVIOUS
<1> USE DEF RecordInv, RegistryRecorded, IsRegistry
<1>1. IsRecord'
  BY DEF IsRecord, Next, vars, AtRest, Done, Reconcile, Skip, Sync, SyncFails,
     Diff, Prepare, Register, RegisterFails, Deregister, DeregisterFails, Finish,
     Trust, Deploy
<1>2. CASE Register
  BY <1>1, <1>2 DEF Register, Put
<1>3. ASSUME NEW t \in ToolName, Deregister(t) PROVE RecordInv'
  BY <1>1, <1>3 DEF Deregister, Pop
<1>4. CASE UNCHANGED <<registry, registered_tools, registered_schemas>>
  BY <1>1, <1>4
<1> QED
  BY <1>2, <1>3, <1>4 DEF Next, vars, Reconcile, Skip, Sync, SyncFails, Diff,
     RegisterFails, Finish, Prepare, DeregisterFails, Trust, Deploy

LEMMA RecordAlways == Spec => []RecordInv
<1>1. Init => RecordInv
  BY DEF Init, Empty, AtRest, RecordInv, RegistryRecorded, IsRegistry, IsRecord
<1> QED BY <1>1, RecordStep, PTL DEF Spec

\* The runtime's record of tools and schemas is Hermes' registry, in every
\* state and whatever registry operations fail.
THEOREM RecordIsRegistry == Spec => []RegistryRecorded
<1>1. RecordInv => RegistryRecorded
  BY DEF RecordInv
<1> QED BY <1>1, RecordAlways, PTL

----------------------------------------------------------------------------
(* Reconciliation.                                                         *)

\* Without a sync or a `/glyph trust' nothing changes what should be there.
LEMMA SameTarget ==
  ASSUME UNCHANGED <<built, bindings>>
  PROVE  Bound' = Bound /\ \A t : Schema(t)' = Schema(t)
BY DEF Bound, Holders, Schema, Owner

ReconcileInv == Progress /\ InStep

LEMMA ReconcileStep ==
  RecordInv /\ RecordInv' /\ ReconcileInv /\ [Next]_vars => ReconcileInv'
<1> SUFFICES ASSUME RecordInv, RecordInv', Progress, InStep, [Next]_vars
             PROVE  Progress' /\ InStep'
  BY DEF ReconcileInv
<1>1. CASE Reconcile
  <2>1. rec' = [rec EXCEPT !.pc = "sync"]
    BY <1>1 DEF Reconcile
  <2>2. rec'.pc = "sync"
    BY <2>1 DEF RecordInv, IsRecord
  <2> QED BY <2>2 DEF Progress, InStep
<1>2. CASE Skip \/ Sync \/ SyncFails
  <2>1. rec.pc = "sync" /\ rec' = [rec EXCEPT !.next = @ + 1]
    BY <1>2 DEF Skip, Sync, SyncFails
  <2>2. rec'.pc = "sync"
    BY <2>1 DEF RecordInv, IsRecord
  <2> QED BY <2>2 DEF Progress, InStep
<1>3. CASE Diff
  <2>1. Bound' = Bound /\ \A t : Schema(t)' = Schema(t)
    BY <1>3, SameTarget DEF Diff
  <2>2. registered_tools = DOMAIN registry
    BY DEF RecordInv, RegistryRecorded
  <2> QED BY <1>3, <2>1, <2>2 DEF Diff, AtRest, Progress, InStep
<1>4. ASSUME NEW t \in ToolName, Prepare(t) PROVE Progress' /\ InStep'
  <2>1. Bound' = Bound /\ \A u : Schema(u)' = Schema(u)
    BY <1>4, SameTarget DEF Prepare
  <2>2. registered_schemas = registry
    BY DEF RecordInv, RegistryRecorded
  <2> QED BY <1>4, <2>1, <2>2 DEF Prepare, Done, Progress, InStep
<1>5. CASE Register
  <2>1. Bound' = Bound /\ \A u : Schema(u)' = Schema(u)
    BY <1>5, SameTarget DEF Register
  <2>2. /\ rec.pc = "apply" /\ rec.tool # None
        /\ rec'.pc = "apply" /\ rec'.tool = None
        /\ rec'.added = rec.added \ {rec.tool} /\ rec'.kept = rec.kept \ {rec.tool}
        /\ rec'.removed = rec.removed \ {rec.tool}
        /\ quiet' = quiet
    BY <1>5 DEF Register, Done, RecordInv, IsRecord
  <2>3. /\ DOMAIN registry' = DOMAIN registry \union {rec.tool}
        /\ registry'[rec.tool] = rec.schema
        /\ \A t \in DOMAIN registry \ {rec.tool} : registry'[t] = registry[t]
    BY <1>5 DEF Register, Put
  <2>4. InStep'
    BY <2>2 DEF InStep
  <2>5. ASSUME quiet PROVE Progress'
    <3>1. /\ rec.added = Bound \ DOMAIN registry
          /\ rec.kept \subseteq Bound \intersect DOMAIN registry
          /\ rec.removed = DOMAIN registry \ Bound
          /\ \A t \in (Bound \intersect DOMAIN registry) \ rec.kept : registry[t] = Schema(t)
          /\ rec.tool \in rec.added \union rec.kept /\ rec.schema = Schema(rec.tool)
      BY <2>2, <2>5 DEF Progress
    <3>2. /\ rec'.added = Bound' \ DOMAIN registry'
          /\ rec'.kept \subseteq Bound' \intersect DOMAIN registry'
          /\ rec'.removed = DOMAIN registry' \ Bound'
      BY <2>1, <2>2, <2>3, <3>1
    <3>3. ASSUME NEW t \in (Bound' \intersect DOMAIN registry') \ rec'.kept
          PROVE  registry'[t] = Schema(t)'
      BY <2>1, <2>2, <2>3, <3>1, <3>3
    <3> QED BY <2>2, <3>2, <3>3 DEF Progress
  <2> QED BY <2>2, <2>4, <2>5 DEF Progress
<1>6. CASE RegisterFails
  BY <1>6 DEF RegisterFails, Progress, InStep
<1>7. ASSUME NEW t \in ToolName, Deregister(t) PROVE Progress' /\ InStep'
  <2>1. Bound' = Bound /\ \A u : Schema(u)' = Schema(u)
    BY <1>7, SameTarget DEF Deregister
  <2> QED BY <1>7, <2>1 DEF Deregister, Pop, Done, Progress, InStep
<1>8. ASSUME NEW t \in ToolName, DeregisterFails(t) PROVE Progress' /\ InStep'
  BY <1>8 DEF DeregisterFails, Progress, InStep
<1>9. CASE Finish
  <2>1. Bound' = Bound /\ \A u : Schema(u)' = Schema(u)
    BY <1>9, SameTarget DEF Finish
  <2> QED BY <1>9, <2>1 DEF Finish, AtRest, Progress, InStep, RecordInv, IsRegistry
<1>10. ASSUME NEW t \in ToolName, NEW v \in Version, Trust(t, v)
       PROVE  Progress' /\ InStep'
  BY <1>10 DEF Trust, Progress, InStep
<1>11. ASSUME NEW b \in Alias, NEW g \in Glyph, NEW v \in Version \union {None},
              Deploy(b, g, v)
       PROVE  Progress' /\ InStep'
  <2>1. Bound' = Bound /\ \A u : Schema(u)' = Schema(u)
    BY <1>11, SameTarget DEF Deploy
  <2> QED BY <1>11, <2>1 DEF Deploy, Progress, InStep
<1>12. CASE UNCHANGED vars
  <2>1. Bound' = Bound /\ \A u : Schema(u)' = Schema(u)
    BY <1>12, SameTarget DEF vars
  <2> QED BY <1>12, <2>1 DEF vars, Progress, InStep
<1> QED BY <1>1, <1>2, <1>3, <1>4, <1>5, <1>6, <1>7, <1>8, <1>9, <1>10, <1>11,
           <1>12 DEF Next

\* After a reconcile in which nothing failed, and until a binding is replaced,
\* the registry holds exactly the bound tools with the schemas of their cards.
THEOREM ReconcileKeepsInStep == Spec => []InStep
<1>1. Init => ReconcileInv
  BY DEF Init, AtRest, ReconcileInv, Progress, InStep
<1>2. ReconcileInv => InStep
  BY DEF ReconcileInv
<1> QED BY <1>1, <1>2, ReconcileStep, RecordAlways, PTL DEF Spec

----------------------------------------------------------------------------
(* Who holds a tool.  Of the positions of the servers that bind it one is  *)
(* the last: the naturals are well founded.                                *)

LEMMA LeastNat ==
  ASSUME NEW S, S \subseteq Nat, S # {}
  PROVE  \E i \in S : \A j \in S : i <= j
<1> DEFINE R == {ss \in Nat \X Nat : ss[1] < ss[2]}
<1>1. IsWellFoundedOn(R, Nat)
  BY NatLessThanWellFounded DEF OpToRel
<1> HIDE DEF R
<1>2. PICK i \in S : \A j \in S : <<j, i>> \notin R
  BY <1>1, WFMin
<1>3. ASSUME NEW j \in S
      PROVE  i <= j
  <2>1. i \in Nat /\ j \in Nat
    OBVIOUS
  <2>2. j < i => <<j, i>> \in R
    BY <2>1 DEF R
  <2> QED
    BY <1>2, <2>1, <2>2
<1> QED
  BY <1>3

LEMMA GreatestNat ==
  ASSUME NEW n \in Nat, NEW S, S \subseteq 1..n, S # {}
  PROVE  \E i \in S : \A j \in S : j <= i
<1> DEFINE T == {k \in Nat : \E i \in S : k = n - i}
<1>1. T \subseteq Nat /\ T # {}
  <2>1. PICK i \in S : TRUE
    OBVIOUS
  <2>2. n - i \in T
    OBVIOUS
  <2> QED
    BY <2>2
<1>2. PICK k \in T : \A l \in T : k <= l
  BY <1>1, LeastNat
<1>3. PICK i \in S : k = n - i
  OBVIOUS
<1>4. \A j \in S : n - j \in T
  OBVIOUS
<1> QED
  BY <1>2, <1>3, <1>4

LEMMA ServersType ==
  /\ Len(Servers) \in Nat /\ DOMAIN Servers = 1..Len(Servers)
  /\ \A i \in DOMAIN Servers : Servers[i] \in Alias
BY RuntimeAssumption, LenProperties DEF RuntimeAssumption, Alias

\* all_bindings and find_bridge_for_tool find a bound tool on a bridge that
\* was built and binds it.
LEMMA OwnerHolds ==
  ASSUME NEW t \in Bound
  PROVE  Owner(t) \in Alias \intersect built /\ t \in DOMAIN bindings[Owner(t)]
<1>1. Holders(t) # {} /\ Holders(t) \subseteq 1..Len(Servers)
  BY ServersType DEF Bound, Holders
<1>2. \E i \in Holders(t) : \A j \in Holders(t) : j <= i
  BY <1>1, ServersType, GreatestNat
<1>3. PICK i \in Holders(t) : Owner(t) = Servers[i]
  BY <1>2 DEF Owner
<1> QED
  BY <1>3, ServersType DEF Holders

LEMMA BridgeHolds ==
  ASSUME NEW t \in Bound
  PROVE  FindBridge(t) \in Alias \intersect built
         /\ t \in DOMAIN bindings[FindBridge(t)]
<1>1. Holders(t) # {} /\ Holders(t) \subseteq Nat
  BY ServersType DEF Bound, Holders
<1>2. \E i \in Holders(t) : \A j \in Holders(t) : i <= j
  BY <1>1, LeastNat
<1>3. PICK i \in Holders(t) : FindBridge(t) = Servers[i]
  BY <1>2 DEF FindBridge
<1> QED
  BY <1>3, ServersType DEF Holders

LEMMA HolderBinds ==
  ASSUME NEW b \in Alias \intersect built, NEW t \in ToolName,
         t \in DOMAIN bindings[b]
  PROVE  t \in Bound
<1>1. PICK i \in DOMAIN Servers : Servers[i] = b
  BY DEF Alias
<1> QED
  BY <1>1 DEF Bound, Holders

\* A glyph whose name no digest makes shares its tool name with no other.
LEMMA NamesDiffer ==
  ASSUME NEW b \in Alias, NEW lexicon \in SUBSET Offered[b],
         NEW g \in lexicon, NEW h \in lexicon, Unmistakable(b, g),
         AssignToolNames(b, lexicon)[g] = AssignToolNames(b, lexicon)[h]
  PROVE  g = h
<1> SUFFICES ASSUME g # h
             PROVE  FALSE
  OBVIOUS
<1>1. \A x \in lexicon :
        \/ AssignToolNames(b, lexicon)[x] = Suffixed[b][x]
        \/ /\ AssignToolNames(b, lexicon)[x] = Plain[b][x]
           /\ \A y \in lexicon \ {x} : Plain[b][y] # Plain[b][x]
  BY DEF AssignToolNames
<1>2. /\ Suffixed[b][g] # Plain[b][h] /\ Suffixed[b][g] # Suffixed[b][h]
      /\ Suffixed[b][h] # Plain[b][g]
  BY DEF Unmistakable
<1> QED
  BY <1>1, <1>2

LEMMA NameType ==
  ASSUME NEW b \in Alias, NEW lexicon \in SUBSET Offered[b], NEW g \in lexicon
  PROVE  AssignToolNames(b, lexicon)[g] \in ToolName
BY DEF AssignToolNames, ToolName

----------------------------------------------------------------------------
(* Names and bindings.                                                     *)

\* bindings and known have an entry for each server; what a reconcile is going
\* to register is bound, and what it is going to remove is not.
WorkFrame ==
  /\ DOMAIN bindings = Alias /\ DOMAIN known = Alias
  /\ rec.pc = "apply" =>
       /\ rec.added \union rec.kept \subseteq Bound
       /\ rec.removed \intersect Bound = {}

RuntimeInv == TypeOK /\ WorkFrame /\ NoShadow

LEMMA SchemaType ==
  ASSUME TypeOK, NEW t \in Bound
  PROVE  Schema(t) \in Schemas
BY OwnerHolds DEF TypeOK, Schema, Schemas, Binding

\* What a sync of b makes of its lexicon, under given names.
SyncsTo(b, lexicon, names) ==
  \E fetched \in SUBSET lexicon :
    /\ known' = [known EXCEPT ![b] = [g \in fetched |-> names[g]]]
    /\ \E held \in Holdings(names, fetched) :
         bindings' = [bindings EXCEPT ![b] =
           [t \in DOMAIN held |->
              [glyph |-> held[t], version |-> server[b][held[t]]]]]

\* A sync binds each glyph it fetched under a name of its own, if the digests
\* keep the names apart.
LEMMA SyncKeepsInv == RecordInv /\ RuntimeInv /\ Sync => RuntimeInv'
<1> SUFFICES ASSUME RecordInv, RuntimeInv, Sync
             PROVE  RuntimeInv'
  OBVIOUS
<1> USE DEF RuntimeInv
<1>1. PICK b \in Alias : b = Servers[rec.next]
  BY ServersType DEF Sync
<1>2. PICK lexicon \in SUBSET Offered[b] :
        lexicon = {g \in Offered[b] : server[b][g] # None}
  OBVIOUS
<1> lexicon \subseteq Glyph
  BY RuntimeAssumption DEF RuntimeAssumption
<1>3. PICK names : names = AssignToolNames(b, lexicon)
  OBVIOUS
<1>4. PICK fetched \in SUBSET lexicon :
         /\ known' = [known EXCEPT ![b] = [g \in fetched |-> names[g]]]
         /\ \E held \in Holdings(names, fetched) :
              bindings' = [bindings EXCEPT ![b] =
                [t \in DOMAIN held |->
                   [glyph |-> held[t], version |-> server[b][held[t]]]]]
  <2>1. LET lexicon1 == {g \in Offered[Servers[rec.next]] :
                           server[Servers[rec.next]][g] # None}
        IN  SyncsTo(Servers[rec.next], lexicon1,
                    AssignToolNames(Servers[rec.next], lexicon1))
    BY DEF Sync, SyncsTo
  <2>2. SyncsTo(b, lexicon, names)
    BY <2>1, <1>1, <1>2, <1>3
  <2> QED
    BY <2>2 DEF SyncsTo
<1>5. PICK held \in Holdings(names, fetched) :
        bindings' = [bindings EXCEPT ![b] =
          [t \in DOMAIN held |->
             [glyph |-> held[t], version |-> server[b][held[t]]]]]
  BY <1>4
<1>6. /\ rec.pc = "sync" /\ rec.next \in DOMAIN Servers
      /\ rec' = [rec EXCEPT !.next = @ + 1]
      /\ UNCHANGED <<server, built, registry, registered_tools,
                     registered_schemas, quiet>>
  BY DEF Sync
<1>7. /\ DOMAIN held = {names[g] : g \in fetched}
      /\ \A t \in DOMAIN held : held[t] \in fetched /\ names[held[t]] = t
  BY DEF Holdings
<1>8. \A g \in fetched : Unmistakable(b, g) => held[names[g]] = g
  <2> SUFFICES ASSUME NEW g \in fetched, Unmistakable(b, g)
               PROVE  held[names[g]] = g
    OBVIOUS
  <2>1. held[names[g]] \in fetched /\ names[held[names[g]]] = names[g]
    BY <1>7
  <2> QED
    BY <2>1, <1>3, NamesDiffer
<1>9. /\ DOMAIN bindings'[b] = {names[g] : g \in fetched}
      /\ \A t \in DOMAIN held :
           bindings'[b][t] = [glyph |-> held[t], version |-> server[b][held[t]]]
      /\ DOMAIN known'[b] = fetched
      /\ \A g \in fetched : known'[b][g] = names[g]
      /\ DOMAIN bindings' = Alias /\ DOMAIN known' = Alias
      /\ \A c \in Alias \ {b} : bindings'[c] = bindings[c] /\ known'[c] = known[c]
  <2>1. DOMAIN bindings = Alias /\ DOMAIN known = Alias
    BY DEF WorkFrame
  <2>2. /\ DOMAIN bindings'[b] = DOMAIN held
        /\ \A t \in DOMAIN held :
             bindings'[b][t] = [glyph |-> held[t], version |-> server[b][held[t]]]
    BY <1>5, <2>1
  <2> QED
    BY <1>5, <1>4, <1>7, <2>1, <2>2
<1>10. /\ rec'.pc = "sync" /\ rec'.next = rec.next + 1
      /\ rec'.added = rec.added /\ rec'.kept = rec.kept
      /\ rec'.removed = rec.removed /\ rec'.tool = rec.tool
      /\ rec'.schema = rec.schema
  BY <1>6 DEF RecordInv, IsRecord
<1>11. TypeOK'
  <2>1. ASSUME NEW c \in Alias
        PROVE  /\ DOMAIN bindings'[c] \subseteq ToolName
               /\ \A t \in DOMAIN bindings'[c] : bindings'[c][t] \in Binding
    <3>1. CASE c = b
      <4> SUFFICES ASSUME NEW t \in DOMAIN bindings'[b]
                   PROVE  t \in ToolName /\ bindings'[b][t] \in Binding
        BY <3>1
      <4>1. PICK g \in fetched : t = names[g]
        BY <1>9
      <4>2. t \in ToolName
        BY <4>1, <1>3, NameType
      <4>3. /\ held[t] \in fetched
            /\ bindings'[b][t] = [glyph |-> held[t], version |-> server[b][held[t]]]
        BY <4>1, <1>7, <1>9
      <4>4. server[b][held[t]] \in Version
        BY <4>3, <1>2 DEF TypeOK
      <4> QED
        BY <4>2, <4>3, <4>4 DEF Binding
    <3>2. CASE c # b
      BY <3>2, <1>9 DEF TypeOK
    <3> QED
      BY <3>1, <3>2
  <2>2. rec'.next \in 1..Len(Servers) + 1
    BY <1>6, <1>10, ServersType
  <2> QED
    BY <2>1, <2>2, <1>6, <1>10 DEF TypeOK
<1>12. WorkFrame'
  BY <1>9, <1>10 DEF WorkFrame
<1>13. NoShadow'
  <2> SUFFICES ASSUME NEW c \in Alias, NEW g \in Glyph, g \in DOMAIN known'[c]
               PROVE  /\ known'[c][g] \in DOMAIN bindings'[c]
                      /\ Unmistakable(c, g) => bindings'[c][known'[c][g]].glyph = g
    BY DEF NoShadow, Unmistakable
  <2>1. CASE c = b
    <3>1. g \in fetched /\ known'[b][g] = names[g]
      BY <2>1, <1>9
    <3>2. /\ names[g] \in DOMAIN held
          /\ names[g] \in DOMAIN bindings'[b]
      BY <3>1, <1>7, <1>9
    <3>3. bindings'[b][names[g]] = [glyph |-> held[names[g]],
                                    version |-> server[b][held[names[g]]]]
      <4>1. \A t \in DOMAIN held :
              bindings'[b][t] = [glyph |-> held[t], version |-> server[b][held[t]]]
        BY <1>9
      <4> QED
        BY <4>1, <3>2
    <3>4. Unmistakable(c, g) => held[names[g]] = g
      BY <2>1, <3>1, <1>8
    <3> QED
      BY <2>1, <3>1, <3>2, <3>3, <3>4
  <2>2. CASE c # b
    BY <2>2, <1>9 DEF NoShadow
  <2> QED
    BY <2>1, <2>2
<1> QED
  BY <1>11, <1>12, <1>13

\* `/glyph trust' replaces the version of a binding, and nothing else of it.
LEMMA TrustKeepsInv ==
  ASSUME RuntimeInv, NEW t \in ToolName, NEW v \in Version, Trust(t, v)
  PROVE  RuntimeInv' /\ Bound' = Bound
<1> USE DEF RuntimeInv
<1>1. PICK b \in Alias : b = FindBridge(t) /\ t \in DOMAIN bindings[b]
  BY BridgeHolds DEF Trust
<1>2. /\ bindings' = [bindings EXCEPT ![b][t].version = v]
      /\ quiet' = FALSE
      /\ UNCHANGED <<server, built, registry, registered_tools,
                     registered_schemas, rec, known>>
  BY <1>1 DEF Trust
<1>3. DOMAIN bindings = Alias /\ bindings[b][t] \in Binding
  BY <1>1 DEF WorkFrame, TypeOK
<1>4. PICK w : w = [bindings[b][t] EXCEPT !.version = v]
  OBVIOUS
<1>5. w \in Binding /\ w.glyph = bindings[b][t].glyph
  BY <1>3, <1>4 DEF Binding
<1>6. bindings' = [bindings EXCEPT ![b] = [bindings[b] EXCEPT ![t] = w]]
  BY <1>2, <1>4
<1>7. /\ DOMAIN bindings' = Alias
      /\ \A c \in Alias : DOMAIN bindings'[c] = DOMAIN bindings[c]
      /\ \A c \in Alias : \A u \in DOMAIN bindings[c] :
           bindings'[c][u] = IF c = b /\ u = t THEN w ELSE bindings[c][u]
  <2>1. PICK f : f = [bindings[b] EXCEPT ![t] = w]
    OBVIOUS
  <2>2. /\ DOMAIN f = DOMAIN bindings[b] /\ f[t] = w
        /\ \A u \in DOMAIN bindings[b] : u # t => f[u] = bindings[b][u]
    BY <1>1, <2>1
  <2>3. bindings' = [bindings EXCEPT ![b] = f]
    BY <1>6, <2>1
  <2>4. /\ DOMAIN bindings' = Alias /\ bindings'[b] = f
        /\ \A c \in Alias \ {b} : bindings'[c] = bindings[c]
    BY <1>1, <1>3, <2>3, BridgeHolds DEF Trust
  <2>5. \A c \in Alias : DOMAIN bindings'[c] = DOMAIN bindings[c]
    BY <2>2, <2>4
  <2>6. ASSUME NEW c \in Alias, NEW u \in DOMAIN bindings[c]
        PROVE  bindings'[c][u] = IF c = b /\ u = t THEN w ELSE bindings[c][u]
    <3>1. CASE c = b
      BY <3>1, <2>2, <2>4
    <3>2. CASE c # b
      BY <3>2, <2>4
    <3> QED
      BY <3>1, <3>2
  <2> QED
    BY <2>4, <2>5, <2>6
<1>8. Bound' = Bound
  BY <1>2, <1>7, ServersType DEF Bound, Holders
<1>9. TypeOK'
  <2>1. ASSUME NEW c \in Alias
        PROVE  /\ DOMAIN bindings'[c] \subseteq ToolName
               /\ \A u \in DOMAIN bindings'[c] : bindings'[c][u] \in Binding
    <3>1. /\ DOMAIN bindings'[c] = DOMAIN bindings[c]
          /\ DOMAIN bindings[c] \subseteq ToolName
          /\ \A u \in DOMAIN bindings[c] : bindings[c][u] \in Binding
      BY <1>7 DEF TypeOK
    <3>2. ASSUME NEW u \in DOMAIN bindings[c]
          PROVE  bindings'[c][u] \in Binding
      <4>1. bindings'[c][u] = w \/ bindings'[c][u] = bindings[c][u]
        BY <1>7
      <4> QED
        BY <4>1, <3>1, <1>5
    <3> QED
      BY <3>1, <3>2
  <2> QED
    BY <2>1, <1>2 DEF TypeOK
<1>10. WorkFrame'
  BY <1>2, <1>7, <1>8 DEF WorkFrame
<1>11. NoShadow'
  BY <1>2, <1>5, <1>7 DEF NoShadow
<1> QED
  BY <1>8, <1>9, <1>10, <1>11

\* The other steps leave the bindings alone.
LEMMA RuntimeStep == RecordInv /\ RuntimeInv /\ [Next]_vars => RuntimeInv'
<1> SUFFICES ASSUME RecordInv, RuntimeInv, [Next]_vars
             PROVE  RuntimeInv'
  OBVIOUS
<1> USE DEF RuntimeInv
<1>1. ASSUME UNCHANGED <<built, bindings, known>>, rec'.pc = "apply" =>
               /\ rec'.added \union rec'.kept \subseteq Bound
               /\ rec'.removed \intersect Bound = {}
      PROVE  WorkFrame' /\ NoShadow'
  <2>1. Bound' = Bound
    BY <1>1, SameTarget
  <2> QED
    BY <1>1, <2>1 DEF WorkFrame, NoShadow
<1>2. CASE Reconcile
  <2>1. rec'.pc = "sync" /\ rec'.next = rec.next /\ rec'.tool = rec.tool
        /\ rec'.added = rec.added /\ rec'.kept = rec.kept
        /\ rec'.removed = rec.removed /\ rec'.schema = rec.schema
    BY <1>2 DEF Reconcile, RecordInv, IsRecord
  <2>2. TypeOK'
    BY <1>2, <2>1 DEF Reconcile, TypeOK
  <2> QED
    BY <1>1, <1>2, <2>1, <2>2 DEF Reconcile
<1>3. CASE Skip \/ SyncFails
  <2>1. rec'.pc = "sync" /\ rec'.next = rec.next + 1 /\ rec'.tool = rec.tool
        /\ rec'.added = rec.added /\ rec'.kept = rec.kept
        /\ rec'.removed = rec.removed /\ rec'.schema = rec.schema
    BY <1>3 DEF Skip, SyncFails, RecordInv, IsRecord
  <2>2. rec'.next \in 1..Len(Servers) + 1
    BY <1>3, <2>1, ServersType DEF Skip, SyncFails
  <2>3. TypeOK'
    BY <1>3, <2>1, <2>2 DEF Skip, SyncFails, TypeOK
  <2> QED
    BY <1>1, <1>3, <2>1, <2>3 DEF Skip, SyncFails
<1>4. CASE Sync
  BY <1>4, SyncKeepsInv
<1>5. CASE Diff
  <2>1. /\ rec'.pc = "apply" /\ rec'.next = 1 /\ rec'.tool = None
        /\ rec'.added = Bound \ registered_tools
        /\ rec'.kept = Bound \intersect registered_tools
        /\ rec'.removed = registered_tools \ Bound
    BY <1>5 DEF Diff, AtRest
  <2>2. TypeOK'
    BY <1>5, <2>1, ServersType DEF Diff, TypeOK, Bound
  <2> QED
    BY <1>1, <1>5, <2>1, <2>2 DEF Diff
<1>6. ASSUME NEW t \in ToolName, Prepare(t)
      PROVE  RuntimeInv'
  <2>1. t \in Bound
    BY <1>6 DEF Prepare, WorkFrame
  <2>2. Schema(t) \in Schemas
    BY <2>1, SchemaType
  <2>3. /\ rec.pc = "apply" /\ rec'.pc = "apply" /\ rec'.next = rec.next
        /\ rec'.added \subseteq rec.added /\ rec'.kept \subseteq rec.kept
        /\ rec'.removed \subseteq rec.removed
        /\ rec'.tool # None =>
             rec'.tool \in rec'.added \union rec'.kept /\ rec'.schema = Schema(t)
    BY <1>6 DEF Prepare, Done, RecordInv, IsRecord
  <2>4. TypeOK'
    BY <1>6, <2>2, <2>3 DEF Prepare, TypeOK
  <2> QED
    BY <1>1, <1>6, <2>3, <2>4 DEF Prepare, WorkFrame
<1>7. ASSUME NEW t, rec.pc = "apply", rec' = Done(t)
      PROVE  /\ rec'.pc = "apply" /\ rec'.next = rec.next /\ rec'.tool = None
             /\ rec'.added \subseteq rec.added /\ rec'.kept \subseteq rec.kept
             /\ rec'.removed \subseteq rec.removed
  BY <1>7 DEF Done, RecordInv, IsRecord
<1>8. CASE Register \/ RegisterFails
  <2>1. rec.pc = "apply" /\ rec.tool # None /\ rec' = Done(rec.tool)
    BY <1>8 DEF Register, RegisterFails
  <2>2. /\ rec'.pc = "apply" /\ rec'.next = rec.next /\ rec'.tool = None
        /\ rec'.added \subseteq rec.added /\ rec'.kept \subseteq rec.kept
        /\ rec'.removed \subseteq rec.removed
    BY <1>7, <2>1
  <2>3. rec.tool \in ToolName
    BY <2>1 DEF TypeOK
  <2>4. TypeOK'
    BY <1>8, <2>2, <2>3 DEF Register, RegisterFails, TypeOK
  <2> QED
    BY <1>1, <1>8, <2>1, <2>2, <2>4 DEF Register, RegisterFails, WorkFrame
<1>9. ASSUME NEW t \in ToolName, Deregister(t) \/ DeregisterFails(t)
      PROVE  RuntimeInv'
  <2>1. rec.pc = "apply" /\ rec' = Done(t)
    BY <1>9 DEF Deregister, DeregisterFails
  <2>2. /\ rec'.pc = "apply" /\ rec'.next = rec.next /\ rec'.tool = None
        /\ rec'.added \subseteq rec.added /\ rec'.kept \subseteq rec.kept
        /\ rec'.removed \subseteq rec.removed
    BY <1>7, <2>1
  <2>3. TypeOK'
    BY <1>9, <2>2 DEF Deregister, DeregisterFails, TypeOK
  <2> QED
    BY <1>1, <1>9, <2>1, <2>2, <2>3 DEF Deregister, DeregisterFails, WorkFrame
<1>10. CASE Finish
  <2>1. /\ rec'.pc = "idle" /\ rec'.next = 1 /\ rec'.tool = None
        /\ rec'.added = {} /\ rec'.kept = {} /\ rec'.removed = {}
    BY <1>10 DEF Finish, AtRest
  <2>2. TypeOK'
    BY <1>10, <2>1, ServersType DEF Finish, TypeOK
  <2> QED
    BY <1>1, <1>10, <2>1, <2>2 DEF Finish
<1>11. ASSUME NEW t \in ToolName, NEW v \in Version, Trust(t, v)
       PROVE  RuntimeInv'
  BY <1>11, TrustKeepsInv
<1>12. ASSUME NEW b \in Alias, NEW g \in Glyph, NEW v \in Version \union {None},
              Deploy(b, g, v)
       PROVE  RuntimeInv'
  <2>1. TypeOK'
    BY <1>12 DEF Deploy, TypeOK
  <2> QED
    BY <1>1, <1>12, <2>1 DEF Deploy, WorkFrame
<1>13. CASE UNCHANGED vars
  <2>1. TypeOK'
    BY <1>13 DEF vars, TypeOK
  <2> QED
    BY <1>1, <1>13, <2>1 DEF vars, WorkFrame
<1> QED
  BY <1>2, <1>3, <1>4, <1>5, <1>6, <1>8, <1>9, <1>10, <1>11, <1>12, <1>13 DEF Next

LEMMA RuntimeInvariant == Spec => []RuntimeInv
<1>1. Init => RuntimeInv
  <2> SUFFICES ASSUME Init
               PROVE  RuntimeInv
    OBVIOUS
  <2>1. TypeOK
    BY ServersType DEF Init, TypeOK, AtRest, Empty
  <2>2. WorkFrame /\ NoShadow
    BY DEF Init, WorkFrame, NoShadow, AtRest, Empty
  <2> QED
    BY <2>1, <2>2 DEF RuntimeInv
<1> QED
  BY <1>1, RuntimeStep, RecordAlways, PTL DEF Spec

\* The runtime's variables are what the code keeps there.
THEOREM RuntimeTypeCorrect == Spec => []TypeOK
<1>1. RuntimeInv => TypeOK
  BY DEF RuntimeInv
<1> QED
  BY <1>1, RuntimeInvariant, PTL

\* assign_tool_names, sync: whatever glyphs a lexicon has, however their names
\* sanitize and in whatever order they come, each card the last successful sync
\* of a bridge got is bound under the name of its own glyph, if no glyph of the
\* server is called what the digest of another makes.
THEOREM NoGlyphShadows == Spec => []NoShadow
<1>1. RuntimeInv => NoShadow
  BY DEF RuntimeInv
<1> QED
  BY <1>1, RuntimeInvariant, PTL

\* A tool leaves the model's list only in a reconcile, and only when no bridge
\* that was built got a card for it in its last successful sync.
LEMMA StaleStep ==
  ASSUME RecordInv, RuntimeInv, Next, NEW t \in DOMAIN registry \ DOMAIN registry',
         NEW b \in built, NEW g \in Glyph, g \in DOMAIN known[b]
  PROVE  known[b][g] # t
<1> USE DEF RuntimeInv
<1>1. b \in Alias \intersect built
  BY DEF TypeOK
<1>2. known[b][g] \in Bound
  <2>1. known[b][g] \in DOMAIN bindings[b]
    BY <1>1 DEF NoShadow
  <2>2. known[b][g] \in ToolName
    BY <1>1, <2>1 DEF TypeOK
  <2> QED
    BY <1>1, <2>1, <2>2, HolderBinds
<1>3. CASE Register
  BY <1>3 DEF Register, Put
<1>4. CASE UNCHANGED registry
  BY <1>4
<1>5. ASSUME NEW u \in ToolName, Deregister(u)
      PROVE  known[b][g] # t
  <2>1. t = u /\ u \in rec.removed /\ rec.pc = "apply"
    BY <1>5 DEF Deregister, Pop
  <2> QED
    BY <1>2, <2>1 DEF WorkFrame
<1> QED
  BY <1>3, <1>4, <1>5 DEF Next, Reconcile, Skip, Sync, SyncFails, Diff, Prepare,
     RegisterFails, DeregisterFails, Finish, Trust, Deploy

\* reconcile: whatever syncs fail and whatever is trusted meanwhile, a tool is
\* deregistered only if no bridge got a card for it in its last successful
\* sync.
THEOREM StaleStaysListed == Spec => StaleNotGone
<1>1. RecordInv /\ RuntimeInv /\ [Next]_vars =>
        [\A t \in DOMAIN registry \ DOMAIN registry' :
           \A b \in built, g \in Glyph : g \in DOMAIN known[b] => known[b][g] # t]_vars
  BY StaleStep
<1> QED
  BY <1>1, RuntimeInvariant, RecordAlways, PTL DEF Spec, StaleNotGone
=============================================================================
