------------------------------ MODULE Runtime ------------------------------
(***************************************************************************)
(* GlyphRuntime (plugin.py): the bridges of all servers and the tools      *)
(* registered with Hermes for them.  Startup and each reconcile sync the   *)
(* bridges one by one and then bring Hermes' registry in step, one tool at *)
(* a time; registry operations may fail.  Reconciles hold the runtime's    *)
(* lock, so one is under way at a time; `/glyph trust' takes no lock and   *)
(* replaces the card of a binding meanwhile.                               *)
(*                                                                         *)
(* A card is reduced to what the model is shown of it, its version.  A     *)
(* bridge's sync is one step here; ServerBridge has its details.           *)
(***************************************************************************)
EXTENDS Naturals, Sequences, FiniteSets

CONSTANTS
  Servers,     \* the aliases of glyph.yaml, in order
  Glyph,       \* names of glyphs
  Version,     \* versions of a card
  Offered,     \* Offered[b]: the glyphs the server of b may deploy
  Plain,       \* Plain[b][g]: sanitize_tool_name of alias and glyph
  Suffixed,    \* Suffixed[b][g]: the same cut short, with a digest of g after it
  None         \* absence of a version or a tool

Alias == {Servers[i] : i \in DOMAIN Servers}

ASSUME RuntimeAssumption ==
  /\ Servers \in Seq(Alias)
  /\ Offered \in [Alias -> SUBSET Glyph]
  /\ None \notin Glyph \union Version
  /\ \A i, j \in DOMAIN Servers : Servers[i] = Servers[j] => i = j

VARIABLES
  server,      \* external: the version deployed of each glyph
  built,       \* the aliases whose bridge could be built
  bindings,    \* the published bindings of each bridge, by tool name
  registry,    \* external: Hermes' registry of our tools: schema and bridge
  registered_tools, registered_schemas,
  rec,         \* startup or the reconcile under way
  known,       \* history: the glyphs the last successful sync of a bridge got
               \* the card of, and their tool names
  quiet        \* history: since the last reconcile began no registry operation
               \* failed and no binding was replaced

vars == <<server, built, bindings, registry, registered_tools,
          registered_schemas, rec, known, quiet>>

Empty == [t \in {} |-> None]
Put(f, t, v) == [u \in DOMAIN f \union {t} |-> IF u = t THEN v ELSE f[u]]
Pop(f, t) == [u \in DOMAIN f \ {t} |-> f[u]]

----------------------------------------------------------------------------
(* Tool names.                                                             *)

ToolName ==
  UNION {UNION {{Plain[b][g], Suffixed[b][g]} : g \in Offered[b]} : b \in Alias}

\* Mutant: the sanitized name, whoever else has it.
AssignToolNames_Plain(b, lexicon) == [g \in lexicon |-> Plain[b][g]]

\* A glyph whose sanitized name another glyph of the lexicon has too gets a
\* suffix.  Nobody looks whether a third glyph has the name so made.
AssignToolNames(b, lexicon) ==
  [g \in lexicon |->
     IF \E h \in lexicon \ {g} : Plain[b][h] = Plain[b][g]
     THEN Suffixed[b][g] ELSE Plain[b][g]]

----------------------------------------------------------------------------
(* sync_all.                                                               *)

Binding == [glyph : Glyph, version : Version]

AtRest == [pc |-> "idle", next |-> 1, added |-> {}, kept |-> {}, removed |-> {},
           tool |-> None, schema |-> None]

\* One bridge after the other; a bridge that could not be built is not there.
Skip ==
  /\ rec.pc = "sync" /\ rec.next \in DOMAIN Servers
  /\ Servers[rec.next] \notin built
  /\ rec' = [rec EXCEPT !.next = @ + 1]
  /\ UNCHANGED <<server, built, bindings, registry, registered_tools,
                 registered_schemas, known, quiet>>

\* Which glyph each name ends up with: of several with one name, the last in
\* the order of the server's lexicon.
Holdings(names, glyphs) ==
  {held \in [{names[g] : g \in glyphs} -> glyphs] :
     \A t \in DOMAIN held : names[held[t]] = t}

\* Mutant: a card that could not be fetched is bound all the same.
Sync_BindsMissing ==
  /\ rec.pc = "sync" /\ rec.next \in DOMAIN Servers
  /\ LET b == Servers[rec.next]
         lexicon == {g \in Offered[b] : server[b][g] # None}
         names == AssignToolNames(b, lexicon)
     IN  /\ b \in built
         /\ \E fetched \in SUBSET lexicon :
              /\ known' = [known EXCEPT ![b] = [g \in fetched |-> names[g]]]
              /\ \E held \in Holdings(names, lexicon) :
                   bindings' = [bindings EXCEPT ![b] =
                     [t \in DOMAIN held |->
                        [glyph |-> held[t],
                         version |-> IF held[t] \in fetched
                                     THEN server[b][held[t]] ELSE None]]]
  /\ rec' = [rec EXCEPT !.next = @ + 1]
  /\ UNCHANGED <<server, built, registry, registered_tools, registered_schemas,
                 quiet>>

\* bridge.sync: names for the whole lexicon, bindings for the cards that could
\* be fetched.
Sync ==
  /\ rec.pc = "sync" /\ rec.next \in DOMAIN Servers
  /\ LET b == Servers[rec.next]
         lexicon == {g \in Offered[b] : server[b][g] # None}
         names == AssignToolNames(b, lexicon)
     IN  /\ b \in built
         /\ \E fetched \in SUBSET lexicon :
              /\ known' = [known EXCEPT ![b] = [g \in fetched |-> names[g]]]
              /\ \E held \in Holdings(names, fetched) :
                   bindings' = [bindings EXCEPT ![b] =
                     [t \in DOMAIN held |->
                        [glyph |-> held[t], version |-> server[b][held[t]]]]]
  /\ rec' = [rec EXCEPT !.next = @ + 1]
  /\ UNCHANGED <<server, built, registry, registered_tools, registered_schemas,
                 quiet>>

\* Mutant: a bridge that cannot sync has no tools.
SyncFails_Clears ==
  /\ rec.pc = "sync" /\ rec.next \in DOMAIN Servers
  /\ Servers[rec.next] \in built
  /\ bindings' = [bindings EXCEPT ![Servers[rec.next]] = Empty]
  /\ rec' = [rec EXCEPT !.next = @ + 1]
  /\ UNCHANGED <<server, built, registry, registered_tools, registered_schemas,
                 known, quiet>>

\* The handshake failed or the sync raised: the old bindings stay.
SyncFails ==
  /\ rec.pc = "sync" /\ rec.next \in DOMAIN Servers
  /\ Servers[rec.next] \in built
  /\ rec' = [rec EXCEPT !.next = @ + 1]
  /\ UNCHANGED <<server, built, bindings, registry, registered_tools,
                 registered_schemas, known, quiet>>

----------------------------------------------------------------------------
(* reconcile, and register_tools, which is a reconcile of an empty         *)
(* registry.                                                               *)

Holders(t) == {i \in DOMAIN Servers :
                 Servers[i] \in built /\ t \in DOMAIN bindings[Servers[i]]}
Bound == {t \in ToolName : Holders(t) # {}}

\* all_bindings: of two bridges with the same tool name the last one counts.
Owner(t) == Servers[CHOOSE i \in Holders(t) : \A j \in Holders(t) : j <= i]
\* find_bridge_for_tool: the first one counts.
FindBridge(t) == Servers[CHOOSE i \in Holders(t) : \A j \in Holders(t) : i <= j]

\* card_to_schema: the description names the alias.
Schema(t) == [alias |-> Owner(t), version |-> bindings[Owner(t)][t].version]

Reconcile ==
  /\ rec.pc = "idle"
  /\ rec' = [rec EXCEPT !.pc = "sync"]
  /\ quiet' = TRUE
  /\ UNCHANGED <<server, built, bindings, registry, registered_tools,
                 registered_schemas, known>>

Diff ==
  /\ rec.pc = "sync" /\ rec.next \notin DOMAIN Servers
  /\ rec' = [AtRest EXCEPT !.pc = "apply",
               !.added = Bound \ registered_tools,
               !.kept = Bound \intersect registered_tools,
               !.removed = registered_tools \ Bound]
  /\ UNCHANGED <<server, built, bindings, registry, registered_tools,
                 registered_schemas, known, quiet>>

Done(t) == [rec EXCEPT !.added = @ \ {t}, !.kept = @ \ {t}, !.removed = @ \ {t},
                       !.tool = None, !.schema = None]

\* Mutant: compares the cards and not the schemas made of them.
Prepare_ComparesCards(t) ==
  /\ rec.pc = "apply" /\ rec.tool = None
  /\ t \in rec.added \/ (rec.added = {} /\ t \in rec.kept)
  /\ rec' = IF t \in rec.kept /\ registered_schemas[t].version = Schema(t).version
            THEN Done(t)
            ELSE [rec EXCEPT !.tool = t, !.schema = Schema(t)]
  /\ UNCHANGED <<server, built, bindings, registry, registered_tools,
                 registered_schemas, known, quiet>>

\* Makes the schema of a new tool, then of a kept one, which is left alone if
\* it has that schema already.
Prepare(t) ==
  /\ rec.pc = "apply" /\ rec.tool = None
  /\ t \in rec.added \/ (rec.added = {} /\ t \in rec.kept)
  /\ rec' = IF t \in rec.kept /\ registered_schemas[t] = Schema(t)
            THEN Done(t)
            ELSE [rec EXCEPT !.tool = t, !.schema = Schema(t)]
  /\ UNCHANGED <<server, built, bindings, registry, registered_tools,
                 registered_schemas, known, quiet>>

\* Mutant: a re-registered tool's schema is not recorded.
Register_KeptUnrecorded ==
  /\ rec.pc = "apply" /\ rec.tool # None
  /\ registry' = Put(registry, rec.tool, rec.schema)
  /\ registered_tools' = registered_tools \union {rec.tool}
  /\ registered_schemas' = IF rec.tool \in rec.kept THEN registered_schemas
                           ELSE Put(registered_schemas, rec.tool, rec.schema)
  /\ rec' = Done(rec.tool)
  /\ UNCHANGED <<server, built, bindings, known, quiet>>

\* register_tool_dynamic and the record of its success.
Register ==
  /\ rec.pc = "apply" /\ rec.tool # None
  /\ registry' = Put(registry, rec.tool, rec.schema)
  /\ registered_tools' = registered_tools \union {rec.tool}
  /\ registered_schemas' = Put(registered_schemas, rec.tool, rec.schema)
  /\ rec' = Done(rec.tool)
  /\ UNCHANGED <<server, built, bindings, known, quiet>>

RegisterFails ==
  /\ rec.pc = "apply" /\ rec.tool # None
  /\ rec' = Done(rec.tool)
  /\ quiet' = FALSE
  /\ UNCHANGED <<server, built, bindings, registry, registered_tools,
                 registered_schemas, known>>

Deregister(t) ==
  /\ rec.pc = "apply" /\ rec.added = {} /\ rec.kept = {}
  /\ t \in rec.removed
  /\ registry' = Pop(registry, t)
  /\ registered_tools' = registered_tools \ {t}
  /\ registered_schemas' = Pop(registered_schemas, t)
  /\ rec' = Done(t)
  /\ UNCHANGED <<server, built, bindings, known, quiet>>

DeregisterFails(t) ==
  /\ rec.pc = "apply" /\ rec.added = {} /\ rec.kept = {}
  /\ t \in rec.removed
  /\ rec' = Done(t)
  /\ quiet' = FALSE
  /\ UNCHANGED <<server, built, bindings, registry, registered_tools,
                 registered_schemas, known>>

Finish ==
  /\ rec.pc = "apply"
  /\ rec.added = {} /\ rec.kept = {} /\ rec.removed = {}
  /\ rec' = AtRest
  /\ UNCHANGED <<server, built, bindings, registry, registered_tools,
                 registered_schemas, known, quiet>>

----------------------------------------------------------------------------
(* `/glyph trust', and the servers.                                        *)

\* trust_tool puts the parked card, of any version, into the binding.
Trust(t, v) ==
  /\ t \in Bound /\ bindings[FindBridge(t)][t].version # v
  /\ bindings' = [bindings EXCEPT ![FindBridge(t)][t].version = v]
  /\ quiet' = FALSE
  /\ UNCHANGED <<server, built, registry, registered_tools, registered_schemas,
                 rec, known>>

Deploy(b, g, v) ==
  /\ g \in Offered[b] /\ server[b][g] # v
  /\ server' = [server EXCEPT ![b][g] = v]
  /\ UNCHANGED <<built, bindings, registry, registered_tools,
                 registered_schemas, rec, known, quiet>>

----------------------------------------------------------------------------
\* register(ctx): the bridges are built, then synced for the first time.
Init ==
  /\ server \in [Alias -> [Glyph -> Version \union {None}]]
  /\ \A b \in Alias : \A g \in Glyph \ Offered[b] : server[b][g] = None
  /\ built \in SUBSET Alias
  /\ bindings = [b \in Alias |-> Empty]
  /\ registry = Empty
  /\ registered_tools = {}
  /\ registered_schemas = Empty
  /\ rec = [AtRest EXCEPT !.pc = "sync"]
  /\ known = [b \in Alias |-> Empty]
  /\ quiet = TRUE

Next ==
  \/ Reconcile \/ Skip \/ Sync \/ SyncFails \/ Diff
  \/ Register \/ RegisterFails \/ Finish
  \/ \E t \in ToolName :
       \/ Prepare(t) \/ Deregister(t) \/ DeregisterFails(t)
       \/ \E v \in Version : Trust(t, v)
  \/ \E b \in Alias, g \in Glyph, v \in Version \union {None} : Deploy(b, g, v)

Spec == Init /\ [][Next]_vars

----------------------------------------------------------------------------
(* Properties.                                                             *)

Schemas == [alias : Alias, version : Version]

TypeOK ==
  /\ server \in [Alias -> [Glyph -> Version \union {None}]]
  /\ built \subseteq Alias
  /\ \A b \in Alias : /\ DOMAIN bindings[b] \subseteq ToolName
                      /\ \A t \in DOMAIN bindings[b] : bindings[b][t] \in Binding
  /\ registered_tools \subseteq ToolName
  /\ rec.pc \in {"idle", "sync", "apply"}
  /\ rec.next \in 1..Len(Servers) + 1
  /\ rec.added \union rec.kept \union rec.removed \subseteq ToolName
  /\ rec.tool # None => rec.tool \in rec.added \union rec.kept /\ rec.schema \in Schemas
  /\ quiet \in BOOLEAN

\* What the runtime believes to be registered is what Hermes has, name by name
\* and schema by schema, at any moment and whatever failed: the comparison that
\* skips a re-registration rests on it.
RegistryRecorded ==
  /\ registered_tools = DOMAIN registry
  /\ registered_schemas = registry

\* After a reconcile in which no registry operation failed, and until an
\* operator replaces a binding, the model sees exactly the tools that are
\* bound, each with the schema of the card its handler enforces
\* (test_resync.py: "the schema Hermes shows the model has to match the card
\* the handler enforces").
InStep ==
  rec.pc = "idle" /\ quiet =>
    registry = [t \in Bound |-> Schema(t)]

\* InStep made inductive: while the registry is brought in step, what is left
\* to do is exactly what is not in step yet.
Progress ==
  rec.pc = "apply" /\ quiet =>
    /\ rec.added = Bound \ DOMAIN registry
    /\ rec.kept \subseteq Bound \intersect DOMAIN registry
    /\ rec.removed = DOMAIN registry \ Bound
    /\ \A t \in (Bound \intersect DOMAIN registry) \ rec.kept : registry[t] = Schema(t)
    /\ rec.tool # None =>
         rec.tool \in rec.added \union rec.kept /\ rec.schema = Schema(rec.tool)

\* No other glyph of the server is called what another's name and digest make.
Unmistakable(b, g) ==
  \A h \in Offered[b] \ {g} :
    Suffixed[b][g] \notin {Plain[b][h], Suffixed[b][h]} /\ Suffixed[b][h] # Plain[b][g]

\* Every card the last successful sync of a bridge got has left a binding of
\* its tool name, which a failed sync does not take away, and that binding is
\* of its own glyph: no glyph shadows another ("one would silently shadow the
\* other") unless one is called what a digest was to keep apart from it.
NoShadow ==
  \A b \in Alias, g \in Glyph :
    g \in DOMAIN known[b] =>
      /\ known[b][g] \in DOMAIN bindings[b]
      /\ Unmistakable(b, g) => bindings[b][known[b][g]].glyph = g

\* A tool disappears from the model's list only if no bridge got a card for it
\* in its last successful sync ("a sync failure must NOT wipe registered tools
\* (stale > gone)").
StaleNotGone ==
  [][\A t \in DOMAIN registry \ DOMAIN registry' :
       \A b \in built, g \in Glyph : g \in DOMAIN known[b] => known[b][g] # t]_vars

\* What the code does not give: names unique in a lexicon (assign_tool_names:
\* "unique sanitized tool name for one lexicon").  It fails with the glyphs a-b,
\* a.b and a_b_ followed by the digest of a.b, and no run checks it.
NamesUnique ==
  \A b \in Alias : \A lexicon \in SUBSET Offered[b] : \A g, h \in lexicon :
    AssignToolNames(b, lexicon)[g] = AssignToolNames(b, lexicon)[h] => g = h

\* What the code does not give: `/glyph trust' and `/glyph revoke' of a tool act
\* on the bridge whose handler runs when the model calls that tool (README:
\* "/glyph revoke <tool> [reason] | block immediately").  It fails when two
\* aliases offer one tool name, and no run checks it.
CommandsReachTool ==
  rec.pc = "idle" /\ quiet =>
    \A t \in DOMAIN registry : FindBridge(t) = registry[t].alias
=============================================================================
