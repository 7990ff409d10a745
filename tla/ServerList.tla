----------------------------- MODULE ServerList -----------------------------
(***************************************************************************)
(* The server list glyph.yaml (config.py): its owner edits it by hand, the *)
(* commands `hermes glyph add' and `remove' load it, change it and save it *)
(* whole, everything else only loads it.  Commands are processes of their  *)
(* own, take no lock, and can fail or die at any step.                     *)
(*                                                                         *)
(* A setting stands for one leaf of the policies: tofu.enabled,            *)
(* receipts.on_failure, attestation.require, timeout_seconds, ...          *)
(***************************************************************************)
EXTENDS Integers, Sequences, SequencesExt

CONSTANTS
  Alias,         \* well-formed server aliases
  BadAlias,      \* a string _ALIAS_RE does not match
  Url,           \* URLs without a trailing slash, "" among them
  Token,         \* bearer tokens
  Setting,       \* the settings of a server
  Value,         \* their valid values
  BadValue,      \* a value _policies_from refuses
  Unset,         \* a setting its owner did not write down
  BuiltIn,       \* _DEFAULTS
  FlagSetting,   \* the settings `add' has a flag for
  Process,       \* runs of the CLI
  NoFile,        \* glyph.yaml does not exist
  OwnerDocs,     \* what the owner may write
  MaxEdits       \* bound: edits by the owner

\* The lists load takes apart.
Doc ==
  [defaults : [Setting -> Value \union {BadValue, Unset}],
   servers : Seq([alias : Alias \union {BadAlias}, url : Url, token : Token,
                  settings : [Setting -> Value \union {BadValue, Unset}]])]

ASSUME ServerListAssumption ==
  /\ BadAlias \notin Alias /\ {BadValue, Unset} \cap Value = {} /\ BadValue # Unset
  /\ BuiltIn \in [Setting -> Value] /\ FlagSetting \subseteq Setting
  /\ OwnerDocs \subseteq Doc /\ NoFile \notin Doc /\ MaxEdits \in Nat

VARIABLES
  file,   \* glyph.yaml
  op,     \* the commands
  edits   \* number of edits by the owner

vars == <<file, op, edits>>

\* _policies_from refuses what is not one of the valid values.
Policy == [Setting -> Value]

Server == [alias : Alias, url : Url \ {""}, token : Token, policy : Policy]

----------------------------------------------------------------------------
(* Loading and saving.                                                     *)

\* _deep_merge.
Merge(base, over) == [s \in Setting |-> IF over[s] = Unset THEN base[s] ELSE over[s]]

Defaults(doc) == Merge(BuiltIn, doc.defaults)

ServerOf(doc, e) ==
  [alias |-> e.alias, url |-> e.url, token |-> e.token,
   policy |-> Merge(Defaults(doc), e.settings)]

\* GlyphConfig.load refuses an alias, a blank URL, a policy, a duplicate.
Loads(doc) ==
  \/ doc = NoFile
  \/ /\ \A i \in DOMAIN doc.servers : ServerOf(doc, doc.servers[i]) \in Server
     /\ \A i, j \in DOMAIN doc.servers :
          doc.servers[i].alias = doc.servers[j].alias => i = j

Load(doc) ==
  IF doc = NoFile THEN [defaults |-> BuiltIn, servers |-> <<>>]
  ELSE [defaults |-> Defaults(doc),
        servers |-> [i \in DOMAIN doc.servers |-> ServerOf(doc, doc.servers[i])]]

Has(cfg, a) == \E i \in DOMAIN cfg.servers : cfg.servers[i].alias = a

add_server(cfg, server) == [cfg EXCEPT !.servers = Append(@, server)]

\* The servers of other aliases: load has refused a repeated alias, so that one
\* server goes.
remove_server(cfg, a) ==
  LET i == CHOOSE i \in DOMAIN cfg.servers : cfg.servers[i].alias = a
  IN  [cfg EXCEPT !.servers = RemoveAt(@, i)]

Entry(s, settings) ==
  [alias |-> s.alias, url |-> s.url, token |-> s.token, settings |-> settings]

\* Mutant: one setting is missing from the list save writes out.
Save_ForgetsOne(cfg) ==
  [defaults |-> cfg.defaults,
   servers |-> [i \in DOMAIN cfg.servers |-> Entry(cfg.servers[i],
     [cfg.servers[i].policy EXCEPT ![CHOOSE s \in Setting : TRUE] = Unset])]]

\* Mutant: what a server does not differ in from the defaults is not written.
Save_OmitsDefaults(cfg) ==
  [defaults |-> cfg.defaults,
   servers |-> [i \in DOMAIN cfg.servers |-> Entry(cfg.servers[i],
     [s \in Setting |-> IF cfg.servers[i].policy[s] = BuiltIn[s] THEN Unset
                        ELSE cfg.servers[i].policy[s]])]]

\* GlyphConfig.save: every setting of every server is written out.
Save(cfg) ==
  [defaults |-> cfg.defaults,
   servers |-> [i \in DOMAIN cfg.servers |-> Entry(cfg.servers[i], cfg.servers[i].policy)]]

----------------------------------------------------------------------------
(* The commands.  asked is the server to add or the alias to remove; base, *)
(* a history, is the file as the command read it.                          *)

NewOp == [pc |-> "new", asked |-> <<>>, base |-> NoFile, next |-> NoFile, exit |-> ""]

Exit(p, code) == op' = [op EXCEPT ![p] = [NewOp EXCEPT !.pc = "done", !.exit = code]]

\* The config is saved next.
GoWrite(p, asked, cfg) ==
  op' = [op EXCEPT ![p] = [NewOp EXCEPT !.pc = "write", !.asked = asked,
                                        !.base = file, !.next = Save(cfg)]]

\* The server `add' is asked for: built-in settings, but for the flags.
NewServer(a, u, t, flags) ==
  [alias |-> a, url |-> u, token |-> t, policy |-> Merge(BuiltIn, flags)]

\* Mutant: an alias already there is added a second time.
AddServer_Again(p, a, u, t, flags) ==
  LET server == NewServer(a, u, t, flags)
  IN  /\ op[p].pc = "new"
      /\ IF ~Loads(file) \/ a = BadAlias THEN Exit(p, "2")
         ELSE GoWrite(p, <<"add", server>>, add_server(Load(file), server))
      /\ UNCHANGED <<file, edits>>

\* `hermes glyph add': the URL is not looked at.
AddServer(p, a, u, t, flags) ==
  LET server == NewServer(a, u, t, flags)
  IN  /\ op[p].pc = "new"
      /\ IF ~Loads(file) \/ a = BadAlias \/ Has(Load(file), a) THEN Exit(p, "2")
         ELSE GoWrite(p, <<"add", server>>, add_server(Load(file), server))
      /\ UNCHANGED <<file, edits>>

RemoveServer(p, a) ==
  /\ op[p].pc = "new"
  /\ IF ~Loads(file) THEN Exit(p, "2")
     ELSE IF ~Has(Load(file), a) THEN Exit(p, "1")
     ELSE GoWrite(p, <<"remove", a>>, remove_server(Load(file), a))
  /\ UNCHANGED <<file, edits>>

\* `list', `sync', `trust', `audit', `call': load, and 2 if that fails.
Read(p) ==
  /\ op[p].pc = "new"
  /\ Exit(p, IF Loads(file) THEN "read" ELSE "2")
  /\ UNCHANGED <<file, edits>>

\* Mutant: the file itself is opened for writing, which empties it.
WriteTemp_InPlace(p) ==
  /\ op[p].pc = "write"
  /\ op' = [op EXCEPT ![p].pc = "replace"]
  /\ file' = [defaults |-> [s \in Setting |-> Unset], servers |-> <<>>]
  /\ UNCHANGED edits

\* mkstemp and safe_dump: a temporary file of the command's own.
WriteTemp(p) ==
  /\ op[p].pc = "write"
  /\ op' = [op EXCEPT ![p].pc = "replace"]
  /\ UNCHANGED <<file, edits>>

\* os.replace, and the command is done.
Replace(p) ==
  /\ op[p].pc = "replace"
  /\ file' = op[p].next
  /\ Exit(p, "0")
  /\ UNCHANGED edits

\* Either write fails, the temporary file is removed; or the process dies.
Fails(p) ==
  /\ op[p].pc \in {"write", "replace"}
  /\ Exit(p, "failed")
  /\ UNCHANGED <<file, edits>>

\* The owner saves the file from an editor.
Edit(doc) ==
  /\ edits < MaxEdits /\ doc # file
  /\ file' = doc
  /\ edits' = edits + 1
  /\ UNCHANGED op

----------------------------------------------------------------------------
Flags == {f \in [Setting -> Value \union {Unset}] :
            \A s \in Setting : f[s] # Unset <=> s \in FlagSetting}

Init ==
  /\ file \in OwnerDocs \union {NoFile}
  /\ op = [p \in Process |-> NewOp]
  /\ edits = 0

Next ==
  \/ \E p \in Process :
       \/ \E a \in Alias \union {BadAlias}, u \in Url, t \in Token, f \in Flags :
            AddServer(p, a, u, t, f)
       \/ \E a \in Alias : RemoveServer(p, a)
       \/ Read(p) \/ WriteTemp(p) \/ Replace(p) \/ Fails(p)
  \/ \E doc \in OwnerDocs : Edit(doc)

Spec == Init /\ [][Next]_vars

----------------------------------------------------------------------------
(* Properties.                                                             *)

\* What save writes: no setting is left open, and none of a server is one that
\* load would refuse (a refused default survives under servers overriding it).
Saved ==
  [defaults : [Setting -> Value \union {BadValue}],
   servers : Seq([alias : Alias, url : Url, token : Token,
                  settings : Policy])]

TypeOK ==
  /\ file \in Saved \union OwnerDocs \union {NoFile}
  /\ \A p \in Process :
       /\ op[p].pc \in {"new", "write", "replace", "done"}
       /\ op[p].exit \in {"", "0", "1", "2", "read", "failed"}
       /\ op[p].pc \in {"write", "replace"} => op[p].next \in Saved
  /\ edits \in 0..MaxEdits

\* The servers a file describes, in effect: what every load of it yields.
Effective(doc) == ToSet(Load(doc).servers)

\* The servers after a command did what it was asked to.
Asked(servers, asked) ==
  IF asked[1] = "add" THEN servers \union {asked[2]}
  ELSE {s \in servers : s.alias # asked[2]}

\* A URL of a new server that load would refuse.
Blank(asked) == asked[1] = "add" /\ asked[2].url = ""

\* What a command leaves behind is the file it read with the one server added
\* or removed and every setting of every other server as it was in effect,
\* bearer token included; and only a command that then reports success, or the
\* owner, changes the file.  (An update made after the command read the file
\* is lost: nothing detects that base is no longer the file.)
UpdatesAreExact ==
  [][file' # file =>
       \/ edits' # edits
       \/ \E p \in Process :
            /\ op[p].pc = "replace" /\ op'[p].exit = "0"
            /\ Blank(op[p].asked) \/
                 /\ Loads(file')
                 /\ Effective(file') = Asked(Effective(op[p].base), op[p].asked)
    ]_vars

\* No sequence of commands and failures turns a list that loads into one that
\* does not: load's ConfigError, which stops every command and the plugin, is
\* the owner's doing, or the blank URL `add' lets through.
LoadsOrOwners ==
  \/ Loads(file)
  \/ file \in OwnerDocs
  \/ \E i \in DOMAIN file.servers : file.servers[i].url = ""
=============================================================================
