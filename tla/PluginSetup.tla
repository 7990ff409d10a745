---------------------------- MODULE PluginSetup ----------------------------
(***************************************************************************)
(* `glyphp-hermes enable' and `disable' (setup.py): put the plugin on, and *)
(* take it off, the list plugins.enabled of Hermes' config.yaml.           *)
(*                                                                         *)
(* A file is a sequence of lines: keys, list items and comments, with      *)
(* their indentation.  What it says to a YAML reader (Valid, Load) and     *)
(* what a YAML writer makes of that (Dump) is external; the edits are made *)
(* on the lines.  The owner of the file may edit it at any moment and a    *)
(* command may die at any step.                                            *)
(***************************************************************************)
EXTENDS Integers, FiniteSets, SequencesExt

CONSTANTS
  Name,        \* names of keys and of items
  Documents,   \* the texts the owner may give the file
  NoFile,      \* absence of a file
  NoEdit       \* the text has no place to edit

VARIABLES
  file, bak,   \* config.yaml and config.yaml.bak
  cmd,         \* the command under way: the text it read, the text it writes
  said,        \* the last command that ended, and its exit status
  user,        \* history: what the owner last made the file
  clean,       \* history: the owner has not edited under a running command
  dumped,      \* history: since the owner's edit a command re-serialized the file
  backups      \* history: how often a command backed it up since, up to
               \* MaxBackups

vars == <<file, bak, cmd, said, user, clean, dumped, backups>>

Glyph == "glyph"
MaxBackups == 2

----------------------------------------------------------------------------
(* Lines.  The value of a key stands on its line, or is Block: on the      *)
(* lines below it.                                                         *)

Block == [type |-> "block", items |-> <<>>]
Null == [type |-> "null", items |-> <<>>]
Scalar == [type |-> "scalar", items |-> <<>>]
Map == [type |-> "map", items |-> <<>>]
List(s) == [type |-> "list", items |-> s]

\* The values that stand on the line of a key.
LineValue == {Block, Null, Scalar} \union [type : {"list"}, items : Seq(Name)]
Line == [kind : {"key", "item", "note"}, ind : Nat, name : Name, value : LineValue]

ASSUME PluginSetupAssumption ==
  /\ {"", Glyph, "plugins", "enabled"} \subseteq Name
  /\ Documents \subseteq Seq(Line)
  /\ {NoFile, NoEdit} \cap Seq(Line) = {}

Key(ind, name, value) == [kind |-> "key", ind |-> ind, name |-> name, value |-> value]
Item(ind, name) == [kind |-> "item", ind |-> ind, name |-> name, value |-> Scalar]
Note(ind) == [kind |-> "note", ind |-> ind, name |-> "", value |-> Scalar]

IsKey(l) == l.kind = "key"
IsItem(l) == l.kind = "item"
IsNote(l) == l.kind = "note"
IsGlyphLine(l) == IsItem(l) /\ l.name = Glyph

\* The numbers of a finite set in ascending order.
Ascending(I) ==
  [k \in 1..Cardinality(I) |-> CHOOSE i \in I : Cardinality({j \in I : j <= i}) = k]

\* What stands at the places I of a sequence, in order.
Only(s, I) == LET at == Ascending(I) IN [k \in DOMAIN at |-> s[at[k]]]

----------------------------------------------------------------------------
(* YAML: what a text says.                                                 *)

Significant(doc) == Only(doc, {i \in DOMAIN doc : ~IsNote(doc[i])})

\* The line a line belongs under.  Items may stand as far left as their key.
Parent(L, i) ==
  Max({0} \union {j \in 1..i-1 : \/ L[j].ind < L[i].ind
                                 \/ L[j].ind = L[i].ind /\ IsKey(L[j]) /\ IsItem(L[i])})
Children(L, i) == {j \in DOMAIN L : Parent(L, j) = i}

Valid(doc) ==
  LET L == Significant(doc) IN
  \A i \in DOMAIN L :
    LET p == Parent(L, i) IN
    /\ p = 0 => IsKey(L[i])
    /\ p # 0 => IsKey(L[p]) /\ L[p].value = Block
    /\ \A j \in Children(L, p) : L[j].kind = L[i].kind /\ L[j].ind = L[i].ind

Names(L, I) == LET at == Ascending(I) IN [k \in DOMAIN at |-> L[at[k]].name]

\* The value on the lines below a key.
Below(L, i) ==
  LET items == {j \in Children(L, i) : IsItem(L[j])} IN
  IF Children(L, i) = {} THEN Null ELSE IF items = {} THEN Map ELSE List(Names(L, items))

\* The keys a key stands under, and itself.
Ancestors(L, i) == {j \in 1..i : \A k \in j+1..i : L[k].ind > L[j].ind}

\* The keys of a valid text in order, each with its path and its value.
Load(doc) ==
  LET L == Significant(doc)
      keys == Ascending({i \in DOMAIN L : IsKey(L[i])})
  IN  [n \in DOMAIN keys |->
         LET i == keys[n] IN
         [path |-> Names(L, Ancestors(L, i)),
          value |-> IF L[i].value = Block THEN Below(L, i) ELSE L[i].value]]

\* safe_dump: mappings indented by two, the items of a list not at all.
Dump(data) ==
  FlattenSeq([n \in DOMAIN data |->
    LET e == data[n]
        ind == 2 * (Len(e.path) - 1)
        listed == e.value.type = "list" /\ e.value.items # <<>>
    IN  <<Key(ind, Last(e.path), IF listed \/ e.value = Map THEN Block ELSE e.value)>>
        \o IF listed THEN [k \in DOMAIN e.value.items |-> Item(ind, e.value.items[k])]
           ELSE <<>>])

----------------------------------------------------------------------------
(* The data.                                                               *)

Plugins == <<"plugins">>
Enabled == <<"plugins", "enabled">>

Has(data, path) == \E n \in DOMAIN data : data[n].path = path
At(data, path) == data[CHOOSE n \in DOMAIN data : data[n].path = path].value
Set(data, path, value) ==
  [n \in DOMAIN data |-> IF data[n].path = path THEN [path |-> path, value |-> value]
                         ELSE data[n]]

EnabledList(data) == IF Has(data, Enabled) THEN At(data, Enabled).items ELSE <<>>

\* A list that names glyph; whatever plugins and enabled were if not a mapping
\* and a list gives way.
WithGlyph(data) ==
  LET list == List(Append(EnabledList(data), Glyph))
      others == Only(data, {n \in DOMAIN data : data[n].path = Enabled
                                                 \/ ~IsPrefix(Enabled, data[n].path)})
      end == Max({n \in DOMAIN data : IsPrefix(Plugins, data[n].path)})
  IN  Set(IF Has(data, Enabled) THEN Set(others, Enabled, list)
          ELSE InsertAt(data, end + 1, [path |-> Enabled, value |-> list]),
          Plugins, Map)

Unlisted(list) == Only(list, {i \in DOMAIN list : list[i] # Glyph})

\* Mutant: the list is copied as it is.
WithoutGlyph_Copies(data) == Set(data, Enabled, List(EnabledList(data)))

WithoutGlyph(data) == Set(data, Enabled, List(Unlisted(EnabledList(data))))

----------------------------------------------------------------------------
(* The edits on the lines.                                                 *)

AppendPluginsBlock(doc) ==
  doc \o <<Key(0, "plugins", Block), Key(2, "enabled", Block), Item(4, Glyph)>>

\* The lines after line i, up to the first one indented no deeper than ind.
Region(doc, i, ind) ==
  {j \in i+1..Len(doc) : ~IsNote(doc[j]) /\
     \A k \in i+1..j : ~IsNote(doc[k]) => doc[k].ind > ind}

\* Mutant: the comments are lost with the lines that are skipped.
InsertIntoEnabled_Significant(doc) ==
  LET L == Significant(doc)
      plugins == {i \in DOMAIN L : IsKey(L[i]) /\ L[i].ind = 0
                                     /\ L[i].name = "plugins" /\ L[i].value = Block}
      enabled == {i \in Region(L, Min(plugins), 0) :
                    IsKey(L[i]) /\ L[i].name = "enabled"}
      e == Min(enabled)
      body == Region(L, e, L[e].ind)
  IN  IF plugins = {} \/ enabled = {} THEN NoEdit
      ELSE IF L[e].value # Block \/ \E i \in body : ~IsItem(L[i]) THEN NoEdit
      ELSE InsertAt(L, Max(body \union {e}) + 1,
                    Item(IF body = {} THEN L[e].ind + 2 ELSE L[Min(body)].ind, Glyph))

\* After the last item of the first `enabled:' below `plugins:', as deep as
\* its first item.
InsertIntoEnabled(doc) ==
  LET plugins == {i \in DOMAIN doc : IsKey(doc[i]) /\ doc[i].ind = 0
                                     /\ doc[i].name = "plugins" /\ doc[i].value = Block}
      enabled == {i \in Region(doc, Min(plugins), 0) :
                    IsKey(doc[i]) /\ doc[i].name = "enabled"}
      e == Min(enabled)
      body == Region(doc, e, doc[e].ind)
  IN  IF plugins = {} \/ enabled = {} THEN NoEdit
      ELSE IF doc[e].value # Block \/ \E i \in body : ~IsItem(doc[i]) THEN NoEdit
      ELSE InsertAt(doc, Max(body \union {e}) + 1,
                    Item(IF body = {} THEN doc[e].ind + 2 ELSE doc[Min(body)].ind, Glyph))

NoGlyph(doc) == Only(doc, {i \in DOMAIN doc : ~IsGlyphLine(doc[i])})

\* Mutant: every item of the list goes.
RemoveGlyphLine_AnyItem(doc) ==
  IF \E i \in DOMAIN doc : IsGlyphLine(doc[i])
  THEN Only(doc, {i \in DOMAIN doc : ~IsItem(doc[i])}) ELSE NoEdit

RemoveGlyphLine(doc) ==
  IF \E i \in DOMAIN doc : IsGlyphLine(doc[i]) THEN NoGlyph(doc) ELSE NoEdit

----------------------------------------------------------------------------
(* The commands.                                                           *)

Idle == [pc |-> "idle", op |-> "none", text |-> NoFile, new |-> NoEdit]
Nothing == [op |-> "none", status |-> 0]

\* A missing file is created by enable and left missing by disable.
Create ==
  /\ cmd.pc = "idle" /\ file = NoFile
  /\ cmd' = [Idle EXCEPT !.pc = "write", !.op = "enable",
                         !.new = AppendPluginsBlock(<<>>)]
  /\ said' = Nothing
  /\ UNCHANGED <<file, bak, user, clean, dumped, backups>>

\* Not a YAML file: left alone, exit status 2.
Refuse(op) ==
  /\ cmd.pc = "idle" /\ file # NoFile /\ ~Valid(file)
  /\ said' = [op |-> op, status |-> 2]
  /\ UNCHANGED <<file, bak, cmd, user, clean, dumped, backups>>

Listed(doc) == Contains(EnabledList(Load(doc)), Glyph)

\* The list is already as the operator wants it.
NothingToDo(op) ==
  /\ cmd.pc = "idle"
  /\ IF file = NoFile THEN op = "disable"
     ELSE Valid(file) /\ (Listed(file) <=> op = "enable")
  /\ said' = [op |-> op, status |-> 0]
  /\ UNCHANGED <<file, bak, cmd, user, clean, dumped, backups>>

\* Mutant: does not look whether glyph is listed.
Enable_Unasked ==
  /\ cmd.pc = "idle" /\ file # NoFile /\ Valid(file)
  /\ cmd' = [Idle EXCEPT !.pc = "backup", !.op = "enable", !.text = file]
  /\ said' = Nothing
  /\ UNCHANGED <<file, bak, user, clean, dumped, backups>>

Enable ==
  /\ cmd.pc = "idle" /\ file # NoFile /\ Valid(file) /\ ~Listed(file)
  /\ cmd' = [Idle EXCEPT !.pc = "backup", !.op = "enable", !.text = file]
  /\ said' = Nothing
  /\ UNCHANGED <<file, bak, user, clean, dumped, backups>>

Disable ==
  /\ cmd.pc = "idle" /\ file # NoFile /\ Valid(file) /\ Listed(file)
  /\ cmd' = [Idle EXCEPT !.pc = "backup", !.op = "disable", !.text = file]
  /\ said' = Nothing
  /\ UNCHANGED <<file, bak, user, clean, dumped, backups>>

\* Mutant: enable does not fall back to re-serializing.
Edited_NoFallback(op, doc) ==
  LET data == Load(doc) IN
  IF op = "disable"
  THEN IF RemoveGlyphLine(doc) # NoEdit THEN RemoveGlyphLine(doc)
       ELSE Dump(WithoutGlyph(data))
  ELSE IF ~Has(data, Plugins) THEN AppendPluginsBlock(doc)
  ELSE InsertIntoEnabled(doc)

\* The new text: the lines edited, or the data changed and re-serialized.
Edited(op, doc) ==
  LET data == Load(doc) IN
  IF op = "disable"
  THEN IF RemoveGlyphLine(doc) # NoEdit THEN RemoveGlyphLine(doc)
       ELSE Dump(WithoutGlyph(data))
  ELSE IF ~Has(data, Plugins) THEN AppendPluginsBlock(doc)
  ELSE IF InsertIntoEnabled(doc) # NoEdit THEN InsertIntoEnabled(doc)
  ELSE Dump(WithGlyph(data))

Reserializes(op, doc) ==
  IF op = "disable" THEN RemoveGlyphLine(doc) = NoEdit
  ELSE Has(Load(doc), Plugins) /\ InsertIntoEnabled(doc) = NoEdit

\* Copies the file as it is now, and makes the new text of the one read.
Backup ==
  /\ cmd.pc = "backup"
  /\ bak' = file
  /\ backups' = IF backups < MaxBackups THEN backups + 1 ELSE backups
  /\ cmd' = [cmd EXCEPT !.pc = "write", !.new = Edited(cmd.op, cmd.text)]
  /\ UNCHANGED <<file, said, user, clean, dumped>>

\* _atomic_write.  Enable reads the file once more after it.
Write ==
  /\ cmd.pc = "write"
  /\ file' = cmd.new
  /\ dumped' = (dumped \/ (cmd.text # NoFile /\ Reserializes(cmd.op, cmd.text)))
  /\ IF cmd.op = "enable" /\ cmd.text # NoFile
     THEN cmd' = [cmd EXCEPT !.pc = "check"] /\ UNCHANGED said
     ELSE cmd' = Idle /\ said' = [op |-> cmd.op, status |-> 0]
  /\ UNCHANGED <<bak, user, clean, backups>>

\* A text that does not load raises: the command ends without an answer.
Check ==
  /\ cmd.pc = "check"
  /\ said' = IF Valid(file)
             THEN [op |-> "enable", status |-> IF Listed(file) THEN 0 ELSE 1]
             ELSE Nothing
  /\ cmd' = Idle
  /\ UNCHANGED <<file, bak, user, clean, dumped, backups>>

Crash ==
  /\ cmd.pc # "idle"
  /\ cmd' = Idle
  /\ UNCHANGED <<file, bak, said, user, clean, dumped, backups>>

\* The owner, or Hermes, makes the file another one.
OwnerEdits(doc) ==
  /\ doc # file
  /\ file' = doc /\ user' = doc
  /\ clean' = (cmd.pc = "idle")
  /\ dumped' = FALSE /\ backups' = 0
  /\ said' = Nothing
  /\ UNCHANGED <<bak, cmd>>

Init ==
  /\ file \in Documents \union {NoFile}
  /\ bak = NoFile
  /\ cmd = Idle
  /\ said = Nothing
  /\ user = file
  /\ clean = TRUE /\ dumped = FALSE /\ backups = 0

Next ==
  \/ Create \/ Enable \/ Disable \/ Backup \/ Write \/ Check \/ Crash
  \/ \E op \in {"enable", "disable"} : Refuse(op) \/ NothingToDo(op)
  \/ \E doc \in Documents : OwnerEdits(doc)

Spec == Init /\ [][Next]_vars

----------------------------------------------------------------------------
(* Properties.                                                             *)

TypeOK ==
  /\ {file, bak} \subseteq Seq(Line) \union {NoFile}
  /\ cmd.pc \in {"idle", "backup", "write", "check"}
  /\ cmd.op \in {"none", "enable", "disable"}
  /\ cmd.pc \in {"write", "check"} => cmd.new \in Seq(Line)
  /\ said.op \in {"none", "enable", "disable"} /\ said.status \in 0..2
  /\ user \in Documents \union {NoFile}
  /\ clean \in BOOLEAN /\ dumped \in BOOLEAN /\ backups \in 0..MaxBackups

\* All a valid text says but for the key plugins itself and glyph on its list.
Settings(doc) ==
  LET data == IF doc = NoFile THEN <<>> ELSE Load(doc)
  IN  [values |-> {data[n] : n \in {m \in DOMAIN data :
                                      data[m].path \notin {Plugins, Enabled}}},
       enabled |-> Unlisted(EnabledList(data))]

\* Whatever sequence of commands is run or interrupted, the file stays
\* loadable and says what its owner wrote, glyph's place on plugins.enabled
\* aside; a file that is not YAML is not touched (README.md: enable "preserves
\* the rest of your config verbatim"; setup.py: "not modifying it").
SettingsKept ==
  clean =>
    IF user # NoFile /\ ~Valid(user) THEN file = user
    ELSE (file # NoFile => Valid(file)) /\ Settings(file) = Settings(user)

\* An exit status of 0 is the truth about the file: after enable glyph is on
\* the list, after disable it is not.
AnswersTrue ==
  clean /\ said.op # "none" /\ said.status = 0 =>
    IF file = NoFile THEN said.op = "disable"
    ELSE Valid(file) /\ (Listed(file) <=> said.op = "enable")

\* No sequence of commands lists glyph twice ("enable is idempotent").
ListedOnce ==
  file # NoFile /\ clean /\ Valid(file) =>
    \A i, j \in DOMAIN EnabledList(Load(file)) :
      EnabledList(Load(file))[i] = Glyph /\ EnabledList(Load(file))[j] = Glyph => i = j

OwnersLines(doc) == IF doc = NoFile THEN <<>> ELSE NoGlyph(doc)

\* The owner's lines, comments included, are all in the file until a command
\* re-serializes it; and a file that is no longer the owner's was backed up, as
\* the owner's text until the next command's backup (setup.py: "backs the config
\* up before touching it, and preserves the rest of the file verbatim").
OwnersTextSurvives ==
  clean =>
    /\ ~dumped => IsPrefix(OwnersLines(user), OwnersLines(file))
    /\ user # NoFile =>
         /\ backups = 1 => bak = user
         /\ file # user => backups > 0
=============================================================================
