--------------------------- MODULE MCPluginSetup ---------------------------
(* Instances of PluginSetup for TLC. *)
EXTENDS PluginSetup

Model == Key(0, "model", Block)
ModelName == Key(2, "name", Scalar)
PluginsKey == Key(0, "plugins", Block)
EnabledKey(value) == Key(2, "enabled", value)

\* The texts of tests/test_setup.py and their neighbours, lists indented below
\* their key and no other plugin in a list on one line: no plugins; a list with
\* a comment, with a section after it, with glyph among others and with no item
\* yet; a plugins mapping without a list; plugins without a value; a list on one
\* line; and a text that is not YAML.
Indented ==
  { <<Note(0), Model, ModelName>>,
    <<PluginsKey, EnabledKey(Block), Note(4), Item(4, "other")>>,
    <<PluginsKey, EnabledKey(Block), Item(4, "other"), Note(0), Model, ModelName>>,
    <<PluginsKey, Key(2, "autoload", Scalar), EnabledKey(Block),
      Item(6, Glyph), Item(6, "other")>>,
    <<PluginsKey, EnabledKey(Block), Note(4)>>,
    <<PluginsKey, Note(2), Key(2, "autoload", Scalar), Model, ModelName>>,
    <<Key(0, "plugins", Null), Model, ModelName>>,
    <<PluginsKey, EnabledKey(List(<<Glyph>>)), Note(0)>>,
    <<Model, Key(4, "name", Scalar), Key(2, "temperature", Scalar)>> }

\* test_enable_handles_flow_style_via_rewrite.
OneLine == {<<PluginsKey, EnabledKey(List(<<"other">>))>>}

\* The list of the plugin's own foo comes first.
Nested == {<<PluginsKey, Key(2, "foo", Block), Key(4, "enabled", Block),
             Item(6, "x"), EnabledKey(Block), Item(4, "other")>>}
=============================================================================
