CONSTANTS
  Documents <- OneLine
  Name = {"", "glyph", "plugins", "enabled", "model", "name", "temperature", "autoload", "other", "foo", "x"}
  NoFile = NoFile
  NoEdit = NoEdit
SPECIFICATION Spec
INVARIANTS SettingsKept
