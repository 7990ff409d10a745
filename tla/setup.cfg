CONSTANTS
  Documents <- Indented
  Name = {"", "glyph", "plugins", "enabled", "model", "name", "temperature", "autoload", "other", "foo", "x"}
  NoFile = NoFile
  NoEdit = NoEdit
SPECIFICATION Spec
INVARIANTS TypeOK SettingsKept AnswersTrue ListedOnce OwnersTextSurvives
