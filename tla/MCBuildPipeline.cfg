CONSTANTS
  Suffixes = {"custom", "custom2"}
  Markers = {"M", "N"}
  Work = {"work"}
  Tag = "tag"
  Extensions <- MCExtensions
  Options <- MCOptions
  Occurs <- MCOccurs
SPECIFICATION Spec
INVARIANTS VerifiesWhatIsBuilt ExtensionsMatchBom
