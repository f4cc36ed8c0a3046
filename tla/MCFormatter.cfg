CONSTANTS
  i1 = i1
  i2 = i2
  i3 = i3
  formatter1 = formatter1
  formatter2 = formatter2
  gone = gone
  text = text
  blank = blank
  Inner <- MCInner
  Sources <- MCSources
  Unreadable = gone
  Blank = blank
  SizeModulus = 64
  Formatters <- MCFormatters
  Impls <- MCImpls
  Traces <- MCTraces
  Symbols <- MCSymbols
  Pruned <- prune_symbol
  Contexts <- MCContexts
  Wanted <- MCKeep
  Change <- MCChange
  Terminals = {"cout"}
  NullImpl = NullImpl
  NoFile = NoFile
  NoLine = NoLine
  MaxCalls = 3
SPECIFICATION FormatterSpec
SYMMETRY Symmetry
INVARIANT FormattersOwnTheirImpls
INVARIANT TraceIsPrinted
INVARIANT SnippetIsSmallestWindow
INVARIANT PrunedNameIsRight
CHECK_DEADLOCK FALSE
