SPECIFICATION FairSpec
CONSTANTS
  plugin = plugin
  seed = seed
  Fields = {plugin, seed}
  PluginField = plugin
  MaxWrites = 2
  MaxCli = 1
  Timeouts = TRUE
  ReadErrors = TRUE
INVARIANT SavedIsKept
INVARIANT SettleInOrder
PROPERTY WritesSettle
