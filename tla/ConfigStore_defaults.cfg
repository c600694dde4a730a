SPECIFICATION Spec
CONSTANTS
  plugin = plugin
  seed = seed
  Fields = {plugin, seed}
  PluginField = plugin
  MaxWrites = 1
  MaxCli = 0
  Timeouts = FALSE
  ReadErrors = TRUE
PROPERTY KeepsUnrelatedKeys
