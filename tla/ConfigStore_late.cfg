SPECIFICATION Spec
CONSTANTS
  plugin = plugin
  seed = seed
  Fields = {plugin, seed}
  PluginField = plugin
  MaxWrites = 2
  MaxCli = 0
  Timeouts = TRUE
  ReadErrors = FALSE
INVARIANT CompletesBeforeNext
