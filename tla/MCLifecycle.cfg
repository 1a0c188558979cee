SPECIFICATION Spec
CONSTANTS
  AssertsOn = FALSE
  Fallible = {"pool_cond", "pool_mutex", "barrier", "pool", "rollback_lock",
    "next_lock", "epoch_list", "map", "table", "pmem", "cache", "store", "info_list",
    "info_index", "task", "thread_epoch", "item"}
INVARIANTS
  FlagsTell
  NoMisuse
PROPERTIES
  ExecRestores
