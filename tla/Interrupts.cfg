\* Three tasks; slices of four and two ticks.
SPECIFICATION IntrSpec
CONSTANTS
  Slots = {init, t1, t2}
  init = init
  IDMAP_MAX = 3
  _DEFAULT_TICKS = 4
PROPERTIES TicksCounted KeyTaken RunsWhenRegistered
