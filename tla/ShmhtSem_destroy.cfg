CONSTANTS
  Procs = {p1, p2, p3}
  Destroyers = {p3}
SPECIFICATION Spec
PROPERTY NoEntryAfterDestroy
