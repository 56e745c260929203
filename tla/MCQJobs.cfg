\* Two events (that happen once, or every tick), two ticks of the clock.
CONSTANTS
  Threads = {"loop", "worker"}
  Uses <- MCUses
  Jobs = {1, 2}
  Dates = {0, 1}
  Periods = {0, 1}
  Never = Never
  MaxTime = 2
  MaxExtras = 1
  MaxFaults = 1
SPECIFICATION Spec
INVARIANTS
  RepeatsHaveAReason
PROPERTIES
  EveryEventRuns
