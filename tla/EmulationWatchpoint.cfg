\* A watchpoint stops the debugger inside GB_cpu_run.
CONSTANTS
    Breakpoints = TRUE
    Console = FALSE
    Interrupts = FALSE
    BorderChanges = FALSE
    MaxInput = 1
SPECIFICATION Spec
PROPERTY BlocksOutsideRunningContext
CHECK_DEADLOCK FALSE
