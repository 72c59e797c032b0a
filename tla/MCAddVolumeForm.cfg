\* Openings, offering changes and submits, the framework firing change for the first option after line 136 binds the handler.
CONSTANTS
    custom = custom
    fixed = fixed
    Offerings <- MCOfferings
    Customized <- MCCustomized
    First = fixed
    Null = Null
    InitialChange = TRUE
    MaxOpens = 3
SPECIFICATION Spec
\* After the last opening is closed nothing can happen.
CHECK_DEADLOCK FALSE
INVARIANT SizeIffCustomized
