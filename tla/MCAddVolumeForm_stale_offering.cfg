\* No change reaches the handler for the first option (none fired, or fired while line 132 fills the select, before line 136 binds it): the previous opening's offering decides &size.
CONSTANTS
    custom = custom
    fixed = fixed
    Offerings <- MCOfferings
    Customized <- MCCustomized
    First = fixed
    Null = Null
    InitialChange = FALSE
    MaxOpens = 3
SPECIFICATION Spec
\* After the last opening is closed nothing can happen.
CHECK_DEADLOCK FALSE
INVARIANT SizeIffCustomized
