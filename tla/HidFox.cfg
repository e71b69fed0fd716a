SPECIFICATION Spec
CONSTANTS
    Injected = Injected
    Content = Content
    Background = Background
    Native = Native
    Popup = Popup
    Address = {Injected, Content, Background, Native, Popup}
    Direct = Direct
    None = None
    Rtt = {50}
    MaxRequests = 2
    MaxPlugs = 0
    Timeouts = TRUE
    PopupFails = TRUE
    Dismisses = TRUE
INVARIANTS TypeOK NothingLost Converged OneAnswer ApprovedIsListed
CHECK_DEADLOCK FALSE
