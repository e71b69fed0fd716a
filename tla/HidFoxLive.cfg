SPECIFICATION FairSpec
CONSTANTS
    Injected = Injected
    Content = Content
    Background = Background
    Native = Native
    Popup = Popup
    Address = {Injected, Content, Background, Native, Popup}
    Direct = Direct
    None = None
    Rtt = {50}
    MaxRequests = 1
    MaxPlugs = 1
    Timeouts = FALSE
    PopupFails = TRUE
    Dismisses = TRUE
PROPERTIES CallReturns WatcherConverges
CHECK_DEADLOCK FALSE
