SPECIFICATION Spec
CONSTANTS
    Injected = Injected
    Content = Content
    Background = Background
    Native = Native
    Popup = Popup
    Address = {Injected, Content, Background, Native, Popup}
    Direct = Direct
    None = None
    Rtt = {50}
    MaxRequests = 1
    MaxPlugs = 0
    Timeouts = FALSE
    PopupFails = FALSE
    Dismisses = FALSE
PROPERTIES CompletedAfterRefresh
