SPECIFICATION Spec
CONSTANTS
 MaxSockets = 3
 MaxFaults = 2
 MaxWaiting = 2
 Devices = {d1, d2}
 HubDevices = {d1}
 MaxRequests = 2
 MaxMishaps = 1
 MaxHandles = 2
 MaxSocks = 3
 MaxChanges = 2
 MaxHiccups = 1
 MaxSummaries = 3
 MaxReads = 2
 MaxPolls = 2
 MaxSlips = 1
INVARIANTS LinksTypeOK PicturesAreTrue
PROPERTIES GatewayIsShown CatalogShownAgrees HaLinkComesBack RunPageSettles
CHECK_DEADLOCK FALSE
