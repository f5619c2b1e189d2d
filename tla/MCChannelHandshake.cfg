SPECIFICATION Spec
CONSTANTS
    A = A
    B = B
    MaxConnection <- MCMaxConnection
    Offer <- MCOffer
    MaxChannel <- MCMaxChannel
INVARIANTS ConnectionsAgree ChannelsAgree
PROPERTIES ConfirmOpensBoth
CHECK_DEADLOCK FALSE
