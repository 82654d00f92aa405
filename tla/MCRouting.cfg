SPECIFICATION Spec
CONSTANTS
    Lines <- Ordinary
    MaxLines = 1
    Base <- Own

    
PROPERTIES
    RoundTrip
    NothingLost
    RoutesAsTyped
