SPECIFICATION Spec
CONSTANTS
    Text <- MCText
    Empty = ""
    Absent = Absent
    Atoi <- MCAtoi
    ParseBool <- MCParseBool
    RequestURI <- MCRequestURI
    DefaultKratos = "http://k"
    Environment <- MCEnvironment
    DotEnv <- MCDotEnv
\* The process is done with its configuration once it has loaded it.
CHECK_DEADLOCK FALSE
INVARIANTS
    TypeOK
    
PROPERTIES
    RefusedForCause
