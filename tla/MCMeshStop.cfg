\* Two callers of one agent, and Stop.
SPECIFICATION MeshSpec
CONSTANTS
    Callers = {c1, c2}
    Roles = {r1}
    NoRole = none
    MaxRpcs = 2
    Launches = {"server"}
CHECK_DEADLOCK FALSE
PROPERTY MeshDrains
