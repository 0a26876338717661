\* One agent that starts the server itself, and a second caller.
SPECIFICATION McpSpec
CONSTANTS
    Agent = agent
    Clients = {agent, t1}
    MaxRequests = 5
    MaxTies = 1
    Transports = {"stdio"}
    Owners = {"new", "equip"}
CHECK_DEADLOCK FALSE
INVARIANT McpToolsUsable
