------------------------------ MODULE MCServices ------------------------------
(***************************************************************************)
(* Model checking of what surrounds the crews: the A2A client and node,    *)
(* the mesh, MCP, the dashboard with the engine it feeds, the event        *)
(* streams, the rate limiters, the life of the server process, the         *)
(* sandboxes and the ADK adapter.  They share nothing, so a behaviour      *)
(* exercises one of them and the state spaces add up.                      *)
(***************************************************************************)
EXTENDS A2a, Mesh, Mcp, CreatorMode, EventStreams, RateLimits, ServerLifecycle, Sandbox, Adk

CONSTANTS s1, s2, c1, c2, p1, p2, i1, i2, k1, k2, j1, j2

VARIABLES part

Parts == {"a2a", "mesh", "mcp", "creator", "events", "rates", "life", "sandbox", "adk"}

(* One machine moves: that its two actors can be exchanged is enough.      *)
Swap ==
    [x \in {s1, s2, c1, c2, p1, p2, i1, i2, k1, k2, j1, j2} |->
        CASE x = s1 -> s2 [] x = s2 -> s1 [] x = c1 -> c2 [] x = c2 -> c1
          [] x = p1 -> p2 [] x = p2 -> p1 [] x = i1 -> i2 [] x = i2 -> i1
          [] x = k1 -> k2 [] x = k2 -> k1 [] x = j1 -> j2 [] x = j2 -> j1]
Symmetry == {Swap}

(* A machine that is not exercised has one initial state.                  *)
MCInit ==
    /\ part \in Parts
    /\ A2aInit /\ MeshInit /\ McpInit /\ CreatorInit /\ EventInit /\ RateInit /\ LifeInit
    /\ SandboxInit /\ AdkInit
    /\ part # "mesh" => launch = "server" /\ ~insecure
    /\ part # "mcp" => kind = "http" /\ owner = "app" /\ peer = "ours"
    /\ part # "events" => watched = [s \in Streams |-> CHOOSE x \in StreamSessions : TRUE]
    /\ part # "life" => tokens = "set"
    /\ part # "sandbox" => \A j \in Jobs : job[j].kind = "wasm" /\ job[j].bin = 1
    /\ part # "adk" => cores

(* The machine that is exercised takes a step, the others stay.            *)
MCNext ==
    /\ UNCHANGED part
    /\ \/ part = "a2a" /\ A2aNext
       \/ part # "a2a" /\ UNCHANGED a2aVars
    /\ \/ part = "mesh" /\ MeshNext
       \/ part # "mesh" /\ UNCHANGED meshVars
    /\ \/ part = "mcp" /\ McpNext
       \/ part # "mcp" /\ UNCHANGED mcpVars
    /\ \/ part = "creator" /\ CreatorNext
       \/ part # "creator" /\ UNCHANGED creatorVars
    /\ \/ part = "events" /\ EventNext
       \/ part # "events" /\ UNCHANGED eventVars
    /\ \/ part = "rates" /\ RateNext
       \/ part # "rates" /\ UNCHANGED rateVars
    /\ \/ part = "life" /\ LifeNext
       \/ part # "life" /\ UNCHANGED lifeVars
    /\ \/ part = "sandbox" /\ SandboxNext
       \/ part # "sandbox" /\ UNCHANGED sandboxVars
    /\ \/ part = "adk" /\ AdkNext
       \/ part # "adk" /\ UNCHANGED adkVars

MCSpec ==
    MCInit /\ [][MCNext]_<<part, a2aVars, meshVars, mcpVars, creatorVars, eventVars, rateVars,
                           lifeVars, sandboxVars, adkVars>>
=============================================================================
