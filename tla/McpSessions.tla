---------------------------- MODULE McpSessions ----------------------------
(***************************************************************************)
(* The sessions of an MCP surface (mcp_server/): initialize mints one, a   *)
(* later request names it in a header, and the maps that say which         *)
(* versions and participants sessions have are locked one at a time, so    *)
(* concurrent requests of one session interleave between them.  Nothing    *)
(* is kept across a restart: a request that names an unknown session       *)
(* recovers it.  An event stream ends when the shutdown flag is raised or  *)
(* its sender is dropped, and takes the participant of its session with    *)
(* it; the events it carries are left out.                                 *)
(***************************************************************************)
EXTENDS Integers, FiniteSets, Functions

CONSTANTS
  Sessions, Calls,       \* session ids, and the requests under way
  Latest, NoHeader,      \* MCP_PROTOCOL_VERSION; versions are 1..Latest
  Assumed,               \* the version assumed when a request names none
  Participants, GrantOf, \* McpToolSurface::participant_grant
  Agents,                \* runtime agents, found by the port a request comes from
  AgentParticipant,      \* McpToolSurface::participant_for_runtime_agent, or None
  Join, SeatTools, WriterTools,  \* party_join; what the lesser grants open
  Requested,             \* requests: a tool, who calls through the tunnel, X-Proxy-Tool-Policy
  MaxBoots               \* bound on the server's starts

None == "none"

\* Grants are ordered, what a seat may call a map writer may call (map_writer_may_call asks
\* harness_seat_may_call unless a surface says more), and an agent has a participant or none.
ASSUME McpAssumption ==
  /\ SeatTools \subseteq WriterTools
  /\ \A p \in Participants : GrantOf[p] \in 0..3
  /\ \A a \in Agents : AgentParticipant[a] \in Participants \cup {None}

VARIABLES
  initialized, version, agents, participants,  \* the maps of McpServerState
  calls,       \* the requests under way, with what they have read and still need
  negotiated,  \* what initialize answered: the version header the client sends
  streams,     \* sessions with an open event stream
  shutdown,    \* the flag: running, raised, or its sender dropped
  boots,       \* starts of the server
  bindings     \* whom a request's session was bound to while the request was under way

sessionVars ==
  <<initialized, version, agents, participants, calls, negotiated, streams, shutdown, boots>>
mcpVars == <<sessionVars, bindings>>

NoCall == [at |-> "idle"]
EmptyMap == [s \in {} |-> None]
With(f, x, y) == [z \in DOMAIN f \cup {x} |-> IF z = x THEN y ELSE f[z]]
Lookup(f, x) == IF x \in DOMAIN f THEN f[x] ELSE None

McpInit ==
  /\ initialized = {} /\ version = EmptyMap
  /\ agents = EmptyMap /\ participants = EmptyMap
  /\ calls = [k \in Calls |-> NoCall]
  /\ negotiated = EmptyMap /\ streams = {}
  /\ shutdown = "running" /\ boots = 1
  /\ bindings = [k \in Calls |-> {}]
-----------------------------------------------------------------------------
\* grants, from least to most
Nothing == 0
Seat    == 1
Writer  == 2
Full    == 3

TunnelGrant(principal) ==
  CASE principal \in {"local", "account"} -> Full
    [] principal = "party"                -> Nothing
    [] OTHER                              -> Seat

RequestedGrant(policy) ==
  CASE policy = "seat" -> Seat [] policy = "writer" -> Writer [] OTHER -> Full

Narrowed(g, h) == IF g < h THEN g ELSE h

\* a lookup that fails grants a seat
ParticipantGrant(p, failed) ==
  CASE p = None -> Full [] p # None /\ failed -> Seat [] OTHER -> GrantOf[p]

WidestOf(principal, participant, policy) ==
  LET Wider(g, h) == IF g < h THEN h ELSE g IN
  Narrowed(TunnelGrant(principal), Wider(participant, RequestedGrant(policy)))

CombinedGrant(principal, participant, policy) ==
  Narrowed(Narrowed(TunnelGrant(principal), participant), RequestedGrant(policy))

GrantAllows(g, tool) ==
  CASE g = Full    -> TRUE
    [] g = Writer  -> tool \in WriterTools
    [] g = Seat    -> tool \in SeatTools
    [] g = Nothing -> FALSE
-----------------------------------------------------------------------------
\* initialize: the older of the two versions
Agreed(v) == IF v < Latest THEN v ELSE Latest

\* Nobody knows the new id before the answer, so record_initialized_session is one step.  A
\* client sends the version header with every later request or with none.
Initialize(s, v, sends, a, p) ==
  LET agreed == Agreed(v) IN
  /\ shutdown # "raised"
  /\ s \notin DOMAIN negotiated
  /\ initialized' = initialized \cup {s}
  /\ version' = With(version, s, agreed)
  /\ agents' = IF a = None THEN agents ELSE With(agents, s, a)
  /\ participants' = IF p = None THEN participants ELSE With(participants, s, p)
  /\ negotiated' = With(negotiated, s, IF sends THEN agreed ELSE NoHeader)
  /\ UNCHANGED <<calls, streams, shutdown, boots>>

\* a request of a session: initialized_sessions is locked and the id inserted
Arrive(k, s, r, p) ==
  /\ shutdown # "raised"
  /\ calls[k] = NoCall /\ s \in DOMAIN negotiated
  /\ initialized' = initialized \cup {s}
  /\ calls' = [calls EXCEPT ![k] =
       [at |-> IF s \in initialized THEN "version" ELSE "recover", session |-> s,
        tool |-> r.tool, principal |-> r.principal, policy |-> r.policy, named |-> p,
        agent |-> None, participant |-> None, failed |-> FALSE, status |-> 0]]
  /\ UNCHANGED <<version, agents, participants, negotiated, streams, shutdown, boots>>

\* the recovered session has the version of the request, or the oldest one
Recovered(s) == IF negotiated[s] = NoHeader THEN Assumed ELSE negotiated[s]

StoresNone(s) == version
Recorded(s) == With(version, s, Recovered(s))

Recover(k) ==
  /\ calls[k].at = "recover"
  /\ version' = Recorded(calls[k].session)
  /\ calls' = [calls EXCEPT ![k].at = "version"]
  /\ UNCHANGED <<initialized, agents, participants, negotiated, streams, shutdown, boots>>

CheckVersion(k) ==
  LET s == calls[k].session
      status == CASE s \notin DOMAIN version -> 500
                  [] s \in DOMAIN version /\ negotiated[s] \notin {NoHeader, version[s]} -> 400
                  [] OTHER -> 200 IN
  /\ calls[k].at = "version"
  /\ calls' = [calls EXCEPT ![k].at = IF status = 200 THEN "agent" ELSE "refused",
                            ![k].status = status]
  /\ UNCHANGED <<initialized, version, agents, participants, negotiated, streams, shutdown,
                 boots>>

\* the agent behind the request: the one it names, else the one the session has, else the
\* one at the port the request came from, which the session then has
FindAgent(k, named, a) ==
  LET s == calls[k].session
      adopts == named = None /\ s \notin DOMAIN agents /\ a # None
      found == CASE named # None -> named
                 [] named = None /\ s \in DOMAIN agents -> agents[s]
                 [] OTHER -> a IN
  /\ calls[k].at = "agent"
  /\ agents' = IF adopts THEN With(agents, s, a) ELSE agents
  /\ calls' = [calls EXCEPT ![k].agent = found, ![k].at = "attribute"]
  /\ UNCHANGED <<initialized, version, participants, negotiated, streams, shutdown, boots>>

\* whom the call acts for: the participant the request names, which the session then has,
\* else the session's
OnlyNamed(c) == c.named
NamedOrBound(c) == IF c.named # None THEN c.named ELSE Lookup(participants, c.session)

Attribute(k) ==
  LET c == calls[k]
      p == NamedOrBound(c) IN
  /\ c.at = "attribute"
  /\ participants' = IF c.named = None THEN participants
                     ELSE With(participants, c.session, c.named)
  /\ calls' = [calls EXCEPT ![k].participant = p, ![k].named = None,
                            ![k].agent = IF p = None THEN @ ELSE None,
                            ![k].at = IF p = None THEN "resolve" ELSE "handle"]
  /\ UNCHANGED <<initialized, version, agents, negotiated, streams, shutdown, boots>>

\* else the one of its agent, if the agent runs, which the session then has whatever was
\* bound meanwhile
ResolveFromAgent(k, runs) ==
  LET c == calls[k]
      p == IF c.agent = None \/ ~runs THEN None ELSE AgentParticipant[c.agent] IN
  /\ c.at = "resolve"
  /\ participants' = IF p = None THEN participants ELSE With(participants, c.session, p)
  /\ calls' = [calls EXCEPT ![k].participant = p, ![k].agent = None, ![k].at = "handle"]
  /\ UNCHANGED <<initialized, version, agents, negotiated, streams, shutdown, boots>>

\* caller_grant and tools/call: refused outside the grant, else the surface is called
Dispatch(k, failed) ==
  LET c == calls[k]
      g == CombinedGrant(c.principal, ParticipantGrant(c.participant, failed), c.policy) IN
  /\ c.at = "handle" /\ (failed => c.participant # None)
  /\ calls' = [calls EXCEPT ![k] = IF GrantAllows(g, c.tool)
                                   THEN [c EXCEPT !.at = "running", !.failed = failed]
                                   ELSE NoCall]
  /\ UNCHANGED <<initialized, version, agents, participants, negotiated, streams, shutdown,
                 boots>>

\* the surface answers; a party_join that worked binds the session to who joined
Finish(k, joined) ==
  LET c == calls[k] IN
  /\ c.at = "running"
  /\ participants' = IF c.tool = Join /\ joined # None
                     THEN With(participants, c.session, joined) ELSE participants
  /\ calls' = [calls EXCEPT ![k] = NoCall]
  /\ UNCHANGED <<initialized, version, agents, negotiated, streams, shutdown, boots>>

\* a request is refused for its version
Answer(k) ==
  /\ calls[k].at = "refused"
  /\ calls' = [calls EXCEPT ![k] = NoCall]
  /\ UNCHANGED <<initialized, version, agents, participants, negotiated, streams, shutdown,
                 boots>>
-----------------------------------------------------------------------------
\* event streams
OpenStream(s) ==
  /\ shutdown # "raised" /\ s \in DOMAIN negotiated \ streams
  /\ streams' = streams \cup {s}
  /\ UNCHANGED <<initialized, version, agents, participants, calls, negotiated, shutdown,
                 boots>>

WithoutSession(s) == Restrict(participants, DOMAIN participants \ {s})

\* the client goes away: the stream is dropped, the binding stays
Disconnect(s) ==
  /\ s \in streams
  /\ streams' = streams \ {s}
  /\ UNCHANGED <<initialized, version, agents, participants, calls, negotiated, shutdown,
                 boots>>

\* changed() answers when the flag is raised, and when there is nobody left to raise it
EndStream(s) ==
  /\ shutdown # "running" /\ s \in streams
  /\ streams' = streams \ {s}
  /\ participants' = WithoutSession(s)
  /\ UNCHANGED <<initialized, version, agents, calls, negotiated, shutdown, boots>>

Shutdown(how) ==
  /\ shutdown = "running"
  /\ shutdown' = how
  /\ UNCHANGED <<initialized, version, agents, participants, calls, negotiated, streams,
                 boots>>

\* the next process knows no session; the clients still have their ids
RestartServer ==
  /\ shutdown # "running" /\ boots < MaxBoots
  /\ boots' = boots + 1 /\ shutdown' = "running"
  /\ initialized' = {} /\ version' = EmptyMap
  /\ agents' = EmptyMap /\ participants' = EmptyMap
  /\ calls' = [k \in Calls |-> NoCall]
  /\ streams' = {}
  /\ UNCHANGED negotiated

McpStep ==
  \/ \E s \in Sessions, v \in 1..(Latest + 1), sends \in BOOLEAN,
        a \in Agents \cup {None}, p \in Participants \cup {None} :
          Initialize(s, v, sends, a, p)
  \/ \E k \in Calls, s \in Sessions, r \in Requested, p \in Participants \cup {None} :
        Arrive(k, s, r, p)
  \/ \E k \in Calls : Recover(k)
  \/ \E k \in Calls : CheckVersion(k)
  \/ \E k \in Calls, named, a \in Agents \cup {None} : FindAgent(k, named, a)
  \/ \E k \in Calls : Attribute(k)
  \/ \E k \in Calls, runs \in BOOLEAN : ResolveFromAgent(k, runs)
  \/ \E k \in Calls, failed \in BOOLEAN : Dispatch(k, failed)
  \/ \E k \in Calls, joined \in Participants \cup {None} : Finish(k, joined)
  \/ \E k \in Calls : Answer(k)
  \/ \E s \in Sessions : OpenStream(s)
  \/ \E s \in Sessions : Disconnect(s)
  \/ \E s \in Sessions : EndStream(s)
  \/ \E how \in {"raised", "dropped"} : Shutdown(how)
  \/ RestartServer

\* what a request may have read of its session before it is handled
Reading == {"recover", "version", "agent", "attribute", "resolve", "handle"}
Sees ==
  bindings' =
    [k \in Calls |-> IF calls'[k].at \in Reading
                     THEN bindings[k] \cup {Lookup(participants', calls'[k].session)} ELSE {}]

McpNext == McpStep /\ Sees

McpSpec == McpInit /\ [][McpNext]_mcpVars
-----------------------------------------------------------------------------
\* A session that initialize answered keeps working: its requests are never refused for
\* their version, before and after a restart, and the "missing protocol version" answer
\* happens only while another request of the same session is between entering it and
\* noting its version (handlers.rs resolve_or_recover_session_protocol).
SessionKeepsWorking ==
  \A k \in Calls :
    /\ calls[k].at = "refused" => calls[k].status # 400
    /\ calls[k].at = "version" /\ calls[k].session \notin DOMAIN version =>
         \E j \in Calls : calls[j].at = "recover" /\ calls[j].session = calls[k].session

\* A request acts for a participant its session was bound to at some moment while the
\* request was under way, and for nobody only if the session was bound to nobody at such a
\* moment, whatever joins, agents, streams and other requests of the session do to the
\* binding meanwhile (handlers.rs message_handler, resolve_participant_from_agent,
\* sse_next_event; rpc.rs handle_tools_call).
ActsForItsSession ==
  \A k \in Calls : calls[k].at = "handle" => calls[k].participant \in bindings[k]

\* Every tool call that reaches the surface is open to each of the three that bound it: the
\* scope of its bearer, the policy it asked for itself, and the participant it acts for, or
\* a seat if that one's grant could not be looked up (handlers.rs caller_grant, mod.rs
\* grant_allows).
DispatchedIsOpenToAll ==
  \A k \in Calls : LET c == calls[k] IN
    c.at = "running" =>
      /\ GrantAllows(TunnelGrant(c.principal), c.tool)
      /\ GrantAllows(RequestedGrant(c.policy), c.tool)
      /\ \/ c.participant = None
         \/ c.failed /\ c.tool \in SeatTools
         \/ GrantAllows(GrantOf[c.participant], c.tool)
=============================================================================
