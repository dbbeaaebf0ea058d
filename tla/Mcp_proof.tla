---------------------------- MODULE Mcp_proof -------------------------------
(***************************************************************************)
(* Proofs about the two sides of the MCP door: the sessions and the OAuth  *)
(* server.  Each part stands by itself.                                    *)
(***************************************************************************)
EXTENDS McpSessions, OAuthServer, FiniteSetTheorems, TLAPS

(***************************************************************************)
(* McpSessions.  For any sessions, requests, participants and agents.  The *)
(* invariant follows a request through its stages: what it has read of its *)
(* session, what the session has by now, and what is noted on the way.     *)
(***************************************************************************)

Stages == {"recover", "version", "agent", "attribute", "resolve", "handle", "running",
           "refused"}

\* A request under way.
Call ==
  [at : Stages, session : Sessions, tool : {r.tool : r \in Requested},
   principal : {r.principal : r \in Requested}, policy : {r.policy : r \in Requested},
   named : Participants \cup {None}, agent : Agents \cup {None},
   participant : Participants \cup {None}, failed : BOOLEAN, status : {0, 200, 400, 500}]

McpTypes ==
  /\ calls \in [Calls -> Call \cup {NoCall}]
  /\ \A s \in DOMAIN participants : participants[s] \in Participants /\ participants[s] # None
  /\ \A s \in DOMAIN agents : agents[s] \in Agents

\* The version noted for a session is the one its client sends, if it sends one.
VersionsAgree ==
  \A s \in DOMAIN version : s \in DOMAIN negotiated /\ negotiated[s] \in {NoHeader, version[s]}

\* An entered session has its version, or somebody is about to note it.
VersionNoted ==
  \A s \in initialized :
    s \in DOMAIN version \/ \E j \in Calls : calls[j].at = "recover" /\ calls[j].session = s

OpenToAll(c) ==
  /\ GrantAllows(TunnelGrant(c.principal), c.tool)
  /\ GrantAllows(RequestedGrant(c.policy), c.tool)
  /\ GrantAllows(ParticipantGrant(c.participant, c.failed), c.tool)

\* What holds of each request under way, with the sessions known and entered.
Fine(c, known, entered) ==
  /\ c.session \in known
  /\ c.at \in {"recover", "version"} => c.session \in entered
  /\ c.status # 400
  /\ c.at = "running" => OpenToAll(c)

CallsFine ==
  \A k \in Calls : calls[k] # NoCall => Fine(calls[k], DOMAIN negotiated, initialized)

McpInv == McpTypes /\ VersionsAgree /\ VersionNoted /\ CallsFine

-----------------------------------------------------------------------------
\* Narrowing never opens more.
LEMMA NarrowedOpens ==
  ASSUME NEW g \in 0..3, NEW h \in 0..3, NEW tool, GrantAllows(Narrowed(g, h), tool)
  PROVE  GrantAllows(g, tool) /\ GrantAllows(h, tool)
<1>1. \A x \in 0..3 :
        GrantAllows(x, tool) <=> x = 3 \/ (x = 2 /\ tool \in WriterTools)
                                 \/ (x = 1 /\ tool \in SeatTools)
  <2>1. GrantAllows(0, tool) <=> FALSE
    BY DEF GrantAllows, Full, Writer, Seat, Nothing
  <2>2. GrantAllows(1, tool) <=> tool \in SeatTools
    BY DEF GrantAllows, Full, Writer, Seat, Nothing
  <2>3. GrantAllows(2, tool) <=> tool \in WriterTools
    BY DEF GrantAllows, Full, Writer, Seat, Nothing
  <2>4. GrantAllows(3, tool) <=> TRUE
    BY DEF GrantAllows, Full, Writer, Seat, Nothing
  <2>. QED
    BY <2>1, <2>2, <2>3, <2>4
<1>2. Narrowed(g, h) \in {g, h} /\ Narrowed(g, h) <= g /\ Narrowed(g, h) <= h
  BY DEF Narrowed
<1>. QED
  BY <1>1, <1>2, McpAssumption

\* A grant allows a tool or does not.
LEMMA AllowsIsBoolean == \A g \in 0..3 : \A tool : GrantAllows(g, tool) \in BOOLEAN
<1>. SUFFICES ASSUME NEW g \in 0..3, NEW tool PROVE GrantAllows(g, tool) \in BOOLEAN
  BY Zenon
<1>1. g = 0 \/ g = 1 \/ g = 2 \/ g = 3
  OBVIOUS
<1>2. GrantAllows(0, tool) \in BOOLEAN /\ GrantAllows(1, tool) \in BOOLEAN
  BY DEF GrantAllows, Full, Writer, Seat, Nothing
<1>3. GrantAllows(2, tool) \in BOOLEAN /\ GrantAllows(3, tool) \in BOOLEAN
  BY DEF GrantAllows, Full, Writer, Seat, Nothing
<1>. QED
  BY Zenon, <1>1, <1>2, <1>3

\* The grants of a tunnel, a policy and a participant are grants, and so is the
\* narrower of two.
LEMMA GrantTypes ==
  /\ \A principal : TunnelGrant(principal) \in 0..3
  /\ \A policy : RequestedGrant(policy) \in 0..3
  /\ \A p \in Participants \cup {None}, failed \in BOOLEAN : ParticipantGrant(p, failed) \in 0..3
  /\ \A g, h \in 0..3 : Narrowed(g, h) \in 0..3
<1>1. /\ \A principal : TunnelGrant(principal) \in 0..3
      /\ \A policy : RequestedGrant(policy) \in 0..3
      /\ \A g, h \in 0..3 : Narrowed(g, h) \in 0..3
  BY DEF TunnelGrant, RequestedGrant, Narrowed, Full, Writer, Seat, Nothing
<1>2. \A p \in Participants \cup {None}, failed \in BOOLEAN : ParticipantGrant(p, failed) \in 0..3
  BY McpAssumption DEF ParticipantGrant, Full, Seat
<1>. QED
  BY Zenon, <1>1, <1>2

\* What the combined grant allows each of its three parts allows.
LEMMA CombinedOpens ==
  ASSUME NEW c, c.participant \in Participants \cup {None}, c.failed \in BOOLEAN,
         GrantAllows(CombinedGrant(c.principal, ParticipantGrant(c.participant, c.failed),
                                   c.policy), c.tool)
  PROVE  OpenToAll(c)
<1>. DEFINE t == TunnelGrant(c.principal)
            p == ParticipantGrant(c.participant, c.failed)
            q == RequestedGrant(c.policy)
<1>1. t \in 0..3 /\ p \in 0..3 /\ q \in 0..3 /\ Narrowed(t, p) \in 0..3
  BY Zenon, GrantTypes
<1>2. GrantAllows(Narrowed(Narrowed(t, p), q), c.tool)
  BY Zenon DEF CombinedGrant
<1>. HIDE DEF t, p, q
<1>3. GrantAllows(Narrowed(t, p), c.tool) /\ GrantAllows(q, c.tool)
  BY <1>1, <1>2, NarrowedOpens
<1>4. GrantAllows(t, c.tool) /\ GrantAllows(p, c.tool)
  BY <1>1, <1>3, NarrowedOpens
<1>. QED
  BY Zenon, <1>3, <1>4 DEF OpenToAll, t, p, q

\* A call that is under way is a request with its stage.
LEMMA CallFacts ==
  ASSUME McpTypes, NEW k \in Calls
  PROVE  /\ NoCall.at = "idle"
         /\ calls[k].at \in Stages <=> calls[k] # NoCall
         /\ calls[k] # NoCall => calls[k] \in Call
         /\ calls[k].at \in Stages \cup {"idle"}
  BY DEF McpTypes, Call, NoCall, Stages

\* One request moves on; no version or binding of another is lost.
LEMMA MoveKeeps ==
  ASSUME McpInv, NEW k \in Calls, NEW c \in Call \cup {NoCall},
         calls' = [calls EXCEPT ![k] = c],
         McpTypes', VersionsAgree',
         c # NoCall => Fine(c, DOMAIN negotiated, initialized'),
         negotiated' = negotiated, initialized \subseteq initialized',
         DOMAIN version \subseteq DOMAIN version',
         \A s \in initialized' : s \in initialized \/ (c.at = "recover" /\ s = c.session),
         calls[k].at = "recover" => calls[k].session \in DOMAIN version'
  PROVE  McpInv'
<1>0. calls'[k] = c /\ \A j \in Calls : j # k => calls'[j] = calls[j]
  BY Zenon DEF McpInv, McpTypes
<1>1. VersionNoted'
  <2>. SUFFICES ASSUME NEW s \in initialized', s \notin DOMAIN version'
                PROVE  \E j \in Calls : calls'[j].at = "recover" /\ calls'[j].session = s
    BY Zenon DEF VersionNoted
  <2>2. CASE c.at = "recover" /\ s = c.session
    BY Zenon, <1>0, <2>2
  <2>3. CASE s \in initialized
    <3>1. PICK j \in Calls : calls[j].at = "recover" /\ calls[j].session = s
      BY Zenon, <2>3 DEF McpInv, VersionNoted
    <3>. QED
      BY Zenon, <1>0, <3>1
  <2>. QED
    BY Zenon, <2>2, <2>3
<1>2. CallsFine'
  <2>. SUFFICES ASSUME NEW j \in Calls, calls'[j] # NoCall
                PROVE  Fine(calls'[j], DOMAIN negotiated, initialized')
    BY Zenon DEF CallsFine
  <2>1. CASE j = k
    BY Zenon, <1>0, <2>1
  <2>2. CASE j # k
    <3>1. Fine(calls[j], DOMAIN negotiated, initialized)
      BY Zenon, <1>0, <2>2 DEF McpInv, CallsFine
    <3>. QED
      BY <1>0, <2>2, <3>1 DEF Fine
  <2>. QED
    BY Zenon, <2>1, <2>2
<1>. QED
  BY Zenon, <1>1, <1>2 DEF McpInv

\* Nothing about requests changes.
LEMMA RestKeeps ==
  ASSUME McpInv, calls' = calls, McpTypes', VersionsAgree',
         DOMAIN negotiated \subseteq DOMAIN negotiated', initialized \subseteq initialized',
         DOMAIN version \subseteq DOMAIN version',
         \A s \in initialized' : s \in initialized \/ s \in DOMAIN version'
  PROVE  McpInv'
<1>1. VersionNoted'
  BY Zenon DEF McpInv, VersionNoted
<1>2. CallsFine'
  <2>. SUFFICES ASSUME NEW j \in Calls, calls[j] # NoCall
                PROVE  Fine(calls[j], DOMAIN negotiated', initialized')
    BY Zenon DEF CallsFine
  <2>1. Fine(calls[j], DOMAIN negotiated, initialized)
    BY Zenon DEF McpInv, CallsFine
  <2>. QED
    BY Zenon, <2>1 DEF Fine
<1>. QED
  BY Zenon, <1>1, <1>2 DEF McpInv

-----------------------------------------------------------------------------
\* initialize opens a session and notes its version.
LEMMA InitializeKeeps ==
  ASSUME McpInv, NEW s \in Sessions, NEW v, NEW sends \in BOOLEAN, NEW a \in Agents \cup {None},
         NEW p \in Participants \cup {None}, Initialize(s, v, sends, a, p)
  PROVE  McpInv'
<1>. DEFINE agreed == Agreed(v)
<1>1. /\ s \notin DOMAIN negotiated /\ initialized' = initialized \cup {s}
      /\ version' = With(version, s, agreed)
      /\ agents' = IF a = None THEN agents ELSE With(agents, s, a)
      /\ participants' = IF p = None THEN participants ELSE With(participants, s, p)
      /\ negotiated' = With(negotiated, s, IF sends THEN agreed ELSE NoHeader)
      /\ calls' = calls
  BY Zenon DEF Initialize
<1>. HIDE DEF agreed
<1>2. McpTypes'
  <2>1. \A t \in DOMAIN participants' : participants'[t] \in Participants
          /\ participants'[t] # None
    BY Zenon, <1>1 DEF With, McpInv, McpTypes
  <2>2. \A t \in DOMAIN agents' : agents'[t] \in Agents
    BY Zenon, <1>1 DEF With, McpInv, McpTypes
  <2>. QED
    BY Zenon, <1>1, <2>1, <2>2 DEF McpInv, McpTypes
<1>3. VersionsAgree'
  <2>1. negotiated'[s] \in {NoHeader, agreed} /\ s \in DOMAIN negotiated'
    BY Zenon, <1>1 DEF With
  <2>2. \A t \in DOMAIN negotiated : t # s /\ t \in DOMAIN negotiated'
          /\ negotiated'[t] = negotiated[t]
    BY Zenon, <1>1 DEF With
  <2>3. DOMAIN version' = DOMAIN version \cup {s} /\ version'[s] = agreed
    BY Zenon, <1>1 DEF With
  <2>4. \A t \in DOMAIN version : t # s /\ version'[t] = version[t]
    BY Zenon, <1>1 DEF With, McpInv, VersionsAgree
  <2>. QED
    BY Zenon, <2>1, <2>2, <2>3, <2>4 DEF McpInv, VersionsAgree
<1>4. /\ DOMAIN negotiated' = DOMAIN negotiated \cup {s}
           /\ DOMAIN version' = DOMAIN version \cup {s}
      /\ DOMAIN participants \subseteq DOMAIN participants'
  BY Zenon, <1>1 DEF With
<1>. QED
  BY Zenon, <1>1, <1>2, <1>3, <1>4, RestKeeps

\* A request of a session enters it and waits for its version.
LEMMA ArriveKeeps ==
  ASSUME McpInv, NEW k \in Calls, NEW s \in Sessions, NEW r \in Requested,
         NEW p \in Participants \cup {None}, Arrive(k, s, r, p)
  PROVE  McpInv'
<1>. DEFINE c == [at |-> IF s \in initialized THEN "version" ELSE "recover", session |-> s,
        tool |-> r.tool, principal |-> r.principal, policy |-> r.policy, named |-> p,
        agent |-> None, participant |-> None, failed |-> FALSE, status |-> 0]
<1>1. /\ calls[k] = NoCall /\ s \in DOMAIN negotiated
      /\ initialized' = initialized \cup {s} /\ calls' = [calls EXCEPT ![k] = c]
      /\ UNCHANGED <<version, agents, participants, negotiated>>
  BY Zenon DEF Arrive
<1>3. c \in Call
  BY DEF Call, Stages
<1>5. /\ c.session = s /\ c.status = 0
      /\ c.at = IF s \in initialized THEN "version" ELSE "recover"
  BY Zenon
<1>. HIDE DEF c
<1>6. Fine(c, DOMAIN negotiated, initialized')
  BY <1>1, <1>5 DEF Fine
<1>7. McpTypes' /\ VersionsAgree'
  BY Zenon, <1>1, <1>3 DEF McpInv, McpTypes, VersionsAgree
<1>8. NoCall.at # "recover"
  BY Zenon DEF NoCall
<1>. QED
  BY Zenon, <1>1, <1>3, <1>5, <1>6, <1>7, <1>8, MoveKeeps

\* A request of a session the server forgot notes its version again.
LEMMA RecoverKeeps ==
  ASSUME McpInv, NEW k \in Calls, Recover(k)
  PROVE  McpInv'
<1>. DEFINE s == calls[k].session
            c == [calls[k] EXCEPT !.at = "version"]
<1>1. /\ calls[k].at = "recover" /\ version' = With(version, s, Recovered(s))
      /\ calls' = [calls EXCEPT ![k] = c]
      /\ UNCHANGED <<initialized, agents, participants, negotiated>>
  BY Zenon DEF Recover, Recorded
<1>2. calls[k] # NoCall /\ calls[k] \in Call
  BY Zenon, <1>1, CallFacts DEF McpInv, Stages
<1>3. Fine(calls[k], DOMAIN negotiated, initialized)
  BY Zenon, <1>2 DEF McpInv, CallsFine
<1>4. c \in Call /\ c.at = "version" /\ c.session = s /\ c.status = calls[k].status
  BY <1>2 DEF Call, Stages
<1>. HIDE DEF c
<1>5. Fine(c, DOMAIN negotiated, initialized')
  BY <1>1, <1>3, <1>4 DEF Fine
<1>6. s \in DOMAIN negotiated
  BY Zenon, <1>3 DEF Fine
<1>. HIDE DEF s
<1>7. McpTypes'
  BY Zenon, <1>1, <1>4 DEF McpInv, McpTypes
<1>8. VersionsAgree'
  BY Zenon, <1>1, <1>6 DEF McpInv, VersionsAgree, With, Recovered
<1>9. DOMAIN version \subseteq DOMAIN version' /\ s \in DOMAIN version'
  BY Zenon, <1>1 DEF With
<1>. QED
  BY Zenon, <1>1, <1>4, <1>5, <1>7, <1>8, <1>9, MoveKeeps DEF s

\* The version check passes the request on or answers it.
LEMMA CheckVersionKeeps ==
  ASSUME McpInv, NEW k \in Calls, CheckVersion(k)
  PROVE  McpInv'
<1>. DEFINE s == calls[k].session
            status == CASE s \notin DOMAIN version -> 500
                        [] s \in DOMAIN version
                          /\ negotiated[s] \notin {NoHeader, version[s]} -> 400
                        [] OTHER -> 200
            at == IF status = 200 THEN "agent" ELSE "refused"
            d1 == [calls[k] EXCEPT !.at = at]
            c == [d1 EXCEPT !.status = status]
<1>0. /\ calls[k].at = "version" /\ calls' = [calls EXCEPT ![k].at = at, ![k].status = status]
      /\ UNCHANGED <<initialized, version, agents, participants, negotiated>>
  BY Zenon DEF CheckVersion
<1>2. status \in {200, 500}
  BY DEF McpInv, VersionsAgree
<1>3. at \in {"agent", "refused"} /\ at \in Stages
  BY Zenon DEF Stages
<1>. HIDE DEF status, at
<1>1. /\ calls[k].at = "version" /\ calls' = [calls EXCEPT ![k] = c]
      /\ UNCHANGED <<initialized, version, agents, participants, negotiated>>
  BY Zenon, <1>0
<1>4. calls[k] # NoCall /\ calls[k] \in Call
  BY Zenon, <1>1, CallFacts DEF McpInv, Stages
<1>5. Fine(calls[k], DOMAIN negotiated, initialized)
  BY Zenon, <1>4 DEF McpInv, CallsFine
<1>6. c \in Call /\ c.at = at /\ c.session = s /\ c.status = status
  <2>1. d1 \in Call /\ d1.session = calls[k].session /\ d1.status = calls[k].status /\ d1.at = at
    BY <1>2, <1>3, <1>4 DEF Call
  <2>. HIDE DEF d1
  <2>. QED
    BY <1>2, <1>3, <1>4, <2>1 DEF Call
<1>. HIDE DEF c
<1>7. Fine(c, DOMAIN negotiated, initialized')
  BY <1>1, <1>2, <1>3, <1>5, <1>6 DEF Fine
<1>8. McpTypes' /\ VersionsAgree'
  BY Zenon, <1>1, <1>6 DEF McpInv, McpTypes, VersionsAgree
<1>. QED
  BY Zenon, <1>1, <1>6, <1>7, <1>8, MoveKeeps

\* The stages after the checks.
LEMMA LateStages == {"attribute", "handle", "running"} \subseteq Stages
  BY Zenon DEF Stages

\* The agent behind the request is found, and the session may take it.
LEMMA FindAgentKeeps ==
  ASSUME McpInv, NEW k \in Calls, NEW named \in Agents \cup {None}, NEW a \in Agents \cup {None},
         FindAgent(k, named, a)
  PROVE  McpInv'
<1>. DEFINE s == calls[k].session
            found == CASE named # None -> named
                       [] named = None /\ s \in DOMAIN agents -> agents[s]
                       [] OTHER -> a
            d1 == [calls[k] EXCEPT !.agent = found]
            c == [d1 EXCEPT !.at = "attribute"]
<1>1. /\ calls[k].at = "agent" /\ calls' = [calls EXCEPT ![k] = c]
      /\ agents' = agents \/ (a # None /\ agents' = With(agents, s, a))
      /\ UNCHANGED <<initialized, version, participants, negotiated>>
  BY Zenon DEF FindAgent
<1>2. found \in Agents \cup {None}
  BY Zenon DEF McpInv, McpTypes
<1>. HIDE DEF found
<1>4. calls[k] # NoCall /\ calls[k] \in Call
  BY Zenon, <1>1, CallFacts DEF McpInv, Stages
<1>5. Fine(calls[k], DOMAIN negotiated, initialized)
  BY Zenon, <1>4 DEF McpInv, CallsFine
<1>6. c \in Call /\ c.at = "attribute" /\ c.session = s /\ c.status = calls[k].status
  <2>1. d1 \in Call /\ d1.session = calls[k].session /\ d1.status = calls[k].status /\ d1.agent = found
    BY <1>2, <1>4, LateStages DEF Call
  <2>. HIDE DEF d1
  <2>. QED
    BY <1>2, <1>4, LateStages, <2>1 DEF Call
<1>. HIDE DEF c, s
<1>7. Fine(c, DOMAIN negotiated, initialized')
  BY <1>1, <1>5, <1>6 DEF Fine, s
<1>8. \A t \in DOMAIN agents' : agents'[t] \in Agents
  BY Zenon, <1>1 DEF McpInv, McpTypes, With
<1>9. McpTypes' /\ VersionsAgree'
  BY Zenon, <1>1, <1>6, <1>8 DEF McpInv, McpTypes, VersionsAgree
<1>. QED
  BY Zenon, <1>1, <1>6, <1>7, <1>9, MoveKeeps

\* A call acts for whom it names, or for the session's participant.
LEMMA AttributeKeeps ==
  ASSUME McpInv, NEW k \in Calls, Attribute(k)
  PROVE  McpInv'
<1>. DEFINE s == calls[k].session
            p == NamedOrBound(calls[k])
            agent == IF p = None THEN calls[k].agent ELSE None
            at == IF p = None THEN "resolve" ELSE "handle"
            d1 == [calls[k] EXCEPT !.participant = p]
            d2 == [d1 EXCEPT !.named = None]
            d3 == [d2 EXCEPT !.agent = agent]
            c == [d3 EXCEPT !.at = at]
<1>1. /\ calls[k].at = "attribute"
      /\ calls' = [calls EXCEPT ![k] = c]
      /\ participants' = IF calls[k].named = None THEN participants
                         ELSE With(participants, s, calls[k].named)
      /\ UNCHANGED <<initialized, version, agents, negotiated>>
  BY Zenon DEF Attribute
<1>4. calls[k] # NoCall /\ calls[k] \in Call
  BY Zenon, <1>1, CallFacts DEF McpInv, Stages
<1>a. calls[k].named \in Participants \cup {None} /\ calls[k].agent \in Agents \cup {None}
  BY Zenon, <1>4 DEF Call
<1>2. p \in Participants \cup {None}
  BY Zenon, <1>a DEF NamedOrBound, Lookup, McpInv, McpTypes
<1>3. s \in DOMAIN participants => p # None
  BY Zenon DEF NamedOrBound, Lookup, McpInv, McpTypes
<1>b. at \in Stages /\ (p = None => at = "resolve") /\ (p # None => at = "handle")
        /\ agent \in Agents \cup {None}
  BY Zenon, <1>a DEF Stages
<1>. HIDE DEF p, at, agent
<1>5. Fine(calls[k], DOMAIN negotiated, initialized)
  BY Zenon, <1>4 DEF McpInv, CallsFine
<1>6. c \in Call /\ c.at = at /\ c.session = s /\ c.status = calls[k].status /\ c.participant = p
  <2>1. d1 \in Call /\ d1.session = calls[k].session /\ d1.status = calls[k].status /\ d1.participant = p
    BY <1>2, <1>4, <1>b DEF Call
  <2>. HIDE DEF d1
  <2>2. d2 \in Call /\ d2.session = calls[k].session /\ d2.status = calls[k].status /\ d2.participant = p
               /\ d2.named = None
    BY <1>2, <1>4, <1>b, <2>1 DEF Call
  <2>. HIDE DEF d2
  <2>3. d3 \in Call /\ d3.session = calls[k].session /\ d3.status = calls[k].status /\ d3.participant = p
               /\ d3.named = None /\ d3.agent = agent
    BY <1>2, <1>4, <1>b, <2>2 DEF Call
  <2>. HIDE DEF d3
  <2>. QED
    BY <1>2, <1>4, <1>b, <2>3 DEF Call
<1>. HIDE DEF c
<1>8. /\ \A t \in DOMAIN participants' : participants'[t] \in Participants
           /\ participants'[t] # None
      /\ DOMAIN participants \subseteq DOMAIN participants'
  BY Zenon, <1>1, <1>a DEF McpInv, McpTypes, With
<1>7. Fine(c, DOMAIN negotiated, initialized')
  BY <1>1, <1>3, <1>5, <1>6, <1>b DEF Fine
<1>9. McpTypes' /\ VersionsAgree'
  BY Zenon, <1>1, <1>6, <1>8 DEF McpInv, McpTypes, VersionsAgree
<1>. QED
  BY Zenon, <1>1, <1>6, <1>7, <1>8, <1>9, MoveKeeps

\* Else it acts for the participant of its agent.
LEMMA ResolveKeeps ==
  ASSUME McpInv, NEW k \in Calls, NEW runs \in BOOLEAN, ResolveFromAgent(k, runs)
  PROVE  McpInv'
<1>. DEFINE s == calls[k].session
            p == IF calls[k].agent = None \/ ~runs THEN None ELSE AgentParticipant[calls[k].agent]
            d1 == [calls[k] EXCEPT !.participant = p]
            d2 == [d1 EXCEPT !.agent = None]
            c == [d2 EXCEPT !.at = "handle"]
<1>1. /\ calls[k].at = "resolve" /\ calls' = [calls EXCEPT ![k] = c]
      /\ participants' = IF p = None THEN participants ELSE With(participants, s, p)
      /\ UNCHANGED <<initialized, version, agents, negotiated>>
  BY Zenon DEF ResolveFromAgent
<1>4. calls[k] # NoCall /\ calls[k] \in Call
  BY Zenon, <1>1, CallFacts DEF McpInv, Stages
<1>2. p \in Participants \cup {None}
  BY <1>4, McpAssumption DEF Call
<1>. HIDE DEF p
<1>5. Fine(calls[k], DOMAIN negotiated, initialized)
  BY Zenon, <1>4 DEF McpInv, CallsFine
<1>6. c \in Call /\ c.at = "handle" /\ c.session = s /\ c.status = calls[k].status
  <2>1. d1 \in Call /\ d1.session = calls[k].session /\ d1.status = calls[k].status /\ d1.participant = p
    BY <1>2, <1>4, LateStages DEF Call
  <2>. HIDE DEF d1
  <2>2. d2 \in Call /\ d2.session = calls[k].session /\ d2.status = calls[k].status /\ d2.participant = p
               /\ d2.agent = None
    BY <1>2, <1>4, LateStages, <2>1 DEF Call
  <2>. HIDE DEF d2
  <2>. QED
    BY <1>2, <1>4, LateStages, <2>2 DEF Call
<1>. HIDE DEF c
<1>7. Fine(c, DOMAIN negotiated, initialized')
  BY <1>1, <1>5, <1>6 DEF Fine
<1>8. /\ \A t \in DOMAIN participants' : participants'[t] \in Participants
           /\ participants'[t] # None
      /\ DOMAIN participants \subseteq DOMAIN participants'
  BY Zenon, <1>1, <1>2 DEF McpInv, McpTypes, With
<1>9. McpTypes' /\ VersionsAgree'
  BY Zenon, <1>1, <1>6, <1>8 DEF McpInv, McpTypes, VersionsAgree
<1>. QED
  BY Zenon, <1>1, <1>6, <1>7, <1>8, <1>9, MoveKeeps

\* A call runs under the combined grant, or is refused.
LEMMA DispatchKeeps ==
  ASSUME McpInv, NEW k \in Calls, NEW failed \in BOOLEAN, Dispatch(k, failed)
  PROVE  McpInv'
<1>. DEFINE open == GrantAllows(CombinedGrant(calls[k].principal,
                      ParticipantGrant(calls[k].participant, failed), calls[k].policy),
                      calls[k].tool)
            d1 == [calls[k] EXCEPT !.at = "running"]
            d == [d1 EXCEPT !.failed = failed]
            c == IF open THEN d ELSE NoCall
<1>1. /\ calls[k].at = "handle" /\ calls' = [calls EXCEPT ![k] = c]
      /\ UNCHANGED <<initialized, version, agents, participants, negotiated>>
  BY Zenon DEF Dispatch
<1>2. calls[k] # NoCall /\ calls[k] \in Call
  BY Zenon, <1>1, CallFacts DEF McpInv, Stages
<1>3. Fine(calls[k], DOMAIN negotiated, initialized)
  BY Zenon, <1>2 DEF McpInv, CallsFine
<1>4. d \in Call /\ d.at = "running" /\ d.session = calls[k].session
        /\ d.status = calls[k].status /\ d.participant = calls[k].participant
        /\ d.principal = calls[k].principal /\ d.policy = calls[k].policy
        /\ d.tool = calls[k].tool /\ d.failed = failed
  <2>1. d1 \in Call /\ d1.session = calls[k].session /\ d1.status = calls[k].status
          /\ d1.participant = calls[k].participant /\ d1.principal = calls[k].principal
          /\ d1.policy = calls[k].policy /\ d1.tool = calls[k].tool /\ d1.at = "running"
    BY <1>2, LateStages DEF Call
  <2>. HIDE DEF d1
  <2>. QED
    BY <2>1 DEF Call
<1>. HIDE DEF d
<1>5. open => OpenToAll(d)
  <2>1. d.participant \in Participants \cup {None} /\ d.failed \in BOOLEAN
    BY Zenon, <1>4 DEF Call
  <2>. QED
    BY Zenon, <1>4, <2>1, CombinedOpens
<1>. HIDE DEF open
<1>6. c \in Call \cup {NoCall} /\ (c # NoCall => c = d /\ open)
  BY Zenon, <1>4
<1>. HIDE DEF c
<1>7. c # NoCall => Fine(c, DOMAIN negotiated, initialized')
  BY <1>1, <1>3, <1>4, <1>5, <1>6 DEF Fine
<1>8. McpTypes' /\ VersionsAgree'
  BY Zenon, <1>1, <1>6 DEF McpInv, McpTypes, VersionsAgree
<1>. QED
  BY Zenon, <1>1, <1>6, <1>7, <1>8, MoveKeeps

\* The surface answers, and the session may take who joined.
LEMMA FinishKeeps ==
  ASSUME McpInv, NEW k \in Calls, NEW joined \in Participants \cup {None}, Finish(k, joined)
  PROVE  McpInv'
<1>1. /\ calls[k].at = "running" /\ calls' = [calls EXCEPT ![k] = NoCall]
      /\ \/ participants' = participants
         \/ joined # None /\ participants' = With(participants, calls[k].session, joined)
      /\ UNCHANGED <<initialized, version, agents, negotiated>>
  BY Zenon DEF Finish
<1>2. \A t \in DOMAIN participants' : participants'[t] \in Participants
        /\ participants'[t] # None
  BY Zenon, <1>1 DEF McpInv, McpTypes, With
<1>3. McpTypes' /\ VersionsAgree'
  BY Zenon, <1>1, <1>2 DEF McpInv, McpTypes, VersionsAgree
<1>. QED
  BY Zenon, <1>1, <1>3, MoveKeeps

\* A request is refused for its version and its place is free.
LEMMA AnswerKeeps ==
  ASSUME McpInv, NEW k \in Calls, Answer(k)
  PROVE  McpInv'
<1>1. /\ calls[k].at = "refused" /\ calls' = [calls EXCEPT ![k] = NoCall]
      /\ UNCHANGED <<initialized, version, agents, participants, negotiated>>
  BY Zenon DEF Answer
<1>2. McpTypes' /\ VersionsAgree'
  BY Zenon, <1>1 DEF McpInv, McpTypes, VersionsAgree
<1>. QED
  BY Zenon, <1>1, <1>2, MoveKeeps

\* The next process starts from nothing, with the clients' versions.
LEMMA RestartKeeps ==
  ASSUME McpInv, RestartServer
  PROVE  McpInv'
<1>1. /\ initialized' = {} /\ version' = EmptyMap /\ agents' = EmptyMap
           /\ participants' = EmptyMap
      /\ calls' = [k \in Calls |-> NoCall]
  BY Zenon DEF RestartServer
<1>2. DOMAIN EmptyMap = {}
  BY Zenon DEF EmptyMap
<1>. QED
  BY Zenon, <1>1, <1>2 DEF McpInv, McpTypes, VersionsAgree, VersionNoted, CallsFine

\* At start no session is open.
LEMMA McpStarts == McpInit => McpInv
<1>1. DOMAIN EmptyMap = {}
  BY Zenon DEF EmptyMap
<1>. QED
  BY Zenon, <1>1 DEF McpInit, McpInv, McpTypes, VersionsAgree, VersionNoted, CallsFine

\* Each step of a request, in turn.
LEMMA McpKeeps == McpInv /\ [McpNext]_mcpVars => McpInv'
<1>. SUFFICES ASSUME McpInv, [McpNext]_mcpVars PROVE McpInv'
  BY Zenon
<1>0. ASSUME calls' = calls, initialized' = initialized, version' = version, agents' = agents,
             negotiated' = negotiated, DOMAIN participants' \subseteq DOMAIN participants,
             \A s \in DOMAIN participants' : participants'[s] = participants[s]
      PROVE  McpInv'
  <2>1. McpTypes' /\ VersionsAgree'
    BY Zenon, <1>0 DEF McpInv, McpTypes, VersionsAgree
  <2>. QED
    BY Zenon, <1>0, <2>1, RestKeeps
<1>1. ASSUME NEW s \in Sessions, NEW v \in 1..(Latest + 1), NEW sends \in BOOLEAN,
             NEW a \in Agents \cup {None}, NEW p \in Participants \cup {None},
             Initialize(s, v, sends, a, p)
      PROVE  McpInv'
  BY Zenon, <1>1, InitializeKeeps
<1>2. ASSUME NEW k \in Calls, NEW s \in Sessions, NEW r \in Requested,
             NEW p \in Participants \cup {None}, Arrive(k, s, r, p)
      PROVE  McpInv'
  BY Zenon, <1>2, ArriveKeeps
<1>3. ASSUME NEW k \in Calls, Recover(k) \/ CheckVersion(k) \/ Attribute(k) \/ Answer(k)
      PROVE  McpInv'
  BY Zenon, <1>3, RecoverKeeps, CheckVersionKeeps, AttributeKeeps, AnswerKeeps
<1>4. ASSUME NEW k \in Calls, NEW named \in Agents \cup {None}, NEW a \in Agents \cup {None},
             FindAgent(k, named, a)
      PROVE  McpInv'
  BY Zenon, <1>4, FindAgentKeeps
<1>5. ASSUME NEW k \in Calls, NEW runs \in BOOLEAN,
             ResolveFromAgent(k, runs) \/ Dispatch(k, runs)
      PROVE  McpInv'
  BY Zenon, <1>5, ResolveKeeps, DispatchKeeps
<1>6. ASSUME NEW k \in Calls, NEW joined \in Participants \cup {None}, Finish(k, joined)
      PROVE  McpInv'
  BY Zenon, <1>6, FinishKeeps
<1>7. ASSUME NEW s \in Sessions, OpenStream(s) \/ Disconnect(s) PROVE McpInv'
  BY Zenon, <1>0, <1>7 DEF OpenStream, Disconnect
<1>8. ASSUME NEW s \in Sessions, EndStream(s) PROVE McpInv'
  <2>1. participants' = [t \in DOMAIN participants \ {s} |-> participants[t]]
    BY Zenon, <1>8 DEF EndStream, WithoutSession, Restrict
  <2>2. /\ DOMAIN participants' \subseteq DOMAIN participants
        /\ \A t \in DOMAIN participants' : participants'[t] = participants[t]
    BY Zenon, <2>1
  <2>. QED
    BY Zenon, <1>0, <1>8, <2>2 DEF EndStream
<1>9. ASSUME NEW how, Shutdown(how) \/ UNCHANGED mcpVars PROVE McpInv'
  BY Zenon, <1>0, <1>9 DEF Shutdown, mcpVars, sessionVars
<1>10. CASE RestartServer
  BY Zenon, <1>10, RestartKeeps
<1>. QED
  BY Zenon, <1>1, <1>2, <1>3, <1>4, <1>5, <1>6, <1>7, <1>8, <1>9, <1>10 DEF McpNext, McpStep

\* A session that initialize answered keeps working, across requests that overlap and restarts:
\* none of its requests is refused for its version (handlers.rs
\* resolve_or_recover_session_protocol).
THEOREM SessionsKeepWorking == McpSpec => []SessionKeepsWorking
<1>1. McpInv => SessionKeepsWorking
  <2>. SUFFICES ASSUME McpInv, NEW k \in Calls
                PROVE  /\ calls[k].at = "refused" => calls[k].status # 400
                       /\ calls[k].at = "version" /\ calls[k].session \notin DOMAIN version =>
                            \E j \in Calls : calls[j].at = "recover"
                              /\ calls[j].session = calls[k].session
    BY Zenon DEF SessionKeepsWorking
  <2>1. calls[k].at \in {"refused", "version"} => calls[k] # NoCall
    BY DEF NoCall
  <2>2. calls[k] # NoCall => Fine(calls[k], DOMAIN negotiated, initialized)
    BY Zenon DEF McpInv, CallsFine
  <2>3. calls[k].at = "version" => calls[k].session \in initialized
    BY Zenon, <2>1, <2>2 DEF Fine
  <2>4. calls[k].at = "refused" => calls[k].status # 400
    BY Zenon, <2>1, <2>2 DEF Fine
  <2>. QED
    BY Zenon, <2>3, <2>4 DEF McpInv, VersionNoted
<1>. QED
  BY <1>1, McpStarts, McpKeeps, PTL DEF McpSpec

\* A tool call that reaches the surface is open to its bearer, to the policy it asked for and
\* to its participant, or to a seat if the participant's grant is not known (handlers.rs
\* caller_grant, mod.rs grant_allows).
THEOREM DispatchesAreOpen == McpSpec => []DispatchedIsOpenToAll
<1>1. McpInv => DispatchedIsOpenToAll
  <2>. SUFFICES ASSUME McpInv, NEW k \in Calls, calls[k].at = "running"
                PROVE  /\ GrantAllows(TunnelGrant(calls[k].principal), calls[k].tool)
                       /\ GrantAllows(RequestedGrant(calls[k].policy), calls[k].tool)
                       /\ \/ calls[k].participant = None
                          \/ calls[k].failed /\ calls[k].tool \in SeatTools
                          \/ GrantAllows(GrantOf[calls[k].participant], calls[k].tool)
    BY Zenon DEF DispatchedIsOpenToAll
  <2>1. calls[k] # NoCall
    BY DEF NoCall
  <2>2. Fine(calls[k], DOMAIN negotiated, initialized)
    BY Zenon, <2>1 DEF McpInv, CallsFine
  <2>3. OpenToAll(calls[k])
    BY Zenon, <2>2 DEF Fine
  <2>4. ASSUME calls[k].participant # None, calls[k].failed
        PROVE  calls[k].tool \in SeatTools
    <3>1. GrantAllows(Seat, calls[k].tool)
      BY Zenon, <2>3, <2>4 DEF OpenToAll, ParticipantGrant
    <3>. QED
      BY <3>1 DEF GrantAllows, Full, Writer, Seat, Nothing
  <2>5. ASSUME calls[k].participant # None, ~calls[k].failed
        PROVE  GrantAllows(GrantOf[calls[k].participant], calls[k].tool)
    BY Zenon, <2>3, <2>5 DEF OpenToAll, ParticipantGrant
  <2>. QED
    BY Zenon, <2>3, <2>4, <2>5 DEF OpenToAll
<1>. QED
  BY <1>1, McpStarts, McpKeeps, PTL DEF McpSpec

-----------------------------------------------------------------------------
\* What a request found out of its session it found while it was under way.
SeenInv ==
  \A k \in Calls :
    /\ calls[k].at = "resolve" => None \in bindings[k]
    /\ calls[k].at = "handle" => calls[k].participant \in bindings[k]

Rests(k) == calls'[k] = calls[k] \/ calls'[k].at \notin {"resolve", "handle"}

\* Only two steps decide whom a request acts for.
LEMMA StepRests ==
  ASSUME McpInv, McpStep, NEW j \in Calls
  PROVE  Rests(j) \/ Attribute(j) \/ \E runs \in BOOLEAN : ResolveFromAgent(j, runs)
<1>0. ASSUME NEW k \in Calls, NEW c, calls' = [calls EXCEPT ![k] = c],
             c.at \notin {"resolve", "handle"}
      PROVE  Rests(j)
  BY Zenon, <1>0 DEF Rests, McpInv, McpTypes
<1>f. \A k \in Calls : calls[k].at \in Stages => calls[k] \in Call
  BY Zenon, CallFacts DEF McpInv
<1>g. NoCall.at \notin {"resolve", "handle"}
  BY DEF NoCall
<1>1. ASSUME NEW k \in Calls, NEW s, NEW r, NEW p, Arrive(k, s, r, p) PROVE Rests(j)
  <2>. DEFINE c == [at |-> IF s \in initialized THEN "version" ELSE "recover", session |-> s,
        tool |-> r.tool, principal |-> r.principal, policy |-> r.policy, named |-> p,
        agent |-> None, participant |-> None, failed |-> FALSE, status |-> 0]
  <2>1. calls' = [calls EXCEPT ![k] = c]
    BY Zenon, <1>1 DEF Arrive
  <2>2. c.at \in {"version", "recover"}
    OBVIOUS
  <2>. HIDE DEF c
  <2>. QED
    BY Zenon, <1>0, <2>1, <2>2
<1>2. ASSUME NEW k \in Calls, Recover(k) PROVE Rests(j)
  <2>1. [calls[k] EXCEPT !.at = "version"].at = "version"
    BY <1>2, <1>f DEF Recover, Stages, Call
  <2>. QED
    BY Zenon, <1>0, <1>2, <2>1 DEF Recover
<1>3. ASSUME NEW k \in Calls, CheckVersion(k) PROVE Rests(j)
  <2>. DEFINE s == calls[k].session
              status == CASE s \notin DOMAIN version -> 500
                          [] s \in DOMAIN version
                            /\ negotiated[s] \notin {NoHeader, version[s]} -> 400
                          [] OTHER -> 200
              at == IF status = 200 THEN "agent" ELSE "refused"
              c == [calls[k] EXCEPT !.at = at, !.status = status]
  <2>1. calls[k].at = "version" /\ calls' = [calls EXCEPT ![k].at = at, ![k].status = status]
    BY Zenon, <1>3 DEF CheckVersion
  <2>2. at \notin {"resolve", "handle"}
    BY Zenon
  <2>. HIDE DEF status, at
  <2>3. c.at = at
    BY <1>f, <2>1 DEF Stages, Call
  <2>4. calls' = [calls EXCEPT ![k] = c]
    BY Zenon, <2>1
  <2>. QED
    BY Zenon, <1>0, <2>2, <2>3, <2>4
<1>4. ASSUME NEW k \in Calls, NEW named, NEW a, FindAgent(k, named, a) PROVE Rests(j)
  <2>. DEFINE s == calls[k].session
              found == CASE named # None -> named
                         [] named = None /\ s \in DOMAIN agents -> agents[s]
                         [] OTHER -> a
              c == [calls[k] EXCEPT !.agent = found, !.at = "attribute"]
  <2>1. calls[k].at = "agent" /\ calls' = [calls EXCEPT ![k] = c]
    BY Zenon, <1>4 DEF FindAgent
  <2>. HIDE DEF found
  <2>2. c.at = "attribute"
    BY <1>f, <2>1 DEF Stages, Call
  <2>. QED
    BY Zenon, <1>0, <2>1, <2>2
<1>5. ASSUME NEW k \in Calls, NEW failed, Dispatch(k, failed) PROVE Rests(j)
  <2>. DEFINE open == GrantAllows(CombinedGrant(calls[k].principal,
                        ParticipantGrant(calls[k].participant, failed), calls[k].policy),
                        calls[k].tool)
              d == [calls[k] EXCEPT !.at = "running", !.failed = failed]
              c == IF open THEN d ELSE NoCall
  <2>1. calls[k].at = "handle" /\ calls' = [calls EXCEPT ![k] = c]
    BY Zenon, <1>5 DEF Dispatch
  <2>. HIDE DEF open
  <2>2. d.at = "running"
    BY <1>f, <2>1 DEF Stages, Call
  <2>. HIDE DEF d
  <2>3. c.at \notin {"resolve", "handle"}
    BY Zenon, <1>g, <2>2
  <2>. QED
    BY Zenon, <1>0, <2>1, <2>3
<1>6. ASSUME NEW k \in Calls, NEW joined, Finish(k, joined) \/ Answer(k) PROVE Rests(j)
  BY Zenon, <1>0, <1>6, <1>g DEF Finish, Answer
<1>7. ASSUME NEW k \in Calls, Attribute(k) PROVE Rests(j) \/ Attribute(j)
  BY Zenon, <1>7 DEF Attribute, Rests, McpInv, McpTypes
<1>8. ASSUME NEW k \in Calls, NEW runs, ResolveFromAgent(k, runs), k # j PROVE Rests(j)
  BY Zenon, <1>8 DEF ResolveFromAgent, Rests, McpInv, McpTypes
<1>9. ASSUME calls' = calls PROVE Rests(j)
  BY Zenon, <1>9 DEF Rests
<1>10. CASE RestartServer
  BY Zenon, <1>10, <1>g DEF RestartServer, Rests
<1>11. ASSUME NEW s, NEW v, NEW sends, NEW a, NEW p,
              Initialize(s, v, sends, a, p) \/ OpenStream(s) \/ Disconnect(s) \/ EndStream(s)
                \/ Shutdown(v)
       PROVE  Rests(j)
  BY Zenon, <1>9, <1>11 DEF Initialize, OpenStream, Disconnect, EndStream, Shutdown
<1>. QED
  BY Zenon, <1>1, <1>2, <1>3, <1>4, <1>5, <1>6, <1>7, <1>8, <1>10, <1>11 DEF McpStep

\* A request that names a participant or finds one binds its session, and the session was
\* unbound when a request found none.
LEMMA SeenKeeps == McpInv /\ SeenInv /\ [McpNext]_mcpVars => SeenInv'
<1>. SUFFICES ASSUME McpInv, SeenInv, McpStep, Sees, NEW k \in Calls
              PROVE  /\ calls'[k].at = "resolve" => None \in bindings'[k]
                     /\ calls'[k].at = "handle" => calls'[k].participant \in bindings'[k]
  BY Zenon DEF SeenInv, McpNext, mcpVars, sessionVars
<1>1. calls'[k].at \in {"resolve", "handle"}
        => bindings'[k] = bindings[k] \cup {Lookup(participants', calls'[k].session)}
  BY Zenon DEF Sees, Reading
<1>2. CASE Rests(k)
  BY Zenon, <1>1, <1>2 DEF Rests, SeenInv
<1>f. calls[k].at \in Stages => calls[k] \in Call
  BY Zenon, CallFacts DEF McpInv
<1>w. ASSUME NEW f, NEW s, NEW q PROVE Lookup(With(f, s, q), s) = q
  BY Zenon DEF Lookup, With
<1>3. CASE Attribute(k)
  <2>. DEFINE p == NamedOrBound(calls[k])
              agent == IF p = None THEN calls[k].agent ELSE None
              at == IF p = None THEN "resolve" ELSE "handle"
              c == [calls[k] EXCEPT !.participant = p, !.named = None, !.agent = agent, !.at = at]
  <2>1. /\ calls[k].at = "attribute" /\ calls'[k] = c
        /\ participants' = IF calls[k].named = None THEN participants
                           ELSE With(participants, calls[k].session, calls[k].named)
    BY Zenon, <1>3 DEF Attribute, McpInv, McpTypes
  <2>2. at = "resolve" => p = None
    BY Zenon
  <2>3. Lookup(participants', calls[k].session) = p
    BY <1>w, <2>1 DEF NamedOrBound
  <2>. HIDE DEF p, agent, at
  <2>4. c.at = at /\ c.participant = p /\ c.session = calls[k].session
    BY <1>f, <2>1 DEF Stages, Call
  <2>. QED
    BY Zenon, <1>1, <2>1, <2>2, <2>3, <2>4
<1>4. ASSUME NEW runs \in BOOLEAN, ResolveFromAgent(k, runs)
      PROVE  calls'[k].at = "handle" /\ calls'[k].participant \in bindings'[k]
  <2>. DEFINE p == IF calls[k].agent = None \/ ~runs THEN None
                   ELSE AgentParticipant[calls[k].agent]
              c == [calls[k] EXCEPT !.participant = p, !.agent = None, !.at = "handle"]
  <2>1. /\ calls[k].at = "resolve" /\ calls'[k] = c
        /\ participants' = IF p = None THEN participants
                           ELSE With(participants, calls[k].session, p)
    BY Zenon, <1>4 DEF ResolveFromAgent, McpInv, McpTypes
  <2>. HIDE DEF p
  <2>2. c.at = "handle" /\ c.participant = p /\ c.session = calls[k].session
    BY <1>f, <2>1 DEF Stages, Call
  <2>3. p # None => Lookup(participants', calls[k].session) = p
    BY <1>w, <2>1
  <2>. QED
    BY Zenon, <1>1, <2>1, <2>2, <2>3 DEF SeenInv
<1>5. "handle" # "resolve"
  OBVIOUS
<1>. QED
  BY Zenon, <1>2, <1>3, <1>4, <1>5, StepRests

\* A request acts for a participant its session was bound to while the request was under way,
\* and for nobody only if the session was bound to nobody then (handlers.rs message_handler,
\* resolve_participant_from_agent).
THEOREM CallsActForTheirSession == McpSpec => []ActsForItsSession
<1>1. McpInit => SeenInv
  BY DEF McpInit, SeenInv, NoCall
<1>2. SeenInv => ActsForItsSession
  BY Zenon DEF SeenInv, ActsForItsSession
<1>. QED
  BY <1>1, <1>2, McpStarts, McpKeeps, SeenKeeps, PTL DEF McpSpec

-----------------------------------------------------------------------------
(***************************************************************************)
(* OAuthServer.  For any clients, asks and lifetimes.  GrantInv traces a   *)
(* token to the ask it was granted on; Balanced counts the live tokens     *)
(* nobody holds and the redemptions nobody waits for against the answers   *)
(* that were lost.                                                         *)
(***************************************************************************)

Scopes == {NormalizeScope(words) : words \in Requests}
Answers == {"pending", "approved", "denied"}
Phases == {"new", "registered", "waiting", "letin", "redeeming", "connected"}

OpenAsk == [client : Clients, scope : Scopes, at : Nat, code : BOOLEAN, issued : Int,
            used : BOOLEAN, shown : BOOLEAN]
Bearer == [ask : Nat, client : Clients, scope : Scopes, issued : Int, expires : Int,
           used : Int, revoked : BOOLEAN]
Connection == [phase : Phases, ask : Nat, bearer : Nat]
Redemption == [ask : Nat, client : BOOLEAN, proof : BOOLEAN, at : Nat]

OAuthTypes ==
  /\ clock \in Nat /\ lost \in Nat
  /\ asks \in Seq(OpenAsk) /\ tokens \in Seq(Bearer)
  /\ answer \in Seq(Answers) /\ Len(answer) = Len(asks)
  /\ client \in [Clients -> Connection]
  /\ minting \in SUBSET [ask : Nat, at : Nat]
  /\ redeeming \in SUBSET Redemption /\ IsFiniteSet(redeeming)
  /\ touching \in SUBSET [token : Nat, at : Nat]

\* A code is minted for an approved ask, within its time.
CodesGranted ==
  \A i \in 1..Len(asks) :
    /\ asks[i].code = FALSE => asks[i].issued = Never
    /\ asks[i].code = TRUE => answer[i] = "approved" /\ asks[i].issued - asks[i].at <= AskTTL

MintsGranted ==
  \A p \in minting :
    /\ p.ask \in 1..Len(asks) /\ answer[p.ask] = "approved"
    /\ p.at - asks[p.ask].at <= AskTTL

\* A client knows its own ask, and a bearer only when connected.
ClientsKnow ==
  \A c \in Clients :
    /\ client[c].phase \in {"waiting", "letin", "redeeming"} =>
         client[c].ask \in 1..Len(asks) /\ asks[client[c].ask].client = c
    /\ client[c].phase # "connected" => client[c].bearer = Nobody
    /\ client[c].phase = "connected" => client[c].bearer \in 1..Len(tokens)

\* A spent ask is redeemed once.
SpentOnce ==
  /\ \A r \in redeeming : r.ask \in 1..Len(asks) /\ asks[r.ask].used = TRUE
  /\ \A r, q \in redeeming : r.ask = q.ask => r = q
  /\ \A i \in 1..Len(tokens) : \A r \in redeeming : tokens[i].ask # r.ask

TokensGranted ==
  /\ \A i \in 1..Len(tokens) :
       /\ tokens[i].ask \in 1..Len(asks) /\ asks[tokens[i].ask].used = TRUE
       /\ answer[tokens[i].ask] = "approved"
       /\ tokens[i].client = asks[tokens[i].ask].client
       /\ tokens[i].scope = asks[tokens[i].ask].scope
       /\ tokens[i].issued - asks[tokens[i].ask].at <= AskTTL + CodeTTL
  /\ \A i, j \in 1..Len(tokens) : tokens[i].ask = tokens[j].ask => i = j

TouchesKnown == \A p \in touching : p.token \in 1..Len(tokens)

GrantInv == OAuthTypes /\ CodesGranted /\ MintsGranted /\ ClientsKnow /\ SpentOnce
              /\ TokensGranted /\ TouchesKnown

\* The live tokens no client holds, and the redemptions whose client no longer listens.
Unheld == {i \in 1..Len(tokens) :
             IsLiveAt(tokens[i], clock) /\ \A c \in Clients : client[c].bearer # i}
Heard(r) == /\ client[asks[r.ask].client].phase = "redeeming"
            /\ client[asks[r.ask].client].ask = r.ask
Unheard == {r \in redeeming : ~Heard(r)}

Balanced == Cardinality(Unheld) + Cardinality(Unheard) <= lost

OAuthInv == GrantInv /\ Balanced

-----------------------------------------------------------------------------
\* What no step undoes about the asks.
AsksKept ==
  /\ Len(asks) <= Len(asks')
  /\ \A i \in 1..Len(asks) :
       /\ asks'[i].client = asks[i].client /\ asks'[i].scope = asks[i].scope
       /\ asks'[i].at = asks[i].at
       /\ asks[i].used = TRUE => asks'[i].used = TRUE
       /\ answer[i] = "approved" => answer'[i] = "approved"

\* The length of a sequence.
LEMMA LenInNat ==
  ASSUME NEW S, NEW s \in Seq(S)
  PROVE  Len(s) \in Nat
  OBVIOUS

\* A sequence with one more entry.
LEMMA Appended ==
  ASSUME NEW S, NEW s \in Seq(S), NEW e \in S
  PROVE  /\ Append(s, e) \in Seq(S) /\ Len(s) \in Nat /\ Len(Append(s, e)) = Len(s) + 1
         /\ \A i \in 1..Len(s) : Append(s, e)[i] = s[i]
         /\ Append(s, e)[Len(s) + 1] = e
  OBVIOUS

\* Steps that keep the asks keep what was granted on them.
LEMMA KeptGranted ==
  ASSUME GrantInv, OAuthTypes', AsksKept
  PROVE  /\ minting' = minting => MintsGranted'
         /\ redeeming' = redeeming /\ tokens' = tokens => SpentOnce'
         /\ tokens' = tokens => TokensGranted'
         /\ client' = client /\ tokens' = tokens => ClientsKnow'
<1>1. 1..Len(asks) \subseteq 1..Len(asks')
  BY DEF GrantInv, OAuthTypes, AsksKept
<1>2. minting' = minting => MintsGranted'
  BY Zenon, <1>1 DEF GrantInv, MintsGranted, AsksKept
<1>3. redeeming' = redeeming /\ tokens' = tokens => SpentOnce'
  BY <1>1 DEF GrantInv, SpentOnce, AsksKept
<1>4. tokens' = tokens => TokensGranted'
  BY <1>1 DEF GrantInv, TokensGranted, AsksKept
<1>5. client' = client /\ tokens' = tokens => ClientsKnow'
  BY <1>1 DEF GrantInv, ClientsKnow, AsksKept
<1>. QED
  BY Zenon, <1>2, <1>3, <1>4, <1>5

\* One client moves on.
LEMMA ClientMoves ==
  ASSUME GrantInv, OAuthTypes', AsksKept, NEW c \in Clients, NEW next \in Connection,
         client' = [client EXCEPT ![c] = next],
         Len(tokens) <= Len(tokens'),
         next.phase \in {"waiting", "letin", "redeeming"} =>
           next.ask \in 1..Len(asks') /\ asks'[next.ask].client = c,
         next.phase # "connected" => next.bearer = Nobody,
         next.phase = "connected" => next.bearer \in 1..Len(tokens')
  PROVE  ClientsKnow'
<1>1. 1..Len(asks) \subseteq 1..Len(asks') /\ 1..Len(tokens) \subseteq 1..Len(tokens')
  BY DEF GrantInv, OAuthTypes, AsksKept
<1>2. client'[c] = next /\ \A d \in Clients : d # c => client'[d] = client[d]
  BY Zenon DEF GrantInv, OAuthTypes
<1>. SUFFICES ASSUME NEW d \in Clients
              PROVE  /\ client'[d].phase \in {"waiting", "letin", "redeeming"} =>
                          client'[d].ask \in 1..Len(asks') /\ asks'[client'[d].ask].client = d
                     /\ client'[d].phase # "connected" => client'[d].bearer = Nobody
                     /\ client'[d].phase = "connected" => client'[d].bearer \in 1..Len(tokens')
  BY Zenon DEF ClientsKnow
<1>3. CASE d = c
  BY Zenon, <1>2, <1>3
<1>4. CASE d # c
  BY <1>1, <1>2, <1>4 DEF GrantInv, ClientsKnow, AsksKept
<1>. QED
  BY Zenon, <1>3, <1>4

-----------------------------------------------------------------------------
(* Counting.                                                               *)

\* A finite set with one more member.
LEMMA AtMostOneMore ==
  ASSUME NEW S, IsFiniteSet(S), NEW x, NEW T, T \subseteq S \cup {x}
  PROVE  IsFiniteSet(T) /\ Cardinality(T) <= Cardinality(S) + 1 /\ Cardinality(T) \in Nat
<1>1. /\ IsFiniteSet(S \cup {x}) /\ Cardinality(S \cup {x}) \in Nat /\ Cardinality(S) \in Nat
      /\ Cardinality(S \cup {x}) <= Cardinality(S) + 1
  BY FS_AddElement, FS_CardinalityType
<1>2. IsFiniteSet(T) /\ Cardinality(T) <= Cardinality(S \cup {x}) /\ Cardinality(T) \in Nat
  BY Zenon, <1>1, FS_Subset, FS_CardinalityType
<1>. QED
  BY <1>1, <1>2

\* A subset of a finite set.
LEMMA NoMore ==
  ASSUME NEW S, IsFiniteSet(S), NEW T, T \subseteq S
  PROVE  IsFiniteSet(T) /\ Cardinality(T) <= Cardinality(S) /\ Cardinality(T) \in Nat
         /\ Cardinality(S) \in Nat
  BY Zenon, FS_Subset, FS_CardinalityType

\* A finite set with one member less.
LEMMA OneLess ==
  ASSUME NEW S, IsFiniteSet(S), NEW x \in S, NEW T, T \subseteq S \ {x}
  PROVE  Cardinality(T) + 1 <= Cardinality(S) /\ Cardinality(T) \in Nat
         /\ Cardinality(S) \in Nat
<1>1. /\ IsFiniteSet(S \ {x}) /\ Cardinality(S \ {x}) = Cardinality(S) - 1
      /\ Cardinality(S) \in Nat
  BY Zenon, FS_RemoveElement, FS_CardinalityType
<1>2. Cardinality(T) <= Cardinality(S \ {x}) /\ Cardinality(T) \in Nat
  BY Zenon, <1>1, FS_Subset, FS_CardinalityType
<1>. QED
  BY <1>1, <1>2

\* The tokens and redemptions counted are finitely many.
LEMMA CountedFinite == OAuthTypes => IsFiniteSet(Unheld) /\ IsFiniteSet(Unheard)
<1>. SUFFICES ASSUME OAuthTypes PROVE IsFiniteSet(Unheld) /\ IsFiniteSet(Unheard)
  BY Zenon
<1>1. IsFiniteSet(1..Len(tokens)) /\ Unheld \subseteq 1..Len(tokens)
  BY FS_Interval DEF OAuthTypes, Unheld
<1>2. IsFiniteSet(redeeming) /\ Unheard \subseteq redeeming
  BY Zenon DEF OAuthTypes, Unheard
<1>. QED
  BY Zenon, <1>1, <1>2, FS_Subset

\* The ways the balance is kept: nothing more to count, or one more for an answer lost, or an
\* unheard redemption that becomes an unheld token.
LEMMA BalanceKept ==
  ASSUME OAuthInv, lost' \in Nat, OAuthTypes',
         \/ Unheld' \subseteq Unheld /\ Unheard' \subseteq Unheard /\ lost' >= lost
         \/ /\ \E x : Unheld' \subseteq Unheld \cup {x}
            /\ Unheard' \subseteq Unheard /\ lost' = lost + 1
         \/ /\ \E x : Unheard' \subseteq Unheard \cup {x}
            /\ Unheld' \subseteq Unheld /\ lost' = lost + 1
         \/ /\ \E x : Unheld' \subseteq Unheld \cup {x}
            /\ \E r \in Unheard : Unheard' \subseteq Unheard \ {r}
            /\ lost' = lost
  PROVE  Balanced'
<1>. DEFINE S == Unheld
            T == Unheard
            U == Unheld'
            V == Unheard'
<1>1. IsFiniteSet(S) /\ IsFiniteSet(T) /\ Cardinality(S) + Cardinality(T) <= lost /\ lost \in Nat
  BY Zenon, CountedFinite DEF OAuthInv, GrantInv, Balanced, OAuthTypes
<1>2. Cardinality(S) \in Nat /\ Cardinality(T) \in Nat
  BY Zenon, <1>1, FS_CardinalityType
<1>3. \/ U \subseteq S /\ V \subseteq T /\ lost' >= lost
      \/ (\E x : U \subseteq S \cup {x}) /\ V \subseteq T /\ lost' = lost + 1
      \/ (\E x : V \subseteq T \cup {x}) /\ U \subseteq S /\ lost' = lost + 1
      \/ (\E x : U \subseteq S \cup {x}) /\ (\E r \in T : V \subseteq T \ {r}) /\ lost' = lost
  BY Zenon
<1>4. SUFFICES Cardinality(U) + Cardinality(V) <= lost'
  BY Zenon DEF Balanced
<1>. HIDE DEF S, T, U, V
<1>5. CASE U \subseteq S /\ V \subseteq T /\ lost' >= lost
  <2>1. Cardinality(U) <= Cardinality(S) /\ Cardinality(U) \in Nat
    BY Zenon, <1>1, <1>5, NoMore
  <2>2. Cardinality(V) <= Cardinality(T) /\ Cardinality(V) \in Nat
    BY Zenon, <1>1, <1>5, NoMore
  <2>. QED
    BY <1>1, <1>2, <1>5, <2>1, <2>2
<1>6. ASSUME NEW x, U \subseteq S \cup {x}, V \subseteq T, lost' = lost + 1
      PROVE  Cardinality(U) + Cardinality(V) <= lost'
  <2>1. Cardinality(U) <= Cardinality(S) + 1 /\ Cardinality(U) \in Nat
    BY Zenon, <1>1, <1>6, AtMostOneMore
  <2>2. Cardinality(V) <= Cardinality(T) /\ Cardinality(V) \in Nat
    BY Zenon, <1>1, <1>6, NoMore
  <2>. QED
    BY <1>1, <1>2, <1>6, <2>1, <2>2
<1>7. ASSUME NEW x, V \subseteq T \cup {x}, U \subseteq S, lost' = lost + 1
      PROVE  Cardinality(U) + Cardinality(V) <= lost'
  <2>1. Cardinality(V) <= Cardinality(T) + 1 /\ Cardinality(V) \in Nat
    BY Zenon, <1>1, <1>7, AtMostOneMore
  <2>2. Cardinality(U) <= Cardinality(S) /\ Cardinality(U) \in Nat
    BY Zenon, <1>1, <1>7, NoMore
  <2>. QED
    BY <1>1, <1>2, <1>7, <2>1, <2>2
<1>8. ASSUME NEW x, NEW r \in T, U \subseteq S \cup {x}, V \subseteq T \ {r}, lost' = lost
      PROVE  Cardinality(U) + Cardinality(V) <= lost'
  <2>1. Cardinality(U) <= Cardinality(S) + 1 /\ Cardinality(U) \in Nat
    BY Zenon, <1>1, <1>8, AtMostOneMore
  <2>2. Cardinality(V) + 1 <= Cardinality(T) /\ Cardinality(V) \in Nat
    BY Zenon, <1>1, <1>8, OneLess
  <2>. QED
    BY <1>1, <1>2, <1>8, <2>1, <2>2
<1>. QED
  BY Zenon, <1>3, <1>5, <1>6, <1>7, <1>8

-----------------------------------------------------------------------------
\* What a client that is not redeeming hears, or does not, keeps the balance.
LEMMA QuietMove ==
  ASSUME OAuthInv, OAuthTypes', AsksKept, NEW c \in Clients, NEW next \in Connection,
         client' = client \/ client' = [client EXCEPT ![c] = next],
         redeeming' = redeeming, lost' >= lost, Len(tokens') = Len(tokens),
         \A i \in 1..Len(tokens) : IsLiveAt(tokens'[i], clock') => IsLiveAt(tokens[i], clock),
         client[c].phase # "redeeming",
         \/ client[c].bearer = Nobody
         \/ ~IsLiveAt(tokens'[client[c].bearer], clock')
  PROVE  Balanced'
<1>1. \A d \in Clients : d # c => client'[d] = client[d]
  BY Zenon DEF OAuthInv, GrantInv, OAuthTypes
<1>2. Unheld' \subseteq Unheld
  <2>. SUFFICES ASSUME NEW i \in 1..Len(tokens'), IsLiveAt(tokens'[i], clock'),
                       \A d \in Clients : client'[d].bearer # i
                PROVE  i \in Unheld
    BY Zenon DEF Unheld
  <2>1. i \in 1..Len(tokens) /\ IsLiveAt(tokens[i], clock)
    BY Zenon
  <2>2. client[c].bearer # i
    BY <2>1 DEF Nobody
  <2>. QED
    BY Zenon, <1>1, <2>1, <2>2 DEF Unheld
<1>3. Unheard' \subseteq Unheard
  <2>. SUFFICES ASSUME NEW r \in redeeming, Heard(r) PROVE Heard(r)'
    BY Zenon DEF Unheard
  <2>1. r.ask \in 1..Len(asks) /\ asks'[r.ask].client = asks[r.ask].client
    BY Zenon DEF OAuthInv, GrantInv, SpentOnce, AsksKept
  <2>2. asks[r.ask].client \in Clients /\ asks[r.ask].client # c
    <3>1. asks[r.ask] \in OpenAsk
      BY <2>1 DEF OAuthInv, GrantInv, OAuthTypes
    <3>2. asks[r.ask].client \in Clients
      BY Zenon, <3>1 DEF OpenAsk
    <3>. QED
      BY Zenon, <3>2 DEF Heard
  <2>. QED
    BY Zenon, <1>1, <2>1, <2>2 DEF Heard
<1>4. lost' \in Nat
  BY Zenon DEF OAuthTypes
<1>. QED
  BY Zenon, <1>2, <1>3, <1>4, BalanceKept

\* A handler that changes asks and codes at most, and answers a client that is not redeeming.
LEMMA AnsweredKeeps ==
  ASSUME OAuthInv, AsksKept, NEW c \in Clients, NEW next \in Connection, Answered(c, next),
         asks' \in Seq(OpenAsk), answer' \in Seq(Answers), Len(answer') = Len(asks'),
         minting' \in SUBSET [ask : Nat, at : Nat], CodesGranted', MintsGranted',
         UNCHANGED <<clock, redeeming, tokens, touching>>,
         client[c].phase # "redeeming",
         client[c].bearer = Nobody \/ ~IsLiveAt(tokens[client[c].bearer], clock),
         next.phase \in {"waiting", "letin"} =>
           next.ask \in 1..Len(asks') /\ asks'[next.ask].client = c,
         \/ next.phase \notin {"redeeming", "connected"} /\ next.bearer = Nobody
         \/ next = client[c]
  PROVE  OAuthInv'
<1>1. /\ client' = client \/ client' = [client EXCEPT ![c] = next]
      /\ lost' \in Nat /\ lost' >= lost
  BY DEF Answered, OAuthInv, GrantInv, OAuthTypes
<1>2. OAuthTypes'
  BY Zenon, <1>1 DEF OAuthInv, GrantInv, OAuthTypes
<1>3. ClientsKnow'
  <2>1. CASE client' = client
    BY Zenon, <1>2, <2>1, KeptGranted DEF OAuthInv
  <2>2. CASE client' = [client EXCEPT ![c] = next]
    <3>1. next.phase # "connected" => next.bearer = Nobody
      BY Zenon DEF OAuthInv, GrantInv, ClientsKnow
    <3>2. next.phase = "connected" => next.bearer \in 1..Len(tokens')
      BY Zenon DEF OAuthInv, GrantInv, ClientsKnow
    <3>3. next.phase \in {"waiting", "letin", "redeeming"} =>
             next.ask \in 1..Len(asks') /\ asks'[next.ask].client = c
      BY Zenon
    <3>4. Len(tokens) <= Len(tokens')
      BY <1>2 DEF OAuthTypes
    <3>. QED
      BY Zenon, <1>2, <2>2, <3>1, <3>2, <3>3, <3>4, ClientMoves DEF OAuthInv
  <2>. QED
    BY Zenon, <1>1, <2>1, <2>2
<1>4. SpentOnce' /\ TokensGranted'
  BY Zenon, <1>2, KeptGranted DEF OAuthInv
<1>5. TouchesKnown'
  BY Zenon DEF OAuthInv, GrantInv, TouchesKnown
<1>6. Balanced'
  BY Zenon, <1>1, <1>2, QuietMove
<1>. QED
  BY Zenon, <1>2, <1>3, <1>4, <1>5, <1>6 DEF OAuthInv, GrantInv

\* A client without an ask or a bearer.
LEMMA FreshFacts ==
  ASSUME NEW phase \in {"new", "registered", "waiting", "letin", "connected"}
  PROVE  /\ Fresh(phase) \in Connection
         /\ Fresh(phase).phase = phase /\ Fresh(phase).ask = 0 /\ Fresh(phase).bearer = Nobody
  BY Zenon DEF Fresh, Connection, Phases, Nobody

\* A step that leaves the asks and their answers.
LEMMA AsksUnchanged ==
  ASSUME OAuthInv, asks' = asks, answer' = answer
  PROVE  AsksKept /\ asks' \in Seq(OpenAsk) /\ answer' \in Seq(Answers)
           /\ Len(answer') = Len(asks')
         /\ CodesGranted'
  BY DEF AsksKept, OAuthInv, GrantInv, OAuthTypes, CodesGranted

\* A client registers.
LEMMA RegisterKeeps ==
  ASSUME OAuthInv, NEW c \in Clients, NEW good \in BOOLEAN, Register(c, good)
  PROVE  OAuthInv'
<1>. DEFINE next == RegisteredAs(c, RegisterStatus(good))
<1>1. /\ client[c].phase = "new" /\ Answered(c, next)
      /\ UNCHANGED <<clock, asks, answer, minting, redeeming, tokens, touching>>
  BY Zenon DEF Register
<1>2. client[c] \in Connection /\ client[c].bearer = Nobody
  BY Zenon, <1>1 DEF OAuthInv, GrantInv, OAuthTypes, ClientsKnow
<1>3. next \in Connection /\ next.phase \in {"new", "registered"} /\ next.bearer = Nobody
  BY Zenon, <1>1, <1>2, FreshFacts DEF RegisteredAs
<1>. HIDE DEF next
<1>4. minting' \in SUBSET [ask : Nat, at : Nat] /\ MintsGranted'
  BY Zenon, <1>1 DEF OAuthInv, GrantInv, OAuthTypes, MintsGranted
<1>. QED
  BY Zenon, <1>1, <1>2, <1>3, <1>4, AsksUnchanged, AnsweredKeeps

\* A client asks for access (authorize).
LEMMA AuthorizeKeeps ==
  ASSUME OAuthInv, NEW c \in Clients, NEW words \in Requests, NEW met, Authorize(c, words, met)
  PROVE  OAuthInv'
<1>. DEFINE status == AuthorizeStatus(words, met)
            next == AskedAs(c, status, Len(asks) + 1)
            new == [client |-> c, scope |-> NormalizeScope(words), at |-> clock, code |-> FALSE,
                    issued |-> Never, used |-> FALSE, shown |-> (status = 200)]
<1>1. /\ client[c].phase = "registered" /\ Answered(c, next)
      /\ UNCHANGED <<clock, minting, redeeming, tokens, touching>>
      /\ status \in {200, 500} => asks' = Append(asks, new) /\ answer' = Append(answer, "pending")
      /\ status \notin {200, 500} => asks' = asks /\ answer' = answer
  BY Zenon DEF Authorize, PutAsk
<1>2. client[c] \in Connection /\ client[c].bearer = Nobody
  BY Zenon, <1>1 DEF OAuthInv, GrantInv, OAuthTypes, ClientsKnow
<1>3. /\ next \in Connection /\ next.phase \in {"registered", "waiting"} /\ next.bearer = Nobody
      /\ next.phase = "waiting" => status = 200 /\ next.ask = Len(asks) + 1
  <2>1. Len(asks) + 1 \in Nat
    BY DEF OAuthInv, GrantInv, OAuthTypes
  <2>2. [Fresh("waiting") EXCEPT !.ask = Len(asks) + 1]
          = [phase |-> "waiting", ask |-> Len(asks) + 1, bearer |-> Nobody]
    BY DEF Fresh
  <2>3. next = IF status = 200 THEN [phase |-> "waiting", ask |-> Len(asks) + 1,
          bearer |-> Nobody]
               ELSE client[c]
    BY Zenon, <2>2 DEF AskedAs
  <2>. HIDE DEF next
  <2>. QED
    BY Zenon, <1>1, <1>2, <2>1, <2>3 DEF Connection, Phases, Nobody
<1>4. new \in OpenAsk /\ new.client = c /\ new.code = FALSE /\ new.issued = Never
  BY DEF OpenAsk, Scopes, OAuthInv, GrantInv, OAuthTypes, Never
<1>. HIDE DEF next, new, status
<1>5. CASE status \notin {200, 500}
  <2>1. minting' \in SUBSET [ask : Nat, at : Nat] /\ MintsGranted'
    BY Zenon, <1>1, <1>5 DEF OAuthInv, GrantInv, OAuthTypes, MintsGranted
  <2>. QED
    BY Zenon, <1>1, <1>2, <1>3, <1>5, <2>1, AsksUnchanged, AnsweredKeeps
<1>6. CASE status \in {200, 500}
  <2>1. /\ asks' \in Seq(OpenAsk) /\ Len(asks') = Len(asks) + 1 /\ Len(asks) \in Nat
        /\ answer' \in Seq(Answers) /\ Len(answer') = Len(asks) + 1
        /\ \A i \in 1..Len(asks) : asks'[i] = asks[i] /\ answer'[i] = answer[i]
        /\ asks'[Len(asks) + 1] = new
    <3>1. asks \in Seq(OpenAsk) /\ answer \in Seq(Answers) /\ Len(answer) = Len(asks)
      BY Zenon DEF OAuthInv, GrantInv, OAuthTypes
    <3>2. "pending" \in Answers
      BY Zenon DEF Answers
    <3>3. asks' = Append(asks, new) /\ answer' = Append(answer, "pending")
      BY Zenon, <1>1, <1>6
    <3>4. /\ asks' \in Seq(OpenAsk) /\ Len(asks') = Len(asks) + 1 /\ Len(asks) \in Nat
          /\ \A i \in 1..Len(asks) : asks'[i] = asks[i]
          /\ asks'[Len(asks) + 1] = new
      BY <1>4, <3>1, <3>3, Appended
    <3>5. /\ answer' \in Seq(Answers) /\ Len(answer') = Len(asks) + 1
          /\ \A i \in 1..Len(asks) : answer'[i] = answer[i]
      BY <3>1, <3>2, <3>3, Appended
    <3>. QED
      BY Zenon, <3>4, <3>5
  <2>2. AsksKept
    BY <2>1 DEF AsksKept
  <2>3. CodesGranted'
    <3>. SUFFICES ASSUME NEW i \in 1..Len(asks')
                  PROVE  /\ asks'[i].code = FALSE => asks'[i].issued = Never
                         /\ asks'[i].code = TRUE => answer'[i] = "approved"
                                                     /\ asks'[i].issued - asks'[i].at <= AskTTL
      BY Zenon DEF CodesGranted
    <3>1. i \in 1..Len(asks) \/ i = Len(asks) + 1
      BY <2>1
    <3>. QED
      BY Zenon, <1>4, <2>1, <3>1 DEF OAuthInv, GrantInv, CodesGranted
  <2>4. minting' \in SUBSET [ask : Nat, at : Nat] /\ MintsGranted'
    BY <1>1, <2>1 DEF OAuthInv, GrantInv, OAuthTypes, MintsGranted
  <2>5. next.phase \in {"waiting", "letin"} =>
           next.ask \in 1..Len(asks') /\ asks'[next.ask].client = c
    BY <1>3, <1>4, <2>1
  <2>. QED
    BY <1>1, <1>2, <1>3, <2>1, <2>2, <2>3, <2>4, <2>5, AnsweredKeeps
<1>. QED
  BY Zenon, <1>5, <1>6

\* The person's answer is the first and the last for its ask.
LEMMA DecideKeeps ==
  ASSUME OAuthInv, NEW i \in 1..Len(asks), Decide(i)
  PROVE  OAuthInv'
<1>1. PICK a \in {"approved", "denied"} : answer' = [answer EXCEPT ![i] = a]
  BY Zenon DEF Decide
<1>2. /\ answer[i] = "pending"
      /\ UNCHANGED <<clock, asks, minting, redeeming, tokens, touching, client, lost>>
  BY Zenon DEF Decide
<1>3. /\ answer' \in Seq(Answers) /\ Len(answer') = Len(asks)
      /\ \A j \in 1..Len(asks) : answer[j] = "approved" => answer'[j] = "approved"
  <2>1. answer \in Seq(Answers) /\ Len(answer) = Len(asks) /\ a \in Answers
    BY Zenon DEF OAuthInv, GrantInv, OAuthTypes, Answers
  <2>. QED
    BY <1>1, <1>2, <2>1
<1>4. AsksKept
  BY <1>2, <1>3 DEF AsksKept, OAuthInv, GrantInv, OAuthTypes
<1>5. OAuthTypes'
  BY Zenon, <1>2, <1>3 DEF OAuthInv, GrantInv, OAuthTypes
<1>6. CodesGranted'
  BY Zenon, <1>2, <1>3 DEF OAuthInv, GrantInv, CodesGranted
<1>7. MintsGranted' /\ ClientsKnow' /\ SpentOnce' /\ TokensGranted'
  BY Zenon, <1>2, <1>4, <1>5, KeptGranted DEF OAuthInv
<1>8. TouchesKnown' /\ Balanced'
  BY Zenon, <1>2 DEF OAuthInv, GrantInv, TouchesKnown, Balanced, Unheld, Unheard, Heard
<1>. QED
  BY Zenon, <1>5, <1>6, <1>7, <1>8 DEF OAuthInv, GrantInv

\* What a poll that is not about to mint answers.
LEMMA ToldKeeps ==
  ASSUME OAuthInv, NEW c \in Clients, client[c].phase = "waiting",
         NEW moved, Told(c, moved),
         AsksKept, asks' \in Seq(OpenAsk), answer' \in Seq(Answers), Len(answer') = Len(asks'),
         minting' \in SUBSET [ask : Nat, at : Nat], CodesGranted', MintsGranted',
         UNCHANGED <<clock, redeeming, tokens, touching>>
  PROVE  OAuthInv'
<1>. DEFINE next == PolledAs(c, AskStatus(moved), moved)
<1>1. /\ client[c] \in Connection /\ client[c].bearer = Nobody
      /\ client[c].ask \in 1..Len(asks) /\ asks[client[c].ask].client = c
  BY Zenon DEF OAuthInv, GrantInv, OAuthTypes, ClientsKnow
<1>2. client[c].ask \in 1..Len(asks') /\ asks'[client[c].ask].client = c
  BY <1>1 DEF AsksKept, OAuthInv, GrantInv, OAuthTypes
<1>3. /\ next \in Connection /\ next.phase \in {"waiting", "letin", "registered"}
      /\ next.bearer = Nobody
      /\ next.phase \in {"waiting", "letin"} => next.ask = client[c].ask
  <2>1. next \in {client[c], [client[c] EXCEPT !.phase = "letin"], Fresh("registered")}
    BY Zenon DEF PolledAs
  <2>. HIDE DEF next
  <2>2. CASE next = client[c]
    BY Zenon, <1>1, <2>2
  <2>3. CASE next = [client[c] EXCEPT !.phase = "letin"]
    BY Zenon, <1>1, <2>3 DEF Connection, Phases
  <2>4. CASE next = Fresh("registered")
    BY Zenon, <2>4, FreshFacts
  <2>. QED
    BY Zenon, <2>1, <2>2, <2>3, <2>4
<1>4. Answered(c, next)
  BY Zenon DEF Told
<1>. HIDE DEF next
<1>. QED
  BY Zenon, <1>1, <1>2, <1>3, <1>4, AnsweredKeeps

\* The waiting page is told the answer.
LEMMA PollKeeps ==
  ASSUME OAuthInv, NEW c \in Clients, Poll(c)
  PROVE  OAuthInv'
<1>. DEFINE i == client[c].ask
            p == [ask |-> i, at |-> clock]
<1>1. client[c].phase = "waiting"
        /\ UNCHANGED <<clock, asks, answer, redeeming, tokens, touching>>
  BY Zenon DEF Poll
<1>2. i \in 1..Len(asks)
  BY Zenon, <1>1 DEF OAuthInv, GrantInv, ClientsKnow
<1>3. CASE ProgressOf(i) = "mint" /\ minting' = minting \cup {p} /\ UNCHANGED <<client, lost>>
  <2>1. answer[i] = "approved" /\ ~AskIsOver(asks[i])
    <3>1. answer[i] \in Answers
      BY <1>2 DEF OAuthInv, GrantInv, OAuthTypes
    <3>. QED
      BY Zenon, <1>3, <3>1 DEF ProgressOf, Answers
  <2>2. clock - asks[i].at <= AskTTL /\ i \in Nat /\ clock \in Nat
    <3>1. asks[i] \in OpenAsk /\ clock \in Nat
      BY <1>2 DEF OAuthInv, GrantInv, OAuthTypes
    <3>2. asks[i].at \in Nat
      BY Zenon, <3>1 DEF OpenAsk
    <3>. QED
      BY <1>2, <2>1, <3>1, <3>2, OAuthAssumption DEF AskIsOver
  <2>3. p \in [ask : Nat, at : Nat] /\ p.ask = i /\ p.at = clock
    BY Zenon, <2>2
  <2>. HIDE DEF p, i
  <2>4. minting' \in SUBSET [ask : Nat, at : Nat]
    BY Zenon, <1>3, <2>3 DEF OAuthInv, GrantInv, OAuthTypes
  <2>5. OAuthTypes'
    BY Zenon, <1>1, <1>3, <2>4 DEF OAuthInv, GrantInv, OAuthTypes
  <2>6. MintsGranted'
    BY Zenon, <1>1, <1>2, <1>3, <2>1, <2>2, <2>3 DEF OAuthInv, GrantInv, MintsGranted
  <2>7. CodesGranted' /\ ClientsKnow' /\ SpentOnce' /\ TokensGranted' /\ TouchesKnown'
    BY Zenon, <1>1, <1>3
    DEF OAuthInv, GrantInv, CodesGranted, ClientsKnow, SpentOnce, TokensGranted,
                      TouchesKnown
  <2>8. Balanced'
    BY Zenon, <1>1, <1>3 DEF OAuthInv, Balanced, Unheld, Unheard, Heard
  <2>. QED
    BY Zenon, <2>5, <2>6, <2>7, <2>8 DEF OAuthInv, GrantInv
<1>4. CASE Told(c, ProgressOf(i)) /\ UNCHANGED minting
  <2>1. minting' \in SUBSET [ask : Nat, at : Nat] /\ MintsGranted'
    BY Zenon, <1>1, <1>4 DEF OAuthInv, GrantInv, OAuthTypes, MintsGranted
  <2>. QED
    BY Zenon, <1>1, <1>4, <2>1, AsksUnchanged, ToldKeeps
<1>. QED
  BY Zenon, <1>3, <1>4 DEF Poll

\* The waiting page mints the code of an approved ask.
LEMMA MintCodeKeeps ==
  ASSUME OAuthInv, NEW p \in minting, MintCode(p)
  PROVE  OAuthInv'
<1>. DEFINE a == asks[p.ask]
            b == Minted(a, p.at)
<1>1. /\ minting' = minting \ {p} /\ asks' = [asks EXCEPT ![p.ask] = b]
      /\ UNCHANGED <<clock, answer, redeeming, tokens, touching>>
  BY Zenon DEF MintCode
<1>2. /\ p.ask \in 1..Len(asks) /\ answer[p.ask] = "approved" /\ p.at - a.at <= AskTTL
      /\ p.at \in Nat /\ a \in OpenAsk
  BY DEF OAuthInv, GrantInv, OAuthTypes, MintsGranted
<1>3. /\ b \in OpenAsk /\ b.client = a.client /\ b.scope = a.scope /\ b.at = a.at
           /\ b.used = a.used
      /\ b.code = TRUE
      /\ b = a \/ b.issued = p.at
  <2>1. CASE a.code
    BY Zenon, <1>2, <2>1 DEF Minted, OpenAsk
  <2>2. CASE ~a.code
    <3>. DEFINE d == [a EXCEPT !.code = TRUE]
    <3>1. d \in OpenAsk /\ d.client = a.client /\ d.scope = a.scope /\ d.at = a.at
            /\ d.used = a.used
            /\ d.code = TRUE
      BY Zenon, <1>2 DEF OpenAsk
    <3>2. b = [d EXCEPT !.issued = p.at]
      BY Zenon, <2>2 DEF Minted
    <3>. HIDE DEF d, b
    <3>. QED
      BY <1>2, <3>1, <3>2 DEF OpenAsk
  <2>. QED
    BY Zenon, <2>1, <2>2
<1>. HIDE DEF b
<1>4. /\ asks' \in Seq(OpenAsk) /\ Len(asks') = Len(asks) /\ asks'[p.ask] = b
      /\ \A i \in 1..Len(asks) : i # p.ask => asks'[i] = asks[i]
      /\ Len(asks) \in Nat /\ answer \in Seq(Answers) /\ Len(answer) = Len(asks)
  BY <1>1, <1>2, <1>3 DEF OAuthInv, GrantInv, OAuthTypes
<1>5. AsksKept
  BY <1>1, <1>3, <1>4 DEF AsksKept
<1>6. CodesGranted'
  <2>. SUFFICES ASSUME NEW i \in 1..Len(asks)
                PROVE  /\ asks'[i].code = FALSE => asks'[i].issued = Never
                       /\ asks'[i].code = TRUE => answer[i] = "approved"
                                                   /\ asks'[i].issued - asks'[i].at <= AskTTL
    BY Zenon, <1>1, <1>4 DEF CodesGranted
  <2>1. CASE i # p.ask
    BY Zenon, <1>4, <2>1 DEF OAuthInv, GrantInv, CodesGranted
  <2>2. CASE i = p.ask /\ b = a
    BY Zenon, <1>4, <2>2 DEF OAuthInv, GrantInv, CodesGranted
  <2>3. CASE i = p.ask /\ b.issued = p.at
    BY Zenon, <1>2, <1>3, <1>4, <2>3
  <2>. QED
    BY Zenon, <1>3, <2>1, <2>2, <2>3
<1>7. minting' \in SUBSET [ask : Nat, at : Nat]
  BY Zenon, <1>1 DEF OAuthInv, GrantInv, OAuthTypes
<1>8. MintsGranted'
  BY Zenon, <1>1, <1>4, <1>5 DEF OAuthInv, GrantInv, MintsGranted, AsksKept
<1>9. a.client \in Clients
  BY Zenon, <1>2 DEF OpenAsk
<1>10. CASE client[a.client].phase = "waiting" /\ client[a.client].ask = p.ask
  <2>1. \E moved : Told(a.client, moved)
    BY Zenon, <1>10 DEF MintCode
  <2>. QED
    BY Zenon, <1>1, <1>4, <1>5, <1>6, <1>7, <1>8, <1>9, <1>10, <2>1, ToldKeeps
<1>11. CASE ~(client[a.client].phase = "waiting" /\ client[a.client].ask = p.ask)
  <2>1. UNCHANGED <<client, lost>>
    BY Zenon, <1>11 DEF MintCode
  <2>2. OAuthTypes'
    BY Zenon, <1>1, <1>4, <1>7, <2>1 DEF OAuthInv, GrantInv, OAuthTypes
  <2>3. ClientsKnow' /\ SpentOnce' /\ TokensGranted'
    BY Zenon, <1>1, <1>5, <2>1, <2>2, KeptGranted DEF OAuthInv
  <2>4. TouchesKnown'
    BY Zenon, <1>1 DEF OAuthInv, GrantInv, TouchesKnown
  <2>5. Balanced'
    <3>1. Unheld' = Unheld
      BY Zenon, <1>1, <2>1 DEF Unheld
    <3>2. Unheard' = Unheard
      BY Zenon, <1>1, <1>5, <2>1 DEF Unheard, Heard, AsksKept, OAuthInv, GrantInv, SpentOnce
    <3>. QED
      BY Zenon, <2>1, <3>1, <3>2 DEF OAuthInv, Balanced
  <2>. QED
    BY Zenon, <1>6, <1>8, <2>2, <2>3, <2>4, <2>5 DEF OAuthInv, GrantInv
<1>. QED
  BY Zenon, <1>10, <1>11

\* A code is spent for a token, once.
LEMMA RedeemCodeKeeps ==
  ASSUME OAuthInv, NEW c \in Clients, NEW named \in BOOLEAN, NEW proven \in BOOLEAN,
         RedeemCode(c, named, proven)
  PROVE  OAuthInv'
<1>. DEFINE i == client[c].ask
            r == [ask |-> i, client |-> named, proof |-> proven, at |-> clock]
            b == MarkUsed(asks[i])
            next == [client[c] EXCEPT !.phase = "redeeming"]
<1>1. client[c].phase = "letin" /\ UNCHANGED <<clock, answer, minting, tokens, touching>>
  BY Zenon DEF RedeemCode
<1>2. /\ i \in 1..Len(asks) /\ asks[i].client = c /\ client[c] \in Connection
      /\ client[c].bearer = Nobody /\ asks[i] \in OpenAsk /\ clock \in Nat /\ i \in Nat
  BY <1>1 DEF OAuthInv, GrantInv, OAuthTypes, ClientsKnow
<1>3. CASE asks[i].used
  <2>1. Answered(c, Fresh("registered")) /\ UNCHANGED <<asks, redeeming>>
    BY Zenon, <1>3 DEF RedeemCode
  <2>2. minting' \in SUBSET [ask : Nat, at : Nat] /\ MintsGranted'
    BY Zenon, <1>1, <2>1 DEF OAuthInv, GrantInv, OAuthTypes, MintsGranted
  <2>. QED
    BY Zenon, <1>1, <1>2, <2>1, <2>2, FreshFacts, AsksUnchanged, AnsweredKeeps
<1>4. CASE ~asks[i].used
  <2>1. /\ asks' = [asks EXCEPT ![i] = b] /\ redeeming' = redeeming \cup {r}
        /\ client' = [client EXCEPT ![c] = next] /\ lost' = lost
    BY Zenon, <1>4 DEF RedeemCode
  <2>2. r \in Redemption /\ r.ask = i
    BY Zenon, <1>2 DEF Redemption
  <2>3. b \in OpenAsk /\ b.client = asks[i].client /\ b.scope = asks[i].scope /\ b.at = asks[i].at
          /\ b.code = asks[i].code /\ b.issued = asks[i].issued /\ b.used = TRUE
    BY Zenon, <1>2 DEF OpenAsk, MarkUsed
  <2>4. next \in Connection /\ next.phase = "redeeming" /\ next.ask = i /\ next.bearer = Nobody
    BY Zenon, <1>2 DEF Connection, Phases
  <2>. HIDE DEF i, r, b, next
  <2>5. /\ asks' \in Seq(OpenAsk) /\ Len(asks') = Len(asks) /\ asks'[i] = b
        /\ \A j \in 1..Len(asks) : j # i => asks'[j] = asks[j]
        /\ Len(asks) \in Nat
    BY <1>2, <2>1, <2>3 DEF OAuthInv, GrantInv, OAuthTypes
  <2>6. AsksKept
    BY <1>1, <2>3, <2>5 DEF AsksKept
  <2>7. OAuthTypes'
    <3>1. redeeming' \in SUBSET Redemption /\ IsFiniteSet(redeeming')
      BY Zenon, <2>1, <2>2, FS_AddElement DEF OAuthInv, GrantInv, OAuthTypes
    <3>2. client' \in [Clients -> Connection]
      BY Zenon, <2>1, <2>4 DEF OAuthInv, GrantInv, OAuthTypes
    <3>. QED
      BY Zenon, <1>1, <2>1, <2>5, <3>1, <3>2 DEF OAuthInv, GrantInv, OAuthTypes
  <2>8. CodesGranted'
    BY <1>1, <2>3, <2>5 DEF OAuthInv, GrantInv, CodesGranted
  <2>9. MintsGranted' /\ TokensGranted'
    BY Zenon, <1>1, <2>6, <2>7, KeptGranted DEF OAuthInv
  <2>10. Len(tokens) <= Len(tokens')
    BY <1>1 DEF OAuthInv, GrantInv, OAuthTypes
  <2>11. ClientsKnow'
    BY Zenon, <1>2, <2>1, <2>3, <2>4, <2>5, <2>6, <2>7, <2>10, ClientMoves DEF OAuthInv
  <2>12. asks[i].used = FALSE
    BY Zenon, <1>2, <1>4 DEF OpenAsk, i
  <2>13. SpentOnce'
    <3>1. \A q \in redeeming : q.ask \in 1..Len(asks) /\ asks'[q.ask].used = TRUE /\ q.ask # i
      BY Zenon, <2>5, <2>6, <2>12 DEF OAuthInv, GrantInv, SpentOnce, AsksKept
    <3>2. \A k \in 1..Len(tokens) : tokens[k].ask # i
      BY Zenon, <2>12 DEF OAuthInv, GrantInv, TokensGranted
    <3>3. \A q, s \in redeeming' : q.ask = s.ask => q = s
      BY Zenon, <2>1, <2>2, <3>1 DEF OAuthInv, GrantInv, SpentOnce
    <3>4. \A k \in 1..Len(tokens) : \A q \in redeeming' : tokens[k].ask # q.ask
      BY Zenon, <2>1, <2>2, <3>2 DEF OAuthInv, GrantInv, SpentOnce
    <3>5. \A q \in redeeming' : q.ask \in 1..Len(asks') /\ asks'[q.ask].used = TRUE
      BY Zenon, <1>2, <2>1, <2>2, <2>3, <2>5, <3>1
    <3>. QED
      BY Zenon, <1>1, <3>3, <3>4, <3>5 DEF SpentOnce
  <2>14. TouchesKnown'
    BY Zenon, <1>1 DEF OAuthInv, GrantInv, TouchesKnown
  <2>15. client'[c] = next /\ \A d \in Clients : d # c => client'[d] = client[d]
    BY Zenon, <2>1 DEF OAuthInv, GrantInv, OAuthTypes
  <2>16. Unheld' \subseteq Unheld
    BY Zenon, <1>1, <1>2, <2>4, <2>15 DEF Unheld
  <2>17. Unheard' \subseteq Unheard
    <3>. SUFFICES ASSUME NEW q \in redeeming', ~Heard(q)' PROVE q \in Unheard
      BY Zenon DEF Unheard
    <3>1. q # r
      BY Zenon, <1>2, <2>2, <2>3, <2>4, <2>5, <2>15 DEF Heard
    <3>2. q \in redeeming /\ q.ask \in 1..Len(asks)
      BY Zenon, <2>1, <3>1 DEF OAuthInv, GrantInv, SpentOnce
    <3>3. asks'[q.ask].client = asks[q.ask].client /\ asks[q.ask].client \in Clients
      <4>1. asks[q.ask] \in OpenAsk
        BY <3>2 DEF OAuthInv, GrantInv, OAuthTypes
      <4>. QED
        BY Zenon, <2>6, <3>2, <4>1 DEF AsksKept, OpenAsk
    <3>4. ~Heard(q)
      BY Zenon, <1>1, <2>15, <3>3 DEF Heard
    <3>. QED
      BY Zenon, <3>2, <3>4 DEF Unheard
  <2>18. Balanced'
    <3>1. lost' \in Nat /\ lost' >= lost
      BY <2>1 DEF OAuthInv, GrantInv, OAuthTypes
    <3>. QED
      BY Zenon, <2>7, <2>16, <2>17, <3>1, BalanceKept
  <2>. QED
    BY Zenon, <2>7, <2>8, <2>9, <2>11, <2>13, <2>14, <2>18 DEF OAuthInv, GrantInv
<1>. QED
  BY Zenon, <1>3, <1>4

\* A client that gives up leaves at most its own redemption unheard.
LEMMA GiveUpKeeps ==
  ASSUME OAuthInv, NEW c \in Clients, GiveUp(c)
  PROVE  OAuthInv'
<1>. DEFINE next == [client[c] EXCEPT !.phase = "letin"]
<1>1. /\ client[c].phase = "redeeming" /\ lost' = lost + 1
           /\ client' = [client EXCEPT ![c] = next]
      /\ UNCHANGED <<clock, asks, answer, minting, redeeming, tokens, touching>>
  BY Zenon DEF GiveUp
<1>2. /\ client[c] \in Connection /\ client[c].bearer = Nobody
      /\ client[c].ask \in 1..Len(asks) /\ asks[client[c].ask].client = c
  BY Zenon, <1>1 DEF OAuthInv, GrantInv, OAuthTypes, ClientsKnow
<1>3. next \in Connection /\ next.phase = "letin" /\ next.ask = client[c].ask
        /\ next.bearer = Nobody
  BY Zenon, <1>2 DEF Connection, Phases
<1>. HIDE DEF next
<1>4. OAuthTypes'
  <2>1. client' \in [Clients -> Connection] /\ lost' \in Nat
    BY <1>1, <1>3 DEF OAuthInv, GrantInv, OAuthTypes
  <2>. QED
    BY Zenon, <1>1, <2>1 DEF OAuthInv, GrantInv, OAuthTypes
<1>5. AsksKept
  BY Zenon, <1>1, AsksUnchanged
<1>6. Len(tokens) <= Len(tokens')
  BY <1>1 DEF OAuthInv, GrantInv, OAuthTypes
<1>7. ClientsKnow'
  BY Zenon, <1>1, <1>2, <1>3, <1>4, <1>5, <1>6, ClientMoves DEF OAuthInv
<1>8. CodesGranted' /\ MintsGranted' /\ SpentOnce' /\ TokensGranted' /\ TouchesKnown'
  BY Zenon, <1>1 DEF OAuthInv, GrantInv, CodesGranted, MintsGranted, SpentOnce, TokensGranted,
    TouchesKnown
<1>9. client'[c] = next /\ \A d \in Clients : d # c => client'[d] = client[d]
  BY Zenon, <1>1 DEF OAuthInv, GrantInv, OAuthTypes
<1>10. Unheld' \subseteq Unheld
  BY Zenon, <1>1, <1>2, <1>3, <1>9 DEF Unheld
<1>11. \E x : Unheard' \subseteq Unheard \cup {x}
  <2>1. \A q \in redeeming : q.ask # client[c].ask => (Heard(q) => Heard(q)')
    <3>. SUFFICES ASSUME NEW q \in redeeming, q.ask # client[c].ask, Heard(q) PROVE Heard(q)'
      BY Zenon
    <3>1. q.ask \in 1..Len(asks)
      BY Zenon DEF OAuthInv, GrantInv, SpentOnce
    <3>2. asks[q.ask] \in OpenAsk
      BY <3>1 DEF OAuthInv, GrantInv, OAuthTypes
    <3>3. asks[q.ask].client \in Clients
      BY Zenon, <3>2 DEF OpenAsk
    <3>. QED
      BY Zenon, <1>1, <1>9, <3>3 DEF Heard
  <2>2. \A q, s \in redeeming : q.ask = s.ask => q = s
    BY DEF OAuthInv, GrantInv, SpentOnce
  <2>3. CASE \E q \in redeeming : q.ask = client[c].ask
    <3>1. PICK q \in redeeming : q.ask = client[c].ask
      BY Zenon, <2>3
    <3>2. Unheard' \subseteq Unheard \cup {q}
      BY Zenon, <1>1, <2>1, <2>2, <3>1 DEF Unheard
    <3>. QED
      BY Zenon, <3>2
  <2>4. CASE ~\E q \in redeeming : q.ask = client[c].ask
    BY Zenon, <1>1, <2>1, <2>4 DEF Unheard
  <2>. QED
    BY Zenon, <2>3, <2>4
<1>12. Balanced'
  <2>1. lost' \in Nat
    BY Zenon, <1>4 DEF OAuthTypes
  <2>. QED
    BY Zenon, <1>1, <1>4, <1>10, <1>11, <2>1, BalanceKept
<1>. QED
  BY Zenon, <1>4, <1>7, <1>8, <1>12 DEF OAuthInv, GrantInv

\* Neither a touch nor the clock revives a token.
LEMMA LaterKeeps ==
  ASSUME OAuthInv, UNCHANGED <<asks, answer, minting, redeeming, client, lost>>,
         clock' \in Nat, tokens' \in Seq(Bearer), touching' \in SUBSET touching,
         Len(tokens') = Len(tokens),
         \A i \in 1..Len(tokens) :
           /\ tokens'[i].ask = tokens[i].ask /\ tokens'[i].client = tokens[i].client
           /\ tokens'[i].scope = tokens[i].scope /\ tokens'[i].issued = tokens[i].issued
           /\ IsLiveAt(tokens'[i], clock') => IsLiveAt(tokens[i], clock)
  PROVE  OAuthInv'
<1>1. OAuthTypes'
  BY Zenon DEF OAuthInv, GrantInv, OAuthTypes
<1>2. CodesGranted' /\ MintsGranted' /\ ClientsKnow'
  BY Zenon DEF OAuthInv, GrantInv, CodesGranted, MintsGranted, ClientsKnow
<1>3. SpentOnce' /\ TokensGranted'
  <2>1. SpentOnce'
    BY DEF OAuthInv, GrantInv, SpentOnce
  <2>2. TokensGranted'
    BY DEF OAuthInv, GrantInv, TokensGranted
  <2>. QED
    BY Zenon, <2>1, <2>2
<1>4. TouchesKnown'
  BY Zenon DEF OAuthInv, GrantInv, TouchesKnown
<1>5. Unheld' \subseteq Unheld
  BY Zenon DEF Unheld
<1>6. Unheard' \subseteq Unheard /\ lost' \in Nat /\ lost' >= lost
  BY DEF Unheard, Heard, OAuthInv, GrantInv, OAuthTypes
<1>7. Balanced'
  BY Zenon, <1>1, <1>5, <1>6, BalanceKept
<1>. QED
  BY Zenon, <1>1, <1>2, <1>3, <1>4, <1>7 DEF OAuthInv, GrantInv

\* Time passes; tokens expire.
LEMMA ClockKeeps ==
  ASSUME OAuthInv, Tick
  PROVE  OAuthInv'
<1>1. clock \in Nat /\ clock' = clock + 1 /\ tokens' = tokens /\ touching' = touching
      /\ UNCHANGED <<asks, answer, minting, redeeming, client, lost>> /\ tokens \in Seq(Bearer)
  BY Zenon DEF Tick, OAuthInv, GrantInv, OAuthTypes
<1>2. \A i \in 1..Len(tokens) : IsLiveAt(tokens[i], clock') => IsLiveAt(tokens[i], clock)
  <2>. SUFFICES ASSUME NEW i \in 1..Len(tokens), IsLiveAt(tokens[i], clock + 1)
                PROVE  IsLiveAt(tokens[i], clock)
    BY Zenon, <1>1
  <2>1. tokens[i] \in Bearer
    BY <1>1
  <2>2. tokens[i].expires \in Int
    BY Zenon, <2>1 DEF Bearer
  <2>. QED
    BY <1>1, <2>2 DEF IsLiveAt
<1>. QED
  BY <1>1, <1>2, LaterKeeps

\* Noting a use changes nothing else of a token.
LEMMA UsedFacts ==
  ASSUME NEW b \in Bearer, NEW at \in Nat
  PROVE  LET u == [b EXCEPT !.used = at]
         IN  /\ u \in Bearer /\ u.ask = b.ask /\ u.client = b.client /\ u.scope = b.scope
             /\ u.issued = b.issued /\ u.expires = b.expires /\ u.revoked = b.revoked
<1>. DEFINE u == [b EXCEPT !.used = at]
<1>1. u \in Bearer
  BY DEF Bearer
<1>2. u.ask = b.ask /\ u.client = b.client /\ u.scope = b.scope /\ u.issued = b.issued
  BY Zenon DEF Bearer
<1>3. u.expires = b.expires /\ u.revoked = b.revoked
  BY Zenon DEF Bearer
<1>. QED
  BY Zenon, <1>1, <1>2, <1>3

\* The note of a token's use is written, later than the use.
LEMMA TouchTokenKeeps ==
  ASSUME OAuthInv, NEW p \in touching, TouchToken(p)
  PROVE  OAuthInv'
<1>. DEFINE k == p.token
            t == Touched(tokens[k], p.at)
<1>1. /\ touching' = touching \ {p} /\ tokens' = [tokens EXCEPT ![k] = t]
      /\ UNCHANGED <<clock, asks, answer, minting, redeeming, client, lost>>
  BY Zenon DEF TouchToken
<1>2. k \in 1..Len(tokens) /\ tokens[k] \in Bearer /\ p.at \in Nat /\ tokens \in Seq(Bearer)
        /\ clock \in Nat
  BY DEF OAuthInv, GrantInv, OAuthTypes, TouchesKnown
<1>3. /\ t \in Bearer /\ t.ask = tokens[k].ask /\ t.client = tokens[k].client
      /\ t.scope = tokens[k].scope /\ t.issued = tokens[k].issued /\ t.expires = tokens[k].expires
      /\ t.revoked = tokens[k].revoked
  <2>. DEFINE u == [tokens[k] EXCEPT !.used = p.at]
  <2>1. /\ u \in Bearer /\ u.ask = tokens[k].ask /\ u.client = tokens[k].client
        /\ u.scope = tokens[k].scope /\ u.issued = tokens[k].issued
        /\ u.expires = tokens[k].expires /\ u.revoked = tokens[k].revoked
    BY Zenon, <1>2, UsedFacts
  <2>2. t = u \/ t = tokens[k]
    BY Zenon DEF Touched
  <2>. QED
    BY Zenon, <1>2, <2>1, <2>2
<1>. HIDE DEF t, k
<1>4. /\ tokens' \in Seq(Bearer) /\ Len(tokens') = Len(tokens) /\ tokens'[k] = t
      /\ \A i \in 1..Len(tokens) : i # k => tokens'[i] = tokens[i]
  BY <1>1, <1>2, <1>3
<1>5. \A i \in 1..Len(tokens) :
        /\ tokens'[i].ask = tokens[i].ask /\ tokens'[i].client = tokens[i].client
        /\ tokens'[i].scope = tokens[i].scope /\ tokens'[i].issued = tokens[i].issued
        /\ IsLiveAt(tokens'[i], clock') => IsLiveAt(tokens[i], clock)
  BY Zenon, <1>1, <1>2, <1>3, <1>4 DEF IsLiveAt, IsLive
<1>. QED
  BY Zenon, <1>1, <1>2, <1>4, <1>5, LaterKeeps

\* A token is revoked.
LEMMA RevokeKeeps ==
  ASSUME OAuthInv, NEW c \in Clients, Revoke(c)
  PROVE  OAuthInv'
<1>. DEFINE k == client[c].bearer
            t == [tokens[k] EXCEPT !.revoked = TRUE]
<1>1. /\ client[c].phase = "connected" /\ tokens' = [tokens EXCEPT ![k] = t]
      /\ Answered(c, Fresh("registered"))
      /\ UNCHANGED <<clock, asks, answer, minting, redeeming, touching>>
  BY Zenon DEF Revoke, RevokeToken
<1>2. k \in 1..Len(tokens) /\ tokens[k] \in Bearer /\ tokens \in Seq(Bearer)
  BY <1>1 DEF OAuthInv, GrantInv, OAuthTypes, ClientsKnow
<1>3. /\ t \in Bearer /\ t.ask = tokens[k].ask /\ t.client = tokens[k].client
      /\ t.scope = tokens[k].scope /\ t.issued = tokens[k].issued /\ t.revoked = TRUE
  BY Zenon, <1>2 DEF Bearer
<1>. HIDE DEF t
<1>4. /\ tokens' \in Seq(Bearer) /\ Len(tokens') = Len(tokens) /\ tokens'[k] = t
      /\ \A i \in 1..Len(tokens) : i # k => tokens'[i] = tokens[i]
  BY <1>1, <1>2, <1>3
<1>5. \A i \in 1..Len(tokens) :
        /\ tokens'[i].ask = tokens[i].ask /\ tokens'[i].client = tokens[i].client
        /\ tokens'[i].scope = tokens[i].scope /\ tokens'[i].issued = tokens[i].issued
        /\ IsLiveAt(tokens'[i], clock') => IsLiveAt(tokens[i], clock)
  BY Zenon, <1>1, <1>2, <1>3, <1>4 DEF IsLiveAt, IsLive
<1>6. ~IsLiveAt(tokens'[k], clock')
  BY Zenon, <1>3, <1>4 DEF IsLiveAt, IsLive
<1>7. /\ client' = client \/ client' = [client EXCEPT ![c] = Fresh("registered")]
      /\ lost' \in Nat /\ lost' >= lost
  BY <1>1 DEF Answered, OAuthInv, GrantInv, OAuthTypes
<1>8. OAuthTypes'
  <2>1. client' \in [Clients -> Connection]
    BY Zenon, <1>7, FreshFacts DEF OAuthInv, GrantInv, OAuthTypes
  <2>. QED
    BY Zenon, <1>1, <1>4, <1>7, <2>1 DEF OAuthInv, GrantInv, OAuthTypes
<1>9. AsksKept
  BY Zenon, <1>1, AsksUnchanged
<1>10. Len(tokens) <= Len(tokens')
  BY <1>2, <1>4
<1>11. ClientsKnow'
  <2>1. CASE client' = client
    BY Zenon, <1>1, <1>4, <2>1 DEF OAuthInv, GrantInv, ClientsKnow
  <2>2. CASE client' = [client EXCEPT ![c] = Fresh("registered")]
    BY Zenon, <1>8, <1>9, <1>10, <2>2, FreshFacts, ClientMoves DEF OAuthInv
  <2>. QED
    BY Zenon, <1>7, <2>1, <2>2
<1>12. CodesGranted' /\ MintsGranted' /\ TouchesKnown'
  BY Zenon, <1>1, <1>4 DEF OAuthInv, GrantInv, CodesGranted, MintsGranted, TouchesKnown
<1>13. SpentOnce' /\ TokensGranted'
  <2>1. SpentOnce'
    BY <1>1, <1>4, <1>5 DEF OAuthInv, GrantInv, SpentOnce
  <2>2. TokensGranted'
    BY <1>1, <1>4, <1>5 DEF OAuthInv, GrantInv, TokensGranted
  <2>. QED
    BY Zenon, <2>1, <2>2
<1>14. Balanced'
  BY Zenon, <1>1, <1>4, <1>5, <1>6, <1>7, <1>8, <1>9, FreshFacts, QuietMove
<1>. QED
  BY Zenon, <1>8, <1>11, <1>12, <1>13, <1>14 DEF OAuthInv, GrantInv

\* A request with a bearer is let in.
LEMMA AdmitKeeps ==
  ASSUME OAuthInv, NEW c \in Clients, Admit(c)
  PROVE  OAuthInv'
<1>. DEFINE k == client[c].bearer
            p == [token |-> k, at |-> clock]
<1>1. /\ client[c].phase = "connected"
      /\ UNCHANGED <<clock, asks, answer, minting, redeeming, tokens>>
  BY Zenon DEF Admit
<1>2. k \in 1..Len(tokens) /\ clock \in Nat /\ client[c] \in Connection
  BY Zenon, <1>1 DEF OAuthInv, GrantInv, OAuthTypes, ClientsKnow
<1>3. CASE IsLiveAt(tokens[k], clock)
  <2>1. touching' = touching \cup {p} /\ UNCHANGED <<client, lost>>
    BY Zenon, <1>3 DEF Admit
  <2>2. p \in [token : Nat, at : Nat] /\ p.token = k
    BY <1>2
  <2>. HIDE DEF p
  <2>3. OAuthTypes'
    <3>1. touching' \in SUBSET [token : Nat, at : Nat]
      BY Zenon, <2>1, <2>2 DEF OAuthInv, GrantInv, OAuthTypes
    <3>. QED
      BY Zenon, <1>1, <2>1, <3>1 DEF OAuthInv, GrantInv, OAuthTypes
  <2>4. TouchesKnown'
    BY Zenon, <1>1, <1>2, <2>1, <2>2 DEF OAuthInv, GrantInv, TouchesKnown
  <2>5. CodesGranted' /\ MintsGranted' /\ ClientsKnow' /\ SpentOnce' /\ TokensGranted'
    BY Zenon, <1>1, <2>1 DEF OAuthInv, GrantInv, CodesGranted, MintsGranted, ClientsKnow, SpentOnce,
                      TokensGranted
  <2>6. Balanced'
    BY Zenon, <1>1, <2>1 DEF OAuthInv, Balanced, Unheld, Unheard, Heard
  <2>. QED
    BY Zenon, <2>3, <2>4, <2>5, <2>6 DEF OAuthInv, GrantInv
<1>4. CASE ~IsLiveAt(tokens[k], clock)
  <2>1. Answered(c, Fresh("registered")) /\ touching' = touching
    BY Zenon, <1>4 DEF Admit, UsedAs
  <2>2. minting' \in SUBSET [ask : Nat, at : Nat] /\ MintsGranted'
    BY Zenon, <1>1 DEF OAuthInv, GrantInv, OAuthTypes, MintsGranted
  <2>. QED
    BY Zenon, <1>1, <1>4, <2>1, <2>2, FreshFacts, AsksUnchanged, AnsweredKeeps
<1>. QED
  BY Zenon, <1>3, <1>4

\* The server ends a redemption.
LEMMA IssueTokenKeeps ==
  ASSUME OAuthInv, NEW r \in redeeming, IssueToken(r)
  PROVE  OAuthInv'
<1>. DEFINE a == asks[r.ask]
            c == a.client
            n == Len(tokens) + 1
            status == TokenStatus(a, r)
            t == [ask |-> r.ask, client |-> a.client, scope |-> a.scope, issued |-> r.at,
                  expires |-> ExpiresAtFor(a.scope, r.at), used |-> Never, revoked |-> FALSE]
<1>1. /\ redeeming' = redeeming \ {r} /\ UNCHANGED <<clock, asks, answer, minting, touching>>
      /\ status = 200 => tokens' = Append(tokens, t)
      /\ status # 200 => tokens' = tokens
  BY Zenon DEF IssueToken, Stored, PutToken
<1>2. /\ r.ask \in 1..Len(asks) /\ a \in OpenAsk /\ a.used = TRUE /\ r.at \in Nat /\ r.ask \in Nat
      /\ tokens \in Seq(Bearer) /\ lost \in Nat
  BY DEF OAuthInv, GrantInv, OAuthTypes, SpentOnce, Redemption
<1>3. c \in Clients /\ a.scope \in Scopes /\ a.at \in Nat /\ a.issued \in Int
        /\ a.code \in BOOLEAN
  BY Zenon, <1>2 DEF OpenAsk
<1>4. /\ t \in Bearer /\ t.ask = r.ask /\ t.client = a.client /\ t.scope = a.scope
      /\ t.issued = r.at
  BY <1>2, <1>3, OAuthAssumption DEF Bearer, ExpiresAtFor, NoExpiry, Never
<1>. HIDE DEF t
<1>5. /\ tokens' \in Seq(Bearer) /\ Len(tokens') \in {Len(tokens), n} /\ Len(tokens) \in Nat
      /\ status = 200 => Len(tokens') = n /\ tokens'[n] = t
      /\ status # 200 => Len(tokens') = Len(tokens)
      /\ \A i \in 1..Len(tokens) : tokens'[i] = tokens[i]
  <2>1. Len(tokens) \in Nat
    BY <1>2, LenInNat
  <2>2. CASE status = 200
    <3>. HIDE DEF status
    <3>. QED
      BY <1>1, <1>2, <1>4, <2>1, <2>2, Appended
  <2>3. CASE status # 200
    <3>. HIDE DEF status
    <3>. QED
      BY Zenon, <1>1, <1>2, <2>1, <2>3
  <2>. QED
    BY Zenon, <2>2, <2>3
<1>6. status = 200 => answer[r.ask] = "approved" /\ r.at - a.at <= AskTTL + CodeTTL
  <2>. SUFFICES ASSUME status = 200
                PROVE  answer[r.ask] = "approved" /\ r.at - a.at <= AskTTL + CodeTTL
    BY Zenon
  <2>1. a.issued # Never /\ r.at - a.issued <= CodeTTL
    BY DEF TokenStatus, CodeIsFresh
  <2>2. answer[r.ask] = "approved" /\ a.issued - a.at <= AskTTL
    BY Zenon, <1>2, <1>3, <2>1 DEF OAuthInv, GrantInv, CodesGranted
  <2>. HIDE DEF a, c, n, status
  <2>. QED
    BY <1>2, <1>3, <2>1, <2>2, OAuthAssumption
<1>7. \/ UNCHANGED <<client, lost>> /\ ~Heard(r)
      \/ /\ Heard(r) /\ client' = [client EXCEPT ![c] = RedeemedAs(status)] /\ lost' = lost
      \/ /\ Heard(r) /\ lost' = lost + 1
         /\ client' = [client EXCEPT ![c] = [client[c] EXCEPT !.phase = "letin"]]
  BY Zenon DEF IssueToken, Heard
<1>8. status \in {200, 400, 401}
  BY DEF TokenStatus
<1>. HIDE DEF status
<1>9. Heard(r) => /\ client[c].phase = "redeeming" /\ client[c].ask = r.ask
                  /\ client[c] \in Connection /\ client[c].bearer = Nobody
  BY Zenon, <1>3 DEF Heard, OAuthInv, GrantInv, OAuthTypes, ClientsKnow
<1>10. PICK next \in Connection :
         /\ \/ UNCHANGED client /\ ~Heard(r)
            \/ Heard(r) /\ client' = [client EXCEPT ![c] = next]
         /\ next.phase \in {"registered", "letin", "connected"}
         /\ next.phase = "letin" => next.ask = r.ask
         /\ next.phase # "connected" => next.bearer = Nobody
         /\ next.phase = "connected" => next.bearer = n /\ status = 200
         /\ status = 200 /\ next.phase # "connected" /\ Heard(r) => lost' = lost + 1
  <2>1. CASE UNCHANGED <<client, lost>> /\ ~Heard(r)
    BY Zenon, <2>1, FreshFacts
  <2>2. CASE Heard(r) /\ client' = [client EXCEPT ![c] = RedeemedAs(status)] /\ lost' = lost
    <3>1. CASE status = 200
      <4>1. RedeemedAs(status) = [phase |-> "connected", ask |-> 0, bearer |-> n]
        BY <3>1 DEF RedeemedAs, Succeeded, Fresh, Nobody
      <4>2. [phase |-> "connected", ask |-> 0, bearer |-> n] \in Connection
        BY <1>5 DEF Connection, Phases
      <4>. QED
        BY Zenon, <2>2, <3>1, <4>1, <4>2
    <3>2. CASE status # 200
      <4>1. RedeemedAs(status) = Fresh("registered")
        <5>1. ~(status \in 200..299)
          BY <1>8, <3>2
        <5>. QED
          BY Zenon, <5>1 DEF RedeemedAs, Succeeded
      <4>. QED
        BY Zenon, <2>2, <3>2, <4>1, FreshFacts
    <3>. QED
      BY Zenon, <3>1, <3>2
  <2>3. CASE /\ Heard(r) /\ lost' = lost + 1
             /\ client' = [client EXCEPT ![c] = [client[c] EXCEPT !.phase = "letin"]]
    <3>. DEFINE next == [client[c] EXCEPT !.phase = "letin"]
    <3>1. next \in Connection /\ next.phase = "letin" /\ next.ask = r.ask /\ next.bearer = Nobody
      BY Zenon, <1>9, <2>3 DEF Connection, Phases
    <3>. QED
      BY Zenon, <2>3, <3>1
  <2>. QED
    BY Zenon, <1>7, <2>1, <2>2, <2>3
<1>11. lost' = lost \/ lost' = lost + 1
  BY Zenon, <1>7
<1>. HIDE DEF c
<1>12. OAuthTypes'
  <2>1. IsFiniteSet(redeeming') /\ redeeming' \in SUBSET Redemption
    BY Zenon, <1>1, FS_RemoveElement DEF OAuthInv, GrantInv, OAuthTypes
  <2>2. client' \in [Clients -> Connection]
    BY <1>10 DEF OAuthInv, GrantInv, OAuthTypes
  <2>. QED
    BY <1>1, <1>5, <1>11, <2>1, <2>2 DEF OAuthInv, GrantInv, OAuthTypes
<1>13. AsksKept
  BY Zenon, <1>1, AsksUnchanged
<1>14. ClientsKnow'
  <2>1. CASE UNCHANGED client
    BY <1>1, <1>5, <2>1 DEF OAuthInv, GrantInv, ClientsKnow
  <2>2. CASE client' = [client EXCEPT ![c] = next]
    <3>1. next.phase = "connected" => next.bearer \in 1..Len(tokens')
      BY <1>5, <1>10
    <3>2. next.phase \in {"waiting", "letin", "redeeming"} =>
             next.ask \in 1..Len(asks') /\ asks'[next.ask].client = c
      BY Zenon, <1>1, <1>2, <1>10 DEF c
    <3>3. Len(tokens) <= Len(tokens')
      BY <1>5
    <3>. QED
      BY Zenon, <1>3, <1>10, <1>12, <1>13, <2>2, <3>1, <3>2, <3>3, ClientMoves DEF OAuthInv
  <2>. QED
    BY Zenon, <1>10, <2>1, <2>2
<1>15. CodesGranted' /\ MintsGranted'
  BY Zenon, <1>1 DEF OAuthInv, GrantInv, CodesGranted, MintsGranted
<1>16. TouchesKnown'
  BY <1>1, <1>5 DEF OAuthInv, GrantInv, TouchesKnown
<1>17. \A i \in 1..Len(tokens') : i \in 1..Len(tokens) \/ (i = n /\ status = 200)
  BY <1>5
<1>18. SpentOnce'
  <2>1. \A q \in redeeming' : q \in redeeming /\ q.ask # r.ask
    BY Zenon, <1>1 DEF OAuthInv, GrantInv, SpentOnce
  <2>2. \A i \in 1..Len(tokens') : \A q \in redeeming' : tokens'[i].ask # q.ask
    BY <1>4, <1>5, <1>17, <2>1 DEF OAuthInv, GrantInv, SpentOnce
  <2>. QED
    BY Zenon, <1>1, <2>1, <2>2 DEF OAuthInv, GrantInv, SpentOnce
<1>19. TokensGranted'
  <2>1. \A i \in 1..Len(tokens) : tokens[i].ask # r.ask
    BY DEF OAuthInv, GrantInv, SpentOnce
  <2>2. \A i, j \in 1..Len(tokens') : tokens'[i].ask = tokens'[j].ask => i = j
    BY <1>4, <1>5, <1>17, <2>1 DEF OAuthInv, GrantInv, TokensGranted
  <2>3. ASSUME NEW i \in 1..Len(tokens')
        PROVE  /\ tokens'[i].ask \in 1..Len(asks) /\ asks[tokens'[i].ask].used = TRUE
               /\ answer[tokens'[i].ask] = "approved"
               /\ tokens'[i].client = asks[tokens'[i].ask].client
               /\ tokens'[i].scope = asks[tokens'[i].ask].scope
               /\ tokens'[i].issued - asks[tokens'[i].ask].at <= AskTTL + CodeTTL
    <3>1. CASE i \in 1..Len(tokens)
      BY Zenon, <1>5, <3>1 DEF OAuthInv, GrantInv, TokensGranted
    <3>2. CASE i = n /\ status = 200
      BY Zenon, <1>2, <1>4, <1>5, <1>6, <3>2
    <3>. QED
      BY Zenon, <1>17, <3>1, <3>2
  <2>. QED
    BY Zenon, <1>1, <2>2, <2>3 DEF TokensGranted
<1>20. \A d \in Clients : d # c => client'[d] = client[d]
  BY <1>10 DEF OAuthInv, GrantInv, OAuthTypes
<1>21. Heard(r) => client'[c] = next
  BY <1>3, <1>10 DEF OAuthInv, GrantInv, OAuthTypes
<1>22. Unheld' \subseteq Unheld \cup {n}
  <2>. SUFFICES ASSUME NEW i \in 1..Len(tokens'), IsLiveAt(tokens'[i], clock'), i # n,
                       \A d \in Clients : client'[d].bearer # i
                PROVE  i \in Unheld
    BY Zenon DEF Unheld
  <2>1. i \in 1..Len(tokens) /\ IsLiveAt(tokens[i], clock)
    BY <1>1, <1>5, <1>17
  <2>2. client[c].bearer # i
    BY <1>3, <1>9, <1>10, <2>1 DEF Nobody, c
  <2>. QED
    BY Zenon, <1>20, <2>1, <2>2 DEF Unheld
<1>23. Heard(r) /\ (status # 200 \/ next.phase = "connected") => Unheld' \subseteq Unheld
  <2>. SUFFICES ASSUME Heard(r), status # 200 \/ next.phase = "connected", n \in Unheld'
                PROVE  FALSE
    BY Zenon, <1>22
  <2>1. n \in 1..Len(tokens') /\ client'[c].bearer # n
    BY Zenon, <1>3 DEF Unheld
  <2>. QED
    BY <1>5, <1>10, <1>21, <2>1
<1>24. Unheard' \subseteq Unheard \ {r}
  <2>. SUFFICES ASSUME NEW q \in redeeming', ~Heard(q)' PROVE q \in Unheard \ {r}
    BY Zenon DEF Unheard
  <2>1. q \in redeeming /\ q # r /\ q.ask # r.ask
    BY Zenon, <1>1 DEF OAuthInv, GrantInv, SpentOnce
  <2>2. asks[q.ask].client \in Clients
    <3>1. asks[q.ask] \in OpenAsk
      BY <2>1 DEF OAuthInv, GrantInv, OAuthTypes, SpentOnce
    <3>. QED
      BY Zenon, <3>1 DEF OpenAsk
  <2>3. ~Heard(q)
    <3>1. CASE UNCHANGED client
      BY Zenon, <1>1, <3>1 DEF Heard
    <3>2. CASE Heard(r)
      <4>1. client[c].ask = r.ask
        BY Zenon, <1>9, <3>2 DEF c
      <4>. QED
        BY Zenon, <1>1, <1>20, <2>1, <2>2, <4>1 DEF Heard
    <3>. QED
      BY Zenon, <1>10, <3>1, <3>2
  <2>. QED
    BY Zenon, <2>1, <2>3 DEF Unheard
<1>25. Balanced'
  <2>1. lost' \in Nat /\ lost' >= lost
    BY <1>2, <1>11
  <2>2. CASE ~Heard(r)
    <3>1. r \in Unheard /\ lost' = lost
      BY Zenon, <1>7, <2>2 DEF Unheard
    <3>. QED
      BY Zenon, <1>12, <1>22, <1>24, <2>1, <3>1, BalanceKept
  <2>3. CASE Heard(r) /\ (status # 200 \/ next.phase = "connected")
    BY Zenon, <1>12, <1>23, <1>24, <2>1, <2>3, BalanceKept
  <2>4. CASE Heard(r) /\ status = 200 /\ next.phase # "connected"
    <3>1. lost' = lost + 1
      BY Zenon, <1>10, <2>4
    <3>. QED
      BY Zenon, <1>12, <1>22, <1>24, <2>1, <3>1, BalanceKept
  <2>. QED
    BY Zenon, <2>2, <2>3, <2>4
<1>. QED
  BY Zenon, <1>12, <1>14, <1>15, <1>16, <1>18, <1>19, <1>25 DEF OAuthInv, GrantInv

-----------------------------------------------------------------------------
\* At start nobody has asked.
LEMMA OAuthStarts == OAuthInit => OAuthInv
<1>. SUFFICES ASSUME OAuthInit PROVE OAuthInv
  BY Zenon
<1>1. OAuthTypes
  <2>1. client \in [Clients -> Connection]
    BY Zenon, FreshFacts DEF OAuthInit
  <2>2. IsFiniteSet({})
    BY Zenon, FS_EmptySet
  <2>. QED
    BY <2>1, <2>2 DEF OAuthInit, OAuthTypes
<1>2. CodesGranted /\ MintsGranted /\ SpentOnce /\ TokensGranted /\ TouchesKnown
  BY DEF OAuthInit, CodesGranted, MintsGranted, SpentOnce, TokensGranted, TouchesKnown
<1>3. ClientsKnow
  BY Zenon, FreshFacts DEF OAuthInit, ClientsKnow
<1>4. Balanced
  <2>1. Unheld = {} /\ Unheard = {} /\ lost = 0
    BY DEF OAuthInit, Unheld, Unheard
  <2>. QED
    BY <2>1, FS_EmptySet DEF Balanced
<1>. QED
  BY Zenon, <1>1, <1>2, <1>3, <1>4 DEF OAuthInv, GrantInv

\* Each step of the server and its clients, in turn.
LEMMA OAuthStep == OAuthInv /\ [OAuthNext]_oauthVars => OAuthInv'
<1>. SUFFICES ASSUME OAuthInv, [OAuthNext]_oauthVars PROVE OAuthInv'
  BY Zenon
<1>1. CASE \E c \in Clients, good \in BOOLEAN : Register(c, good)
  BY Zenon, <1>1, RegisterKeeps
<1>2. CASE \E c \in Clients, words \in Requests, met \in {"asked", "unasked", "no_address"} :
             Authorize(c, words, met)
  BY Zenon, <1>2, AuthorizeKeeps
<1>3. CASE \E i \in 1..Len(asks) : Decide(i)
  BY Zenon, <1>3, DecideKeeps
<1>4. CASE \E c \in Clients : Poll(c)
  BY Zenon, <1>4, PollKeeps
<1>5. CASE \E p \in minting : MintCode(p)
  BY Zenon, <1>5, MintCodeKeeps
<1>6. CASE \E c \in Clients, named, proven \in BOOLEAN : RedeemCode(c, named, proven)
  BY Zenon, <1>6, RedeemCodeKeeps
<1>7. CASE \E r \in redeeming : IssueToken(r)
  BY Zenon, <1>7, IssueTokenKeeps
<1>8. CASE \E c \in Clients : GiveUp(c)
  BY Zenon, <1>8, GiveUpKeeps
<1>9. CASE \E c \in Clients : Admit(c)
  BY Zenon, <1>9, AdmitKeeps
<1>10. CASE \E p \in touching : TouchToken(p)
  BY Zenon, <1>10, TouchTokenKeeps
<1>11. CASE \E c \in Clients : Revoke(c)
  BY Zenon, <1>11, RevokeKeeps
<1>12. CASE Tick
  BY Zenon, <1>12, ClockKeeps
<1>13. CASE UNCHANGED oauthVars
  <2>1. UNCHANGED <<clock, asks, answer, minting, redeeming, tokens, touching, client, lost>>
    BY Zenon, <1>13 DEF oauthVars
  <2>2. clock' \in Nat /\ tokens' \in Seq(Bearer)
    BY Zenon, <2>1 DEF OAuthInv, GrantInv, OAuthTypes
  <2>. QED
    BY Zenon, <2>1, <2>2, LaterKeeps
<1>. QED
  BY Zenon, <1>1, <1>2, <1>3, <1>4, <1>5, <1>6, <1>7, <1>8, <1>9, <1>10, <1>11, <1>12,
    <1>13 DEF OAuthNext

\* Every bearer comes from one approval of the person, for the client and scope asked, in time
\* (server.rs token, progress; store.rs mint_code, redeem_code).
THEOREM TokensWereGranted == OAuthSpec => []TokenWasGranted
<1>1. OAuthInv => TokenWasGranted
  BY Zenon DEF OAuthInv, GrantInv, TokensGranted, TokenWasGranted
<1>. QED
  BY <1>1, OAuthStarts, OAuthStep, PTL DEF OAuthSpec

\* There are no more live bearers nobody holds than answers that were lost or given up
\* (address_client.rs redeem; server.rs token).
THEOREM BearersAreHeld == OAuthSpec => []BearerIsHeld
<1>1. OAuthInv => BearerIsHeld
  <2>. SUFFICES ASSUME OAuthInv PROVE Cardinality(Unheld) <= lost
    BY Zenon DEF BearerIsHeld, Unheld
  <2>1. Cardinality(Unheld) \in Nat /\ Cardinality(Unheard) \in Nat /\ lost \in Nat
    BY Zenon, CountedFinite, FS_CardinalityType DEF OAuthInv, GrantInv, OAuthTypes
  <2>. QED
    BY <2>1 DEF OAuthInv, Balanced
<1>. QED
  BY <1>1, OAuthStarts, OAuthStep, PTL DEF OAuthSpec

=============================================================================
