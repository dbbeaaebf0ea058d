---------------------------- MODULE OAuthServer ----------------------------
(***************************************************************************)
(* The authorization server of oauth/ and the client of address_client.rs: *)
(* a client registers, asks, polls until the person has answered, redeems  *)
(* its code for a bearer, uses it and revokes it.  Every handler runs on   *)
(* a blocking thread with the second at which it began; the store takes    *)
(* its lock once per call, so a poll that mints and a redemption that      *)
(* issues are two steps each, and others come in between.  An answer may   *)
(* be lost, and a redemption may be given up while the server is at it.    *)
(* A request the limiter turns away (module Limiter) changes nothing here. *)
(***************************************************************************)
EXTENDS Integers, Sequences, FiniteSets, FiniteSetsExt, Functions

CONSTANTS
  Clients,      \* the clients that connect
  Requests,     \* the scopes clients ask for: sequences of words
  FamilyOrder,  \* FAMILIES, in their order
  Purposes,     \* the words with a colon: party scopes and proofs
  DefaultScope, \* the family of an ask that names none
  AskTTL, CodeTTL, TokenTTL, TouchEvery,
  MaxTime,      \* bound on the clock
  MaxAsks,      \* bound on the asks opened
  MaxLost       \* bound on the answers lost

\* The lifetimes of mod.rs are numbers of seconds.
ASSUME OAuthAssumption ==
  AskTTL \in Nat /\ CodeTTL \in Nat /\ TokenTTL \in Nat /\ MaxTime \in Nat

VARIABLES
  clock, registered, asks, answer, minting, redeeming, tokens, touching, client, lost

oauthVars ==
  <<clock, registered, asks, answer, minting, redeeming, tokens, touching, client, lost>>

Never    == -1                             \* Option::None of a time
NoExpiry == MaxTime + TokenTTL + 1         \* later than any time reached
Nobody   == 0
Families == Range(FamilyOrder)
Fresh(phase) == [phase |-> phase, ask |-> Nobody, bearer |-> Nobody]

OAuthInit ==
  /\ clock = 0 /\ lost = 0
  /\ registered = {} /\ asks = <<>> /\ answer = <<>> /\ tokens = <<>>
  /\ minting = {} /\ redeeming = {} /\ touching = {}
  /\ client = [c \in Clients |-> Fresh("new")]
-----------------------------------------------------------------------------
\* scopes: families in their order, then the purposes in the order asked, once each
IsScope(words) == Range(words) \subseteq Families \cup Purposes

Once(words) ==
  LET kept[n \in 0..Len(words)] ==
        IF n = 0 THEN <<>>
        ELSE IF words[n] \in Range(kept[n - 1]) THEN kept[n - 1]
        ELSE Append(kept[n - 1], words[n])
  IN  kept[Len(words)]

NormalizeScope(words) ==
  IF words = <<>> THEN <<DefaultScope>>
  ELSE SelectSeq(FamilyOrder, LAMBDA f : f \in Range(words))
       \o Once(SelectSeq(words, LAMBDA w : w \in Purposes))

PurposeOnly(scope) == scope # <<>> /\ Range(scope) \cap Families = {}

ExpiresAtFor(scope, now) == IF PurposeOnly(scope) THEN NoExpiry ELSE now + TokenTTL
-----------------------------------------------------------------------------
\* what the handler answered reaches the client, or is lost
Answered(c, next) ==
  \/ client' = [client EXCEPT ![c] = next] /\ UNCHANGED lost
  \/ lost < MaxLost /\ lost' = lost + 1 /\ UNCHANGED client

Succeeded(status) == status \in 200..299

PutClient(c) == registered \cup {c}

\* a registration names its client and redirects that are allowed, or is refused
RegisterStatus(good) == IF good THEN 201 ELSE 400

RegisteredAs(c, status) == IF Succeeded(status) THEN Fresh("registered") ELSE client[c]

Register(c, good) ==
  /\ client[c].phase = "new"
  /\ registered' = IF good THEN PutClient(c) ELSE registered
  /\ Answered(c, RegisteredAs(c, RegisterStatus(good)))
  /\ UNCHANGED <<clock, asks, answer, minting, redeeming, tokens, touching>>

PutAsk(c, words, shown) ==
  Append(asks, [client |-> c, scope |-> NormalizeScope(words), at |-> clock, code |-> FALSE,
                issued |-> Never, used |-> FALSE, shown |-> shown])

\* the node has no address yet, the scope is sent back, the person could not be asked
AuthorizeStatus(words, met) ==
  CASE met = "no_address"                         -> 503
    [] met # "no_address" /\ ~IsScope(words)      -> 303
    [] met = "unasked" /\ IsScope(words)          -> 500
    [] OTHER                                      -> 200

AskedAs(c, status, i) ==
  IF status = 200 THEN [Fresh("waiting") EXCEPT !.ask = i] ELSE client[c]

\* put_ask, then Consent::ask; when that fails the ask stays and the caller hears of an error
Authorize(c, words, met) ==
  LET status == AuthorizeStatus(words, met) IN
  /\ client[c].phase = "registered" /\ c \in registered
  /\ Len(asks) < MaxAsks /\ clock + AskTTL < MaxTime
  /\ IF status \in {200, 500}
     THEN /\ asks' = PutAsk(c, words, status = 200)
          /\ answer' = Append(answer, "pending")
     ELSE UNCHANGED <<asks, answer>>
  /\ Answered(c, AskedAs(c, status, Len(asks) + 1))
  /\ UNCHANGED <<clock, registered, minting, redeeming, tokens, touching>>

\* the person lets the client in, or does not
Decide(i) ==
  /\ asks[i].shown /\ answer[i] = "pending"
  /\ \E a \in {"approved", "denied"} : answer' = [answer EXCEPT ![i] = a]
  /\ UNCHANGED <<clock, registered, asks, minting, redeeming, tokens, touching, client, lost>>
-----------------------------------------------------------------------------
CodeIsFresh(a, now) == a.issued # Never /\ now - a.issued <= CodeTTL

AskStaysOpen(a) == FALSE
AskIsOver(a) == clock - a.at > AskTTL

\* what progress() says of an ask before it asks to mint; "mint": it is approved
ProgressOf(i) ==
  LET a == asks[i] IN
  CASE a.used                                 -> "gone"
    [] ~a.used /\ a.code /\ CodeIsFresh(a, clock) -> "let_in"
    [] ~a.used /\ a.code /\ ~CodeIsFresh(a, clock) -> "gone"
    [] ~a.used /\ ~a.code /\ AskIsOver(a)     -> "gone"
    [] OTHER -> CASE answer[i] = "pending"  -> "waiting"
                  [] answer[i] = "denied"   -> "refused"
                  [] answer[i] = "approved" -> "mint"

AskStatus(progress) == IF progress = "gone" THEN 404 ELSE 200

\* what the polling client makes of the answer, and the page's script
PolledAs(c, status, progress) ==
  CASE status = 200 /\ progress = "waiting" -> client[c]
    [] status = 200 /\ progress = "let_in"  -> [client[c] EXCEPT !.phase = "letin"]
    [] OTHER                                -> Fresh("registered")

Told(c, progress) == Answered(c, PolledAs(c, AskStatus(progress), progress))

Poll(c) ==
  LET i == client[c].ask IN
  /\ client[c].phase = "waiting"
  /\ \/ /\ ProgressOf(i) = "mint"
        /\ [ask |-> i, at |-> clock] \notin minting
        /\ minting' = minting \cup {[ask |-> i, at |-> clock]}
        /\ UNCHANGED <<client, lost>>
     \/ ProgressOf(i) # "mint" /\ Told(c, ProgressOf(i)) /\ UNCHANGED minting
  /\ UNCHANGED <<clock, registered, asks, answer, redeeming, tokens, touching>>

\* the first code minted for an ask stays its code
Minted(a, at) == IF a.code THEN a ELSE [a EXCEPT !.code = TRUE, !.issued = at]

MintCode(p) ==
  LET a == asks[p.ask]
      b == Minted(a, p.at) IN
  /\ p \in minting
  /\ minting' = minting \ {p}
  /\ asks' = [asks EXCEPT ![p.ask] = b]
  /\ IF client[a.client].phase = "waiting" /\ client[a.client].ask = p.ask
     THEN Told(a.client, IF CodeIsFresh(b, p.at) THEN "let_in" ELSE "gone")
     ELSE UNCHANGED <<client, lost>>
  /\ UNCHANGED <<clock, registered, answer, redeeming, tokens, touching>>
-----------------------------------------------------------------------------
LeaveUnused(a) == a
MarkUsed(a) == [a EXCEPT !.used = TRUE]

\* the grant a redemption makes: it names the client, the redirect and the verifier of the
\* ask, or one of them differs
TokenStatus(a, r) ==
  CASE ~CodeIsFresh(a, r.at)               -> 400
    [] CodeIsFresh(a, r.at) /\ ~r.client   -> 401
    [] CodeIsFresh(a, r.at) /\ r.client /\ ~r.proof -> 400
    [] OTHER                               -> 200

\* redeem_code: the code is spent before anything else is looked at
RedeemCode(c, named, proven) ==
  LET i == client[c].ask IN
  /\ client[c].phase = "letin"
  /\ IF asks[i].used
     THEN Answered(c, Fresh("registered")) /\ UNCHANGED <<asks, redeeming>>
     ELSE /\ asks' = [asks EXCEPT ![i] = MarkUsed(@)]
          /\ redeeming' = redeeming \cup {[ask |-> i, client |-> named, proof |-> proven,
                                           at |-> clock]}
          /\ client' = [client EXCEPT ![c].phase = "redeeming"]
          /\ UNCHANGED lost
  /\ UNCHANGED <<clock, registered, answer, minting, tokens, touching>>

PutToken(a, r) ==
  Append(tokens, [ask |-> r.ask, client |-> a.client, scope |-> a.scope, issued |-> r.at,
                  expires |-> ExpiresAtFor(a.scope, r.at), used |-> Never, revoked |-> FALSE])

StoredFirst(a, r) == PutToken(a, r)
Stored(a, r) == IF TokenStatus(a, r) = 200 THEN PutToken(a, r) ELSE tokens

RedeemedAs(status) ==
  IF Succeeded(status) THEN [Fresh("connected") EXCEPT !.bearer = Len(tokens) + 1]
  ELSE Fresh("registered")

\* the rest of token(): the checks, then put_token
IssueToken(r) ==
  LET a == asks[r.ask]
      c == a.client
      heard == client[c].phase = "redeeming" /\ client[c].ask = r.ask IN
  /\ r \in redeeming
  /\ redeeming' = redeeming \ {r}
  /\ tokens' = Stored(a, r)
  /\ IF heard THEN \/ /\ client' = [client EXCEPT ![c] = RedeemedAs(TokenStatus(a, r))]
                      /\ UNCHANGED lost
                   \/ /\ lost < MaxLost /\ lost' = lost + 1
                      /\ client' = [client EXCEPT ![c].phase = "letin"]
              ELSE UNCHANGED <<client, lost>>
  /\ UNCHANGED <<clock, registered, asks, answer, minting, touching>>

\* the client's sixty seconds are over while the server is still at the redemption
GiveUp(c) ==
  /\ client[c].phase = "redeeming" /\ lost < MaxLost
  /\ lost' = lost + 1
  /\ client' = [client EXCEPT ![c].phase = "letin"]
  /\ UNCHANGED <<clock, registered, asks, answer, minting, redeeming, tokens, touching>>
-----------------------------------------------------------------------------
IsLive(t) == ~t.revoked
IsLiveAt(t, now) == IsLive(t) /\ now < t.expires

\* a bearer that is not live is answered 401: the address no longer admits this connection
UsedAs(c, status) == IF status = 401 THEN Fresh("registered") ELSE client[c]

\* a live bearer is noted as used when the last note is old, in a second step
Admit(c) ==
  LET i == client[c].bearer IN
  /\ client[c].phase = "connected"
  /\ IF IsLiveAt(tokens[i], clock)
     THEN /\ tokens[i].used = Never \/ clock - tokens[i].used >= TouchEvery
          /\ [token |-> i, at |-> clock] \notin touching
          /\ touching' = touching \cup {[token |-> i, at |-> clock]}
          /\ UNCHANGED <<client, lost>>
     ELSE Answered(c, UsedAs(c, 401)) /\ UNCHANGED touching
  /\ UNCHANGED <<clock, registered, asks, answer, minting, redeeming, tokens>>

Touched(t, at) == IF IsLive(t) THEN [t EXCEPT !.used = at] ELSE t

TouchToken(p) ==
  /\ p \in touching
  /\ touching' = touching \ {p}
  /\ tokens' = [tokens EXCEPT ![p.token] = Touched(@, p.at)]
  /\ UNCHANGED <<clock, registered, asks, answer, minting, redeeming, client, lost>>

RevokeToken(i) == [tokens EXCEPT ![i].revoked = TRUE]

\* the client calls /revoke and forgets the bearer once it is answered
Revoke(c) ==
  /\ client[c].phase = "connected"
  /\ tokens' = RevokeToken(client[c].bearer)
  /\ Answered(c, Fresh("registered"))
  /\ UNCHANGED <<clock, registered, asks, answer, minting, redeeming, touching>>

\* the clock; a poll and a redemption take less than the bound on a token's life
Tick ==
  /\ clock < MaxTime
  /\ clock' = clock + 1
  /\ UNCHANGED <<registered, asks, answer, minting, redeeming, tokens, touching, client, lost>>

OAuthNext ==
  \/ \E c \in Clients, good \in BOOLEAN : Register(c, good)
  \/ \E c \in Clients, words \in Requests, met \in {"asked", "unasked", "no_address"} :
        Authorize(c, words, met)
  \/ \E i \in 1..Len(asks) : Decide(i)
  \/ \E c \in Clients : Poll(c)
  \/ \E p \in minting : MintCode(p)
  \/ \E c \in Clients, named, proven \in BOOLEAN : RedeemCode(c, named, proven)
  \/ \E r \in redeeming : IssueToken(r)
  \/ \E c \in Clients : GiveUp(c)
  \/ \E c \in Clients : Admit(c)
  \/ \E p \in touching : TouchToken(p)
  \/ \E c \in Clients : Revoke(c)
  \/ Tick

\* the waiting page and the client poll for as long as they wait, a handler that began
\* ends, and time passes
OAuthFairness ==
  /\ \A c \in Clients : WF_oauthVars(Poll(c))
  /\ WF_oauthVars(\E p \in minting : MintCode(p))
  /\ WF_oauthVars(Tick)

OAuthSpec == OAuthInit /\ [][OAuthNext]_oauthVars /\ OAuthFairness
-----------------------------------------------------------------------------
\* Every bearer comes from one approval: no two tokens come from one ask, however polls and
\* redemptions interleave; the person approved that ask; the token has its client and its
\* scope; and it was issued no later than the life of an ask and of a code allow
\* (server.rs token, progress; store.rs mint_code, redeem_code).
TokenWasGranted ==
  \A i \in 1..Len(tokens) :
    LET t == tokens[i]
        a == asks[t.ask] IN
    /\ answer[t.ask] = "approved"
    /\ t.client = a.client /\ t.scope = a.scope
    /\ t.issued - a.at <= AskTTL + CodeTTL
    /\ \A j \in 1..Len(tokens) : tokens[j].ask = t.ask => j = i

\* A live bearer that no client holds is the work of a lost answer: there are no more of
\* them than answers that were lost or given up, to whatever was asked (address_client.rs
\* redeem; server.rs token, which issues nothing once a check has failed).
BearerIsHeld ==
  Cardinality({i \in 1..Len(tokens) :
                 IsLiveAt(tokens[i], clock) /\ \A c \in Clients : client[c].bearer # i})
    <= lost

\* A client does not wait for ever: the ask is answered, or it ends after its time
\* (server.rs progress; the waiting page's script).
AskEnds == \A c \in Clients : client[c].phase = "waiting" ~> client[c].phase # "waiting"
=============================================================================
