------------------------------ MODULE MCApi_proofs ------------------------------
(***************************************************************************)
(* Theorems about the parts of an API process that MCApi composes.          *)
(***************************************************************************)
EXTENDS MCApi, Ranking_proofs, SequenceTheorems

-----------------------------------------------------------------------------
(* The service-account token.                                               *)

\* What GetToken returns: a token whose life was stated lives on, one whose life was
\* assumed is not older than assumed, an empty one was asked for.
TokenReturned(r) ==
    /\ r.got.kind = "stated" => \E n \in Lifetimes \union {Margin + 1} : r.got.left >= n - Timeout
    /\ r.got.kind = "assumed" => r.got.age <= Tokens!NotBelow0(AssumedLife - Margin)
    /\ r.got.kind = "empty" => r.asked

\* A token on its way has lost no more of its life than the request has waited.
TokenCallFits(r) ==
    /\ r.waited \in 0 .. Timeout
    /\ r.phase = "answer" => r.life \in Lifetimes /\ r.got.left >= r.life - r.waited /\ r.got.age = 0
    /\ r.phase = "stored" => r.asked
    /\ r.phase = "done" => TokenReturned(r)

\* While expiresAt is ahead, a token of stated life outlives it by the margin but for
\* Timeout, and one of assumed life is younger than that life without the margin.
TokenMarginInv ==
    valid > 0 => /\ token.kind = "stated" => token.left >= valid + Margin - Timeout
                 /\ token.kind = "assumed" => token.age + valid <= AssumedLife - Margin

\* Between the store and the second read no time passes: the stored token, whoever
\* stored it, has just come and has lost at most Timeout of its life.
TokenStoredInv ==
    (\E c \in Users : tokenCall[c].phase = "stored") =>
        token.age = 0 /\ (token.kind = "stated" => \E l \in Lifetimes : token.left >= l - Timeout)

TokenInv ==
    /\ Tokens!TypeOK
    /\ \A c \in Users : TokenCallFits(tokenCall[c])
    /\ TokenMarginInv
    /\ TokenStoredInv

\* What NotBelow0 returns.
LEMMA NotBelow0Type ==
    ASSUME NEW n \in Int
    PROVE  /\ Tokens!NotBelow0(n) \in Nat
           /\ Tokens!NotBelow0(n) >= n
           /\ Tokens!NotBelow0(n) > 0 => Tokens!NotBelow0(n) = n
  BY DEF Tokens!NotBelow0

\* A second of a request.
LEMMA TokenElapsed ==
    ASSUME NEW x \in Tokens!Call,
           NEW y, y = [x EXCEPT !.waited = @ + 1, !.got.left = Tokens!NotBelow0(@ - 1)]
    PROVE  /\ y \in Tokens!Call /\ y.phase = x.phase /\ y.life = x.life /\ y.waited = x.waited + 1
           /\ y.got.age = x.got.age /\ y.got.left >= x.got.left - 1 /\ y.asked = x.asked
<1>1. x.waited \in Nat /\ x.got \in Tokens!Token /\ x.got.left \in Nat
  BY DEF Tokens!Call, Tokens!Token
<1>2. PICK w \in Nat, l \in Nat : w = x.waited + 1 /\ l = Tokens!NotBelow0(x.got.left - 1)
  BY <1>1, NotBelow0Type
<1>3. l >= x.got.left - 1
  BY <1>1, <1>2, NotBelow0Type
<1>4. PICK g \in Tokens!Token : g = [x.got EXCEPT !.left = l]
  BY <1>1 DEF Tokens!Token
<1>5. g.left = l /\ g.age = x.got.age
  BY <1>1, <1>4 DEF Tokens!Token
<1>6. y = [x EXCEPT !.waited = w, !.got = g]
  BY <1>2, <1>4
<1>7. y \in Tokens!Call /\ y.phase = x.phase /\ y.life = x.life /\ y.waited = w /\ y.got = g /\ y.asked = x.asked
  BY <1>6 DEF Tokens!Call
<1> QED BY <1>2, <1>3, <1>5, <1>7

\* The records of a call that starts anew, or ends without a token of its own.
LEMMA NewTokenCall ==
    /\ Tokens!NoToken \in Tokens!Token
    /\ Tokens!NoCall \in Tokens!Call /\ TokenCallFits(Tokens!NoCall)
    /\ \A phase \in {"request", "stored", "failed"}, asked \in BOOLEAN :
         LET r == [Tokens!NoCall EXCEPT !.phase = phase, !.asked = asked]
         IN  r \in Tokens!Call /\ r.phase = phase /\ r.asked = asked /\ r.waited = 0
    /\ [Tokens!NoCall EXCEPT !.phase = "failed"] \in Tokens!Call
    /\ [Tokens!NoCall EXCEPT !.phase = "failed"].phase = "failed"
    /\ [Tokens!NoCall EXCEPT !.phase = "failed"].waited = 0
<1>1. Tokens!NoToken \in Tokens!Token
  BY DEF Tokens!NoToken, Tokens!Token, Tokens!Kind
<1>2. Tokens!NoCall \in Tokens!Call
  BY <1>1 DEF Tokens!NoCall, Tokens!Call
<1>3. TokenCallFits(Tokens!NoCall)
  BY TokenAssumption DEF Tokens!NoCall, TokenCallFits
<1> QED BY <1>1, <1>2, <1>3 DEF Tokens!NoCall, Tokens!Call

LEMMA TokenInitInv == Tokens!Init => TokenInv
<1> SUFFICES ASSUME Tokens!Init PROVE TokenInv
  OBVIOUS
<1>1. \A c \in Users : tokenCall[c] = Tokens!NoCall
  BY DEF Tokens!Init
<1>2. Tokens!TypeOK
  BY NewTokenCall DEF Tokens!Init, Tokens!TypeOK
<1>3. TokenMarginInv /\ TokenStoredInv
  BY <1>1 DEF Tokens!Init, TokenMarginInv, TokenStoredInv, Tokens!NoCall
<1> QED BY <1>1, <1>2, <1>3, NewTokenCall DEF TokenInv

\* A step of one call.
LEMMA TokenStep ==
    ASSUME TokenInv, NEW c \in Users, NEW r \in Tokens!Call, tokenCall' = [tokenCall EXCEPT ![c] = r],
           TokenCallFits(r), token' \in Tokens!Token, valid' \in Nat, TokenMarginInv',
           \/ UNCHANGED token /\ (r.phase = "stored" => tokenCall[c].phase = "stored")
           \/ token'.age = 0 /\ (token'.kind = "stated" => \E l \in Lifetimes : token'.left >= l - Timeout)
    PROVE  TokenInv'
<1>1. Tokens!TypeOK'
  BY DEF TokenInv, Tokens!TypeOK
<1>2. \A u \in Users : tokenCall'[u] = IF u = c THEN r ELSE tokenCall[u]
  BY DEF TokenInv, Tokens!TypeOK
<1>3. \A u \in Users : TokenCallFits(tokenCall'[u])
  BY <1>2 DEF TokenInv
<1>4. TokenStoredInv'
  BY <1>2 DEF TokenInv, TokenStoredInv
<1> QED BY <1>1, <1>3, <1>4 DEF TokenInv

\* A step of one call that leaves the token alone.
LEMMA TokenQuietInv ==
    ASSUME TokenInv, NEW c \in Users, NEW r \in Tokens!Call, tokenCall' = [tokenCall EXCEPT ![c] = r],
           TokenCallFits(r), UNCHANGED <<token, valid>>, r.phase # "stored"
    PROVE  TokenInv'
<1>1. token' \in Tokens!Token /\ valid' \in Nat /\ TokenMarginInv'
  BY DEF TokenInv, Tokens!TypeOK, TokenMarginInv
<1> QED BY <1>1, TokenStep

\* A second takes as much from the token as from its validity, and ends what was returned.
LEMMA TokenTickInv ==
    ASSUME TokenInv, Tokens!Tick
    PROVE  TokenInv'
<1>1. /\ token \in Tokens!Token /\ token.left \in Nat /\ token.age \in Nat /\ valid \in Nat
      /\ AssumedLife \in Nat
  BY TokenAssumption DEF TokenInv, Tokens!TypeOK, Tokens!Token
<1>2. PICK l \in Nat, a \in Nat :
        /\ l = Tokens!NotBelow0(token.left - 1) /\ a = IF token.age < AssumedLife THEN token.age + 1 ELSE token.age
        /\ l >= token.left - 1 /\ a <= token.age + 1
  BY <1>1, NotBelow0Type
<1>3. token' = [token EXCEPT !.left = l, !.age = a]
  BY <1>2 DEF Tokens!Tick
<1>4. token' \in Tokens!Token /\ token'.kind = token.kind /\ token'.left = l /\ token'.age = a
  BY <1>1, <1>3 DEF Tokens!Token
<1>5. valid' \in Nat /\ (valid' > 0 => valid' = valid - 1)
  <2>1. valid' = Tokens!NotBelow0(valid - 1)
    BY DEF Tokens!Tick
  <2> QED BY <1>1, <2>1, NotBelow0Type
<1>6. ASSUME NEW c \in Users
      PROVE  /\ tokenCall'[c] \in Tokens!Call /\ TokenCallFits(tokenCall'[c])
             /\ tokenCall'[c].phase \in {"idle", "request", "answer"}
  <2>1. CASE ~Tokens!InFlight(c)
    <3>1. tokenCall'[c] = Tokens!NoCall
      BY <2>1 DEF Tokens!Tick
    <3>2. Tokens!NoCall \in Tokens!Call /\ TokenCallFits(Tokens!NoCall)
      BY NewTokenCall
    <3>3. Tokens!NoCall.phase = "idle"
      BY DEF Tokens!NoCall
    <3> QED BY <3>1, <3>2, <3>3
  <2>2. CASE Tokens!InFlight(c)
    <3>1. /\ tokenCall[c] \in Tokens!Call /\ TokenCallFits(tokenCall[c]) /\ tokenCall[c].waited < Timeout
          /\ tokenCall[c].phase \in {"request", "answer"}
      BY <2>2 DEF TokenInv, Tokens!TypeOK, Tokens!Tick, Tokens!MayTick, Tokens!InFlight
    <3>2. tokenCall'[c] = [tokenCall[c] EXCEPT !.waited = @ + 1, !.got.left = Tokens!NotBelow0(@ - 1)]
      BY <2>2 DEF Tokens!Tick
    <3>3. PICK r : r = tokenCall'[c]
      OBVIOUS
    <3>4. /\ r \in Tokens!Call /\ r.phase = tokenCall[c].phase /\ r.life = tokenCall[c].life
          /\ r.waited = tokenCall[c].waited + 1 /\ r.got.age = tokenCall[c].got.age
          /\ r.got.left >= tokenCall[c].got.left - 1
      BY <3>1, <3>2, <3>3, TokenElapsed
    <3>5. r.got.left \in Nat /\ tokenCall[c].got.left \in Nat /\ r.life \in Nat /\ Timeout \in Nat
      BY <3>1, <3>4, TokenAssumption DEF Tokens!Call, Tokens!Token
    <3>6. TokenCallFits(r)
      BY <3>1, <3>4, <3>5 DEF TokenCallFits
    <3> QED BY <3>1, <3>3, <3>4, <3>6
  <2> QED BY <2>1, <2>2
<1>7. Tokens!TypeOK'
  <2>1. tokenCall' \in [Users -> Tokens!Call]
    BY <1>6 DEF Tokens!Tick
  <2> QED BY <1>4, <1>5, <2>1 DEF Tokens!TypeOK
<1>8. TokenMarginInv'
  BY <1>1, <1>2, <1>4, <1>5, TokenAssumption DEF TokenInv, TokenMarginInv
<1>9. TokenStoredInv'
  BY <1>6 DEF TokenStoredInv
<1> QED BY <1>6, <1>7, <1>8, <1>9 DEF TokenInv

\* The first read: a valid token is not empty, and lives or is young enough.
LEMMA GetTokenInv ==
    ASSUME TokenInv, NEW c \in Users, Tokens!GetToken(c)
    PROVE  TokenInv'
<1>1. CASE Tokens!Usable
  <2>1. PICK r : r = [Tokens!NoCall EXCEPT !.phase = "done", !.got = token]
    OBVIOUS
  <2>2. token \in Tokens!Token /\ valid \in Nat
    BY DEF TokenInv, Tokens!TypeOK
  <2>3. r \in Tokens!Call /\ r.phase = "done" /\ r.got = token /\ r.waited = 0
    BY <2>1, <2>2, NewTokenCall DEF Tokens!NoCall, Tokens!Call
  <2>4. tokenCall' = [tokenCall EXCEPT ![c] = r] /\ UNCHANGED <<token, valid>>
    BY <1>1, <2>1 DEF Tokens!GetToken
  <2>5. ASSUME token.kind = "stated" PROVE \E n \in Lifetimes \union {Margin + 1} : token.left >= n - Timeout
    <3>1. token.left >= (Margin + 1) - Timeout
      BY <1>1, <2>2, <2>5, TokenAssumption DEF TokenInv, TokenMarginInv, Tokens!Usable, Tokens!Token
    <3> QED BY <3>1, Zenon
  <2>6. ASSUME token.kind = "assumed" PROVE token.age <= Tokens!NotBelow0(AssumedLife - Margin)
    <3>1. token.age <= AssumedLife - Margin /\ token.age \in Nat /\ AssumedLife - Margin \in Int
      BY <1>1, <2>2, <2>6, TokenAssumption DEF TokenInv, TokenMarginInv, Tokens!Usable, Tokens!Token
    <3> QED BY <3>1 DEF Tokens!NotBelow0
  <2>7. token.kind # "empty"
    BY <1>1 DEF Tokens!Usable
  <2>8. TokenReturned(r)
    BY <2>3, <2>5, <2>6, <2>7 DEF TokenReturned
  <2>9. TokenCallFits(r)
    BY <2>3, <2>8, TokenAssumption DEF TokenCallFits
  <2> QED BY <2>3, <2>4, <2>9, TokenQuietInv
<1>2. CASE ~Tokens!Usable
  <2>1. PICK r : r = [Tokens!NoCall EXCEPT !.phase = "request", !.asked = TRUE]
    OBVIOUS
  <2>2. r \in Tokens!Call /\ r.phase = "request" /\ r.waited = 0
    BY <2>1, NewTokenCall
  <2>3. tokenCall' = [tokenCall EXCEPT ![c] = r] /\ UNCHANGED <<token, valid>>
    BY <1>2, <2>1 DEF Tokens!GetToken
  <2>4. TokenCallFits(r)
    BY <2>2, TokenAssumption DEF TokenCallFits
  <2> QED BY <2>2, <2>3, <2>4, TokenQuietInv
<1> QED BY <1>1, <1>2

\* An issued token has its whole life before it.
LEMMA TokenIssueInv ==
    ASSUME TokenInv, NEW c \in Users, Tokens!Issue(c)
    PROVE  TokenInv'
<1>1. PICK life \in Lifetimes, kind \in Tokens!Kind :
        tokenCall' = [tokenCall EXCEPT ![c].phase = "answer", ![c].life = life,
                                       ![c].got = [kind |-> kind, left |-> life, age |-> 0]]
  BY DEF Tokens!Issue
<1>2. PICK got : got = [kind |-> kind, left |-> life, age |-> 0]
  OBVIOUS
<1>3. life \in Nat /\ got \in Tokens!Token /\ got.left = life /\ got.age = 0
  BY <1>2, TokenAssumption DEF Tokens!Token
<1>4. PICK r : r = [tokenCall[c] EXCEPT !.phase = "answer", !.life = life, !.got = got]
  OBVIOUS
<1>5. tokenCall[c] \in Tokens!Call /\ tokenCall[c].waited \in 0 .. Timeout
  BY DEF TokenInv, Tokens!TypeOK, TokenCallFits
<1>6. r \in Tokens!Call /\ r.phase = "answer" /\ r.life = life /\ r.got = got /\ r.waited = tokenCall[c].waited
  BY <1>3, <1>4, <1>5 DEF Tokens!Call
<1>7. tokenCall' = [tokenCall EXCEPT ![c] = r] /\ UNCHANGED <<token, valid>>
  BY <1>1, <1>2, <1>4 DEF Tokens!Issue, TokenInv, Tokens!TypeOK
<1>8. TokenCallFits(r)
  BY <1>3, <1>5, <1>6, TokenAssumption DEF TokenCallFits
<1> QED BY <1>6, <1>7, <1>8, TokenQuietInv

\* The stored token is the caller's own, whatever was stored before.
LEMMA TokenStoreInv ==
    ASSUME TokenInv, NEW c \in Users, Tokens!Store(c)
    PROVE  TokenInv'
<1>1. PICK x \in Tokens!Call : x = tokenCall[c] /\ TokenCallFits(x) /\ x.phase = "answer"
  BY DEF TokenInv, Tokens!TypeOK, Tokens!Store
<1>2. PICK expiry \in Tokens!Expiries(x) : valid' = Tokens!ValidFor(expiry) /\ token' = x.got
  BY <1>1 DEF Tokens!Store
<1>3. PICK r : r = [Tokens!NoCall EXCEPT !.phase = "stored", !.asked = TRUE]
  OBVIOUS
<1>4. r \in Tokens!Call /\ r.phase = "stored" /\ r.asked /\ r.waited = 0
  BY <1>3, NewTokenCall
<1>5. tokenCall' = [tokenCall EXCEPT ![c] = r]
  BY <1>3 DEF Tokens!Store
<1>6. /\ x.got \in Tokens!Token /\ x.got.left \in Nat /\ x.got.age = 0
      /\ x.life \in Lifetimes /\ x.life \in Nat /\ x.got.left >= x.life - Timeout
      /\ Margin \in Nat /\ Timeout \in Nat /\ AssumedLife \in Nat
  BY <1>1, TokenAssumption DEF Tokens!Call, Tokens!Token, TokenCallFits
<1>7. /\ expiry \in Nat
      /\ x.got.kind = "stated" => expiry = x.life
      /\ x.got.kind = "assumed" => expiry = AssumedLife
  BY <1>2, <1>6 DEF Tokens!Expiries
<1>8. valid' \in Nat /\ (valid' > 0 => valid' = expiry - Margin)
  BY <1>2, <1>6, <1>7, NotBelow0Type DEF Tokens!ValidFor
<1>9. TokenMarginInv'
  BY <1>2, <1>6, <1>7, <1>8 DEF TokenMarginInv
<1>10. TokenCallFits(r)
  BY <1>4, TokenAssumption DEF TokenCallFits
<1>11. token' \in Tokens!Token /\ token'.age = 0 /\ \E l \in Lifetimes : token'.left >= l - Timeout
  BY <1>2, <1>6
<1> QED BY <1>4, <1>5, <1>8, <1>9, <1>10, <1>11, TokenStep

\* The second read returns a token of TokenStoredInv.
LEMMA TokenReturnInv ==
    ASSUME TokenInv, NEW c \in Users, Tokens!Return(c)
    PROVE  TokenInv'
<1>1. PICK r : r = [tokenCall[c] EXCEPT !.phase = "done", !.got = token]
  OBVIOUS
<1>2. /\ tokenCall[c] \in Tokens!Call /\ TokenCallFits(tokenCall[c]) /\ tokenCall[c].phase = "stored"
      /\ token \in Tokens!Token
  BY DEF TokenInv, Tokens!TypeOK, Tokens!Return
<1>3. r \in Tokens!Call /\ r.phase = "done" /\ r.got = token /\ r.waited = tokenCall[c].waited /\ r.asked
  BY <1>1, <1>2 DEF Tokens!Call, TokenCallFits
<1>4. tokenCall' = [tokenCall EXCEPT ![c] = r] /\ UNCHANGED <<token, valid>>
  BY <1>1 DEF Tokens!Return, TokenInv, Tokens!TypeOK
<1>5. token.age = 0 /\ (token.kind = "stated" => \E l \in Lifetimes : token.left >= l - Timeout)
  BY <1>2 DEF TokenInv, TokenStoredInv
<1>6. AssumedLife - Margin \in Int
  BY TokenAssumption
<1>7. TokenReturned(r)
  BY <1>3, <1>5, <1>6, NotBelow0Type DEF TokenReturned
<1>8. TokenCallFits(r)
  BY <1>2, <1>3, <1>7 DEF TokenCallFits
<1> QED BY <1>3, <1>4, <1>8, TokenQuietInv

\* A failed request leaves the token alone.
LEMMA TokenFailInv ==
    ASSUME TokenInv, NEW c \in Users, Tokens!Fail(c)
    PROVE  TokenInv'
<1>1. PICK r : r = [Tokens!NoCall EXCEPT !.phase = "failed"]
  OBVIOUS
<1>2. r \in Tokens!Call /\ r.phase = "failed" /\ r.waited = 0
  BY <1>1, NewTokenCall
<1>3. tokenCall' = [tokenCall EXCEPT ![c] = r] /\ UNCHANGED <<token, valid>>
  BY <1>1 DEF Tokens!Fail
<1>4. TokenCallFits(r)
  BY <1>2, TokenAssumption DEF TokenCallFits
<1> QED BY <1>2, <1>3, <1>4, TokenQuietInv

\* TokenInv is an invariant.
LEMMA TokenInvariance == Tokens!Spec => []TokenInv
<1>1. TokenInv /\ [Tokens!Next]_(Tokens!vars) => TokenInv'
  <2> SUFFICES ASSUME TokenInv, [Tokens!Next]_(Tokens!vars) PROVE TokenInv'
    OBVIOUS
  <2>1. CASE Tokens!Tick
    BY <2>1, TokenTickInv
  <2>2. ASSUME NEW c \in Users,
               \/ Tokens!GetToken(c) \/ Tokens!Issue(c) \/ Tokens!Store(c)
               \/ Tokens!Fail(c) \/ Tokens!Return(c)
        PROVE  TokenInv'
    BY <2>2, GetTokenInv, TokenIssueInv, TokenStoreInv, TokenFailInv, TokenReturnInv
  <2>3. CASE UNCHANGED Tokens!vars
    BY <2>3 DEF TokenInv, Tokens!TypeOK, TokenMarginInv, TokenStoredInv, Tokens!vars
  <2> QED BY <2>1, <2>2, <2>3 DEF Tokens!Next
<1> QED BY <1>1, TokenInitInv, PTL DEF Tokens!Spec

\* GetToken returns a token of stated life alive at Keycloak for at least
\* Margin - Timeout, or nearly its whole life, and one of unstated life at most
\* AssumedLife - Margin after it came, however many users fetch at the same time; an empty
\* one it returns only to callers that asked Keycloak themselves.
THEOREM ReturnedLives == Tokens!Spec => []ReturnedTokenLives
<1>1. TokenInv => ReturnedTokenLives
  BY DEF TokenInv, TokenCallFits, TokenReturned, ReturnedTokenLives, Tokens!ReturnedTokenLives
<1> QED BY <1>1, TokenInvariance, PTL

-----------------------------------------------------------------------------
(* The verifier's keys.                                                     *)

\* refreshMu: whoever decides on a refresh, or makes it, holds it.
HolderInv == \A c \in Requests : keyCall[c].phase \in {"check", "due", "fetch", "reply"} => holder = c

\* A fetch begins MinRefresh after the last and lasts no longer than FetchTimeout; when
\* none is under way fetchedAt is lastTry, unless the last one failed.
TriedInv ==
    /\ \A c \in Requests : keyCall[c].phase = "due" => tryAge >= MinRefresh
    /\ \A c \in Requests : Jwks!Fetching(c) => tryAge <= FetchTimeout
    /\ (\A c \in Requests : ~Jwks!Fetching(c)) /\ keysAge # tryAge => down

\* A set of keys as old as age: those in it were served since then or later, those
\* that are not were not served all that time.
AsOf(set, age) == \A k \in Kids : IF k \in set THEN gone[k] <= age ELSE stayed[k] <= age

\* The known keys and the ones on their way are as old as they are taken to be; who
\* looks them up after a refresh finds them no older than MinRefresh.
KeysInv ==
    /\ AsOf(served, 0)
    /\ AsOf(keys, keysAge)
    /\ \A c \in Requests : keyCall[c].phase = "reply" => AsOf(keyCall[c].body, tryAge)
    /\ \A c \in Requests : keyCall[c].phase = "look" => keysAge < MinRefresh

JwksInv == Jwks!TypeOK /\ HolderInv /\ TriedInv /\ KeysInv
\* Ages grow alike.
LEMMA OlderAges ==
    /\ \A a \in Jwks!Ages : Jwks!Older(a) \in Jwks!Ages /\ a <= Jwks!Older(a)
    /\ \A a, b \in Jwks!Ages : a <= b => Jwks!Older(a) <= Jwks!Older(b)
  BY JwksAssumption DEF Jwks!Ages, Jwks!Older

LEMMA AgesNat == Jwks!Ages \subseteq Nat /\ 0 \in Jwks!Ages /\ RefreshTTL \in Jwks!Ages
  BY JwksAssumption DEF Jwks!Ages

JwksPhases == {"idle", "wait", "check", "due", "fetch", "reply", "look", "accepted", "refused"}

\* The records the steps of a request make of its record.
LEMMA KeyCallRecord ==
    ASSUME NEW x \in Jwks!Call, NEW p \in JwksPhases
    PROVE  /\ [x EXCEPT !.phase = p] \in Jwks!Call
           /\ [x EXCEPT !.phase = p].phase = p /\ [x EXCEPT !.phase = p].body = x.body
           /\ [x EXCEPT !.phase = p].kid = x.kid
  BY DEF Jwks!Call, JwksPhases

LEMMA JwksInit == Jwks!Init => JwksInv
<1> SUFFICES ASSUME Jwks!Init PROVE JwksInv
  OBVIOUS
<1>1. \A c \in Requests : keyCall[c] \in Jwks!Call /\ keyCall[c].phase = "idle"
  BY DEF Jwks!Init, Jwks!Call
<1>2. Jwks!TypeOK
  <2>1. keyCall \in [Requests -> Jwks!Call]
    <3>1. PICK S : keyCall \in [Requests -> S]
      BY DEF Jwks!Init
    <3> QED BY <1>1, <3>1
  <2>2. stayed \in [Kids -> Jwks!Ages] /\ gone \in [Kids -> Jwks!Ages]
    BY AgesNat DEF Jwks!Init
  <2>3. rotations \in 0 .. MaxRotations /\ outages \in 0 .. MaxOutages
    BY JwksBounds DEF Jwks!Init
  <2> QED BY <2>1, <2>2, <2>3, AgesNat DEF Jwks!Init, Jwks!TypeOK
<1>3. HolderInv /\ TriedInv
  BY <1>1 DEF Jwks!Init, HolderInv, TriedInv, Jwks!Fetching
<1>4. KeysInv
  BY <1>1, AgesNat DEF Jwks!Init, KeysInv, AsOf
<1> QED BY <1>2, <1>3, <1>4 DEF JwksInv

\* A set of keys stays as old as it is taken to be while Keycloak rotates its keys and
\* time passes.
LEMMA RotateKeys ==
    ASSUME JwksInv, NEW k \in Kids, Jwks!Rotate(k), NEW set, NEW age \in Nat, AsOf(set, age)
    PROVE  AsOf(set, age)'
  BY DEF Jwks!Rotate, JwksInv, Jwks!TypeOK, AsOf

LEMMA RotateInv ==
    ASSUME JwksInv, NEW k \in Kids, Jwks!Rotate(k)
    PROVE  JwksInv'
<1>1. Jwks!TypeOK'
  <2>1. rotations' \in 0 .. MaxRotations
    BY JwksBounds DEF JwksInv, Jwks!TypeOK, Jwks!Rotate
  <2>2. served' \subseteq Kids /\ stayed' \in [Kids -> Jwks!Ages] /\ gone' \in [Kids -> Jwks!Ages]
    BY AgesNat DEF JwksInv, Jwks!TypeOK, Jwks!Rotate
  <2> QED BY <2>1, <2>2 DEF JwksInv, Jwks!TypeOK, Jwks!Rotate, Jwks!cache
<1>2. HolderInv' /\ TriedInv'
  BY DEF JwksInv, Jwks!Rotate, Jwks!cache, HolderInv, TriedInv, Jwks!Fetching
<1>3. AsOf(served, 0)'
  BY DEF JwksInv, Jwks!TypeOK, Jwks!Rotate, KeysInv, AsOf
<1>4. /\ AsOf(keys, keysAge)'
      /\ \A c \in Requests : keyCall'[c].phase = "reply" => AsOf(keyCall[c].body, tryAge)'
  BY RotateKeys, AgesNat DEF JwksInv, Jwks!TypeOK, Jwks!Rotate, Jwks!cache, KeysInv, AsOf
<1>5. KeysInv'
  BY <1>3, <1>4 DEF JwksInv, Jwks!Rotate, Jwks!cache, KeysInv
<1> QED BY <1>1, <1>2, <1>5 DEF JwksInv
LEMMA JwksTickInv ==
    ASSUME JwksInv, Jwks!Tick
    PROVE  JwksInv'
<1>1. /\ keysAge \in Jwks!Ages /\ tryAge \in Jwks!Ages
      /\ keysAge' = Jwks!Older(keysAge) /\ tryAge' = Jwks!Older(tryAge)
      /\ UNCHANGED <<served, keys, holder, rotations, outages, down>>
  BY DEF JwksInv, Jwks!TypeOK, Jwks!Tick
<1>2. ASSUME NEW k \in Kids
      PROVE  /\ stayed[k] \in Jwks!Ages /\ gone[k] \in Jwks!Ages
             /\ stayed'[k] = IF k \in served THEN Jwks!Older(stayed[k]) ELSE 0
             /\ gone'[k] = IF k \in served THEN 0 ELSE Jwks!Older(gone[k])
  BY DEF JwksInv, Jwks!TypeOK, Jwks!Tick
<1>3. ASSUME NEW c \in Requests
      PROVE  /\ keyCall'[c] \in Jwks!Call
             /\ keyCall'[c] = keyCall[c] \/ keyCall'[c].phase = "idle"
             /\ keyCall'[c].phase \notin {"due", "look"}
             /\ Jwks!Fetching(c)' => Jwks!Fetching(c) /\ tryAge < FetchTimeout
             /\ Jwks!Fetching(c) => Jwks!Fetching(c)'
  <2>1. CASE keyCall[c].phase \in {"accepted", "refused"}
    <3>1. keyCall'[c] = [keyCall[c] EXCEPT !.phase = "idle", !.known = FALSE] /\ keyCall[c] \in Jwks!Call
      BY <2>1 DEF JwksInv, Jwks!TypeOK, Jwks!Tick
    <3>2. keyCall'[c] \in Jwks!Call /\ keyCall'[c].phase = "idle"
      BY <3>1 DEF Jwks!Call
    <3> QED BY <2>1, <3>2 DEF Jwks!Fetching
  <2>2. CASE keyCall[c].phase \notin {"accepted", "refused"}
    <3>1. keyCall'[c] = keyCall[c] /\ keyCall[c] \in Jwks!Call
      BY <2>2 DEF JwksInv, Jwks!TypeOK, Jwks!Tick
    <3>2. \/ keyCall[c].phase \in {"idle", "wait"}
          \/ Jwks!Fetching(c) /\ tryAge < FetchTimeout
      BY <2>2 DEF Jwks!Tick, Jwks!MayTick
    <3> QED BY <3>1, <3>2 DEF Jwks!Fetching
  <2> QED BY <2>1, <2>2
<1>4. Jwks!TypeOK'
  <2>1. keyCall' \in [Requests -> Jwks!Call]
    BY <1>3 DEF Jwks!Tick
  <2>2. stayed' \in [Kids -> Jwks!Ages] /\ gone' \in [Kids -> Jwks!Ages]
    BY <1>2, OlderAges, AgesNat DEF Jwks!Tick
  <2> QED BY <1>1, <2>1, <2>2, OlderAges DEF JwksInv, Jwks!TypeOK
<1>5. HolderInv'
  BY <1>1, <1>3 DEF JwksInv, HolderInv
<1>6. TriedInv'
  <2>1. ASSUME NEW c \in Requests, Jwks!Fetching(c)' PROVE tryAge' <= FetchTimeout
    BY <1>1, <1>3, <2>1, AgesNat, JwksAssumption DEF Jwks!Older
  <2>2. (\A c \in Requests : ~Jwks!Fetching(c))' /\ keysAge' # tryAge' => down'
    BY <1>1, <1>3 DEF JwksInv, TriedInv
  <2> QED BY <1>3, <2>1, <2>2 DEF TriedInv
<1>7. ASSUME NEW set, NEW age \in Jwks!Ages, AsOf(set, age) PROVE AsOf(set, Jwks!Older(age))'
  <2> SUFFICES ASSUME NEW k \in Kids
               PROVE  IF k \in set THEN gone'[k] <= Jwks!Older(age) ELSE stayed'[k] <= Jwks!Older(age)
    BY DEF AsOf, Jwks!Older
  <2>1. Jwks!Older(age) \in Nat
    BY OlderAges, AgesNat
  <2> QED BY <1>2, <1>7, <2>1, OlderAges DEF AsOf
<1>8. KeysInv'
  <2>1. AsOf(served, 0)'
    BY <1>1, <1>2 DEF AsOf
  <2>2. AsOf(keys, keysAge)'
    BY <1>1, <1>7 DEF JwksInv, KeysInv, AsOf
  <2>3. ASSUME NEW c \in Requests, keyCall'[c].phase = "reply" PROVE AsOf(keyCall[c].body, tryAge)'
    <3>1. keyCall'[c] = keyCall[c]
      BY <1>3, <2>3
    <3>2. AsOf(keyCall[c].body, tryAge)
      BY <2>3, <3>1 DEF JwksInv, KeysInv
    <3> QED BY <1>1, <1>7, <3>1, <3>2 DEF AsOf
  <2> QED BY <1>3, <2>1, <2>2, <2>3 DEF KeysInv
<1> QED BY <1>4, <1>5, <1>6, <1>8 DEF JwksInv
\* A step of one request changes its record alone.
LEMMA KeyCallStep ==
    ASSUME JwksInv, NEW c \in Requests, NEW x \in Jwks!Call, keyCall' = [keyCall EXCEPT ![c] = x]
    PROVE  /\ keyCall' \in [Requests -> Jwks!Call] /\ keyCall'[c] = x
           /\ \A d \in Requests : d # c => keyCall'[d] = keyCall[d] /\ Jwks!Fetching(d)' = Jwks!Fetching(d)
  BY DEF JwksInv, Jwks!TypeOK, Jwks!Fetching

\* A step of one request that leaves the times and the keys alone.
LEMMA JwksQuietInv ==
    ASSUME JwksInv, NEW c \in Requests, NEW x \in Jwks!Call, keyCall' = [keyCall EXCEPT ![c] = x],
           UNCHANGED <<Jwks!cache, Jwks!idp>>, outages' \in 0 .. MaxOutages,
           holder' \in {holder, c, NoRequest}, holder' # holder => holder \in {c, NoRequest},
           down' \in BOOLEAN, down => down',
           x.phase \in {"check", "due", "fetch", "reply"} => holder' = c,
           x.phase = "due" => tryAge >= MinRefresh,
           x.phase \in {"fetch", "reply"} => Jwks!Fetching(c),
           Jwks!Fetching(c) => x.phase \in {"fetch", "reply"} \/ down',
           x.phase = "reply" => AsOf(x.body, tryAge),
           x.phase = "look" => keysAge < MinRefresh
    PROVE  JwksInv'
<1>1. UNCHANGED <<keys, keysAge, tryAge, served, rotations, stayed, gone>>
  BY DEF Jwks!cache, Jwks!idp
<1>2. Jwks!TypeOK'
  BY <1>1, KeyCallStep DEF JwksInv, Jwks!TypeOK
<1>3. HolderInv'
  <2>1. keyCall'[c] = x /\ \A d \in Requests : d # c => keyCall'[d] = keyCall[d]
    BY KeyCallStep
  <2>2. HolderInv
    BY DEF JwksInv
  <2>3. ASSUME NEW d \in Requests, d # c, keyCall[d].phase \in {"check", "due", "fetch", "reply"}
        PROVE  holder' = d
    BY <2>2, <2>3, JwksAssumption DEF HolderInv
  <2> QED BY <2>1, <2>3 DEF HolderInv
<1>4. TriedInv'
  <2>1. Jwks!Fetching(c)' <=> x.phase \in {"fetch", "reply"}
    BY KeyCallStep DEF Jwks!Fetching
  <2> QED BY <1>1, <2>1, KeyCallStep DEF JwksInv, TriedInv
<1>5. KeysInv'
  BY <1>1, KeyCallStep DEF JwksInv, KeysInv, AsOf
<1> QED BY <1>2, <1>3, <1>4, <1>5 DEF JwksInv

LEMMA AskInv ==
    ASSUME JwksInv, NEW c \in Requests, NEW k \in Kids, Jwks!Ask(c, k)
    PROVE  JwksInv'
<1>1. PICK x : x = [phase |-> IF k \in keys /\ Jwks!Fresh THEN "accepted" ELSE "wait",
                    kid |-> k, known |-> k \in keys, body |-> {}]
  OBVIOUS
<1>2. x \in Jwks!Call /\ x.phase \in {"accepted", "wait"}
  BY <1>1 DEF Jwks!Call
<1>3. keyCall' = [keyCall EXCEPT ![c] = x] /\ UNCHANGED <<Jwks!cache, Jwks!idp, holder, outages, down>>
  BY <1>1 DEF Jwks!Ask
<1>4. ~Jwks!Fetching(c)
  BY DEF Jwks!Ask, Jwks!Fetching
<1> QED BY <1>2, <1>3, <1>4, JwksQuietInv DEF JwksInv, Jwks!TypeOK

\* A request that goes on with the same token.
LEMMA PhaseStep ==
    ASSUME JwksInv, NEW c \in Requests, NEW p \in JwksPhases, Jwks!Goto(c, p)
    PROVE  \E x \in Jwks!Call : /\ keyCall' = [keyCall EXCEPT ![c] = x]
                                /\ x.phase = p /\ x.body = keyCall[c].body /\ x.kid = keyCall[c].kid
<1>1. keyCall[c] \in Jwks!Call
  BY DEF JwksInv, Jwks!TypeOK
<1>2. keyCall' = [keyCall EXCEPT ![c] = [keyCall[c] EXCEPT !.phase = p]]
  BY DEF Jwks!Goto
<1> QED BY <1>1, <1>2, KeyCallRecord

LEMMA EnterInv ==
    ASSUME JwksInv, NEW c \in Requests, Jwks!Enter(c)
    PROVE  JwksInv'
<1>1. PICK x \in Jwks!Call : keyCall' = [keyCall EXCEPT ![c] = x] /\ x.phase = "check"
  BY PhaseStep DEF Jwks!Enter, JwksPhases
<1>2. holder = NoRequest /\ holder' = c /\ ~Jwks!Fetching(c) /\ UNCHANGED <<Jwks!cache, Jwks!idp, outages, down>>
  BY DEF Jwks!Enter, Jwks!MayEnter, Jwks!Fetching
<1> QED BY <1>1, <1>2, JwksQuietInv DEF JwksInv, Jwks!TypeOK

LEMMA CheckInv ==
    ASSUME JwksInv, NEW c \in Requests, Jwks!Check(c)
    PROVE  JwksInv'
<1>1. holder = c /\ ~Jwks!Fetching(c) /\ UNCHANGED <<Jwks!cache, Jwks!idp, outages, down>>
  BY DEF JwksInv, HolderInv, Jwks!Check, Jwks!Fetching
<1>2. CASE tryAge < MinRefresh
  <2>1. PICK p : p = IF keysAge = tryAge THEN "look" ELSE Jwks!AfterError(c)
    OBVIOUS
  <2>2. p \in {"look", "accepted", "refused"} /\ (p = "look" => keysAge = tryAge)
    BY <2>1 DEF Jwks!AfterError
  <2>3. holder' = NoRequest /\ Jwks!Goto(c, p)
    BY <1>2, <2>1 DEF Jwks!Check, Jwks!TooEarly
  <2>4. PICK x \in Jwks!Call : keyCall' = [keyCall EXCEPT ![c] = x] /\ x.phase = p
    BY <2>2, <2>3, PhaseStep DEF JwksPhases
  <2> QED BY <1>1, <1>2, <2>2, <2>3, <2>4, JwksQuietInv DEF JwksInv, Jwks!TypeOK
<1>3. CASE ~(tryAge < MinRefresh)
  <2>1. holder' = holder /\ Jwks!Goto(c, "due")
    BY <1>3 DEF Jwks!Check, Jwks!TooEarly
  <2>2. PICK x \in Jwks!Call : keyCall' = [keyCall EXCEPT ![c] = x] /\ x.phase = "due"
    BY <2>1, PhaseStep DEF JwksPhases
  <2>3. tryAge >= MinRefresh
    BY <1>3, AgesNat, JwksAssumption DEF JwksInv, Jwks!TypeOK
  <2> QED BY <1>1, <2>1, <2>2, <2>3, JwksQuietInv DEF JwksInv, Jwks!TypeOK
<1> QED BY <1>2, <1>3

LEMMA FetchInv ==
    ASSUME JwksInv, NEW c \in Requests, Jwks!Fetch(c)
    PROVE  JwksInv'
<1>1. PICK x \in Jwks!Call : keyCall' = [keyCall EXCEPT ![c] = x] /\ x.phase = "fetch"
  BY PhaseStep DEF Jwks!Fetch, JwksPhases
<1>2. /\ keyCall[c].phase = "due" /\ holder = c
      /\ tryAge' = 0
      /\ UNCHANGED <<keys, keysAge, served, rotations, stayed, gone, holder, outages, down>>
  BY DEF Jwks!Fetch, Jwks!idp, JwksInv, HolderInv
<1>3. \A d \in Requests : d # c => keyCall[d].phase \notin {"due", "fetch", "reply"}
  BY <1>2 DEF JwksInv, HolderInv
<1>4. Jwks!TypeOK'
  BY <1>1, <1>2, KeyCallStep, AgesNat DEF JwksInv, Jwks!TypeOK
<1>5. HolderInv'
  BY <1>1, <1>2, KeyCallStep DEF JwksInv, HolderInv
<1>6. TriedInv'
  <2>1. Jwks!Fetching(c)' /\ 0 <= FetchTimeout
    <3>1. keyCall'[c] = x
      BY <1>1, KeyCallStep
    <3> QED BY <1>1, <3>1, JwksAssumption DEF Jwks!Fetching
  <2> QED BY <1>1, <1>2, <1>3, <2>1, KeyCallStep DEF TriedInv, Jwks!Fetching
<1>7. KeysInv'
  BY <1>1, <1>2, <1>3, KeyCallStep DEF JwksInv, KeysInv, AsOf
<1> QED BY <1>4, <1>5, <1>6, <1>7 DEF JwksInv

LEMMA ServeInv ==
    ASSUME JwksInv, NEW c \in Requests, Jwks!Serve(c)
    PROVE  JwksInv'
<1>1. PICK x : x = [keyCall[c] EXCEPT !.phase = "reply", !.body = served]
  OBVIOUS
<1>2. keyCall' = [keyCall EXCEPT ![c] = x] /\ UNCHANGED <<Jwks!cache, Jwks!idp, holder, outages, down>>
  BY <1>1 DEF Jwks!Serve, JwksInv, Jwks!TypeOK
<1>3. x \in Jwks!Call /\ x.phase = "reply" /\ x.body = served
  <2>1. keyCall[c] \in Jwks!Call /\ served \in SUBSET Kids
    BY DEF JwksInv, Jwks!TypeOK
  <2>2. PICK r \in Jwks!Call : r = keyCall[c]
    BY <2>1
  <2>3. x = [r EXCEPT !.phase = "reply", !.body = served]
    BY <1>1, <2>2
  <2> QED BY <2>1, <2>2, <2>3 DEF Jwks!Call
<1>4. Jwks!Fetching(c) /\ holder = c
  BY DEF Jwks!Serve, Jwks!Fetching, JwksInv, HolderInv
<1>5. AsOf(served, tryAge)
  <2>1. AsOf(served, 0)
    BY DEF JwksInv, KeysInv
  <2>2. tryAge \in Nat /\ \A k \in Kids : gone[k] \in Nat /\ stayed[k] \in Nat
    BY AgesNat DEF JwksInv, Jwks!TypeOK
  <2> QED BY <2>1, <2>2 DEF AsOf
<1> QED BY <1>2, <1>3, <1>4, <1>5, JwksQuietInv DEF JwksInv, Jwks!TypeOK

LEMMA InstallInv ==
    ASSUME JwksInv, NEW c \in Requests, Jwks!Install(c)
    PROVE  JwksInv'
<1>1. PICK x : x = [keyCall[c] EXCEPT !.phase = "look", !.body = {}]
  OBVIOUS
<1>2. /\ keyCall' = [keyCall EXCEPT ![c] = x]
      /\ keyCall[c].phase = "reply" /\ holder = c /\ tryAge <= FetchTimeout
      /\ keys' = keyCall[c].body /\ keysAge' = tryAge /\ holder' = NoRequest /\ down' = FALSE
      /\ UNCHANGED <<tryAge, served, rotations, stayed, gone, outages>>
  BY <1>1 DEF Jwks!Install, Jwks!idp, JwksInv, Jwks!TypeOK, HolderInv, TriedInv, Jwks!Fetching
<1>3. x \in Jwks!Call /\ x.phase = "look" /\ keyCall[c].body \subseteq Kids
  <2>1. keyCall[c] \in Jwks!Call
    BY DEF JwksInv, Jwks!TypeOK
  <2>2. keyCall[c].body \subseteq Kids
    BY <2>1 DEF Jwks!Call
  <2>3. PICK r \in Jwks!Call : r = keyCall[c]
    BY <2>1
  <2>4. x = [r EXCEPT !.phase = "look", !.body = {}]
    BY <1>1, <2>3
  <2> QED BY <2>2, <2>4 DEF Jwks!Call
<1>4. \A d \in Requests : d # c => keyCall[d].phase \notin {"check", "due", "fetch", "reply"}
  BY <1>2 DEF JwksInv, HolderInv
<1>5. Jwks!TypeOK'
  BY <1>2, <1>3, KeyCallStep DEF JwksInv, Jwks!TypeOK
<1>6. HolderInv'
  BY <1>2, <1>3, <1>4, KeyCallStep DEF HolderInv
<1>7. TriedInv'
  BY <1>2, <1>3, <1>4, KeyCallStep DEF TriedInv, Jwks!Fetching
<1>8. KeysInv'
  <2>1. tryAge < MinRefresh
    BY <1>2, AgesNat, JwksAssumption DEF JwksInv, Jwks!TypeOK
  <2>2. AsOf(keyCall[c].body, tryAge)
    BY <1>2 DEF JwksInv, KeysInv
  <2> QED BY <1>2, <1>3, <1>4, <2>1, <2>2, KeyCallStep DEF JwksInv, KeysInv, AsOf
<1> QED BY <1>5, <1>6, <1>7, <1>8 DEF JwksInv

LEMMA FetchFailsInv ==
    ASSUME JwksInv, NEW c \in Requests, Jwks!FetchFails(c)
    PROVE  JwksInv'
<1>1. PICK p : p = Jwks!AfterError(c)
  OBVIOUS
<1>2. p \in {"accepted", "refused"}
  BY <1>1 DEF Jwks!AfterError
<1>3. PICK x : x = [keyCall[c] EXCEPT !.phase = p, !.body = {}]
  OBVIOUS
<1>4. x \in Jwks!Call /\ x.phase = p
  <2>1. PICK r \in Jwks!Call : r = keyCall[c]
    BY DEF JwksInv, Jwks!TypeOK
  <2>2. x = [r EXCEPT !.phase = p, !.body = {}]
    BY <1>3, <2>1
  <2> QED BY <1>2, <2>2 DEF Jwks!Call
<1>5. /\ keyCall' = [keyCall EXCEPT ![c] = x]
      /\ UNCHANGED <<Jwks!cache, Jwks!idp>> /\ down' = TRUE /\ holder' = NoRequest /\ holder = c
  BY <1>1, <1>3 DEF Jwks!FetchFails, JwksInv, Jwks!TypeOK, HolderInv, Jwks!Fetching
<1>6. outages' \in 0 .. MaxOutages
  BY JwksBounds DEF Jwks!FetchFails, JwksInv, Jwks!TypeOK
<1> QED BY <1>2, <1>4, <1>5, <1>6, JwksQuietInv DEF JwksInv, Jwks!TypeOK

LEMMA LookInv ==
    ASSUME JwksInv, NEW c \in Requests, Jwks!Look(c)
    PROVE  JwksInv'
<1>1. PICK p : p = IF keyCall[c].kid \in keys THEN "accepted" ELSE "refused"
  OBVIOUS
<1>2. p \in {"accepted", "refused"} /\ Jwks!Goto(c, p)
  BY <1>1 DEF Jwks!Look
<1>3. PICK x \in Jwks!Call : keyCall' = [keyCall EXCEPT ![c] = x] /\ x.phase = p
  BY <1>2, PhaseStep DEF JwksPhases
<1>4. ~Jwks!Fetching(c) /\ UNCHANGED <<Jwks!cache, Jwks!idp, holder, outages, down>>
  BY DEF Jwks!Look, Jwks!Fetching
<1> QED BY <1>2, <1>3, <1>4, JwksQuietInv DEF JwksInv, Jwks!TypeOK
LEMMA JwksNext ==
    ASSUME JwksInv, [Jwks!Next]_(Jwks!vars)
    PROVE  JwksInv'
<1>1. ASSUME NEW k \in Kids, Jwks!Rotate(k) PROVE JwksInv'
  BY <1>1, RotateInv
<1>2. CASE Jwks!Tick
  BY <1>2, JwksTickInv
<1>3. ASSUME NEW c \in Requests,
             Jwks!KeyStep(c) \/ Jwks!FetchFails(c) \/ \E k \in Kids : Jwks!Ask(c, k)
      PROVE  JwksInv'
  BY <1>3, AskInv, EnterInv, CheckInv, FetchInv, ServeInv, InstallInv, FetchFailsInv, LookInv
     DEF Jwks!KeyStep
<1>4. CASE UNCHANGED Jwks!vars
  BY <1>4 DEF JwksInv, Jwks!TypeOK, HolderInv, TriedInv, KeysInv, AsOf, Jwks!Fetching,
              Jwks!vars, Jwks!cache, Jwks!idp
<1> QED BY <1>1, <1>2, <1>3, <1>4 DEF Jwks!Next

\* JwksInv is an invariant.
LEMMA JwksInvariance == Jwks!Spec => []JwksInv
  BY JwksInit, JwksNext, PTL DEF Jwks!Spec

\* What a request is answered with, and when a fetch begins.
LEMMA JwksAnswer ==
    ASSUME JwksInv, [Jwks!Next]_(Jwks!vars), NEW c \in Requests, NEW p, Jwks!Answers(c, p),
           p \in {"accepted", "refused", "fetch"}
    PROVE  \/ \E k \in Kids : Jwks!Ask(c, k)
           \/ Jwks!Check(c) \/ Jwks!Fetch(c) \/ Jwks!FetchFails(c) \/ Jwks!Look(c)
<1>1. ASSUME keyCall' = keyCall PROVE FALSE
  BY <1>1 DEF Jwks!Answers
<1>2. ASSUME Jwks!Tick PROVE FALSE
  <2>1. keyCall'[c] = keyCall[c] \/ keyCall'[c] = [keyCall[c] EXCEPT !.phase = "idle", !.known = FALSE]
    BY <1>2 DEF Jwks!Tick
  <2>2. keyCall[c] \in Jwks!Call
    BY DEF JwksInv, Jwks!TypeOK
  <2> QED BY <2>1, <2>2 DEF Jwks!Answers, Jwks!Call
<1>3. ASSUME NEW d \in Requests, d # c, NEW x, keyCall' = [keyCall EXCEPT ![d] = x] PROVE FALSE
  BY <1>3 DEF Jwks!Answers, JwksInv, Jwks!TypeOK
<1>4. ASSUME NEW d \in Requests, Jwks!KeyStep(d) \/ Jwks!FetchFails(d) \/ \E k \in Kids : Jwks!Ask(d, k)
      PROVE  d = c
  <2>1. \E x : keyCall' = [keyCall EXCEPT ![d] = x]
    BY <1>4 DEF Jwks!KeyStep, Jwks!FetchFails, Jwks!Ask, Jwks!Enter, Jwks!Check, Jwks!Fetch, Jwks!Serve,
                Jwks!Install, Jwks!Look, Jwks!Goto
  <2> QED BY <1>3, <2>1
<1>5. ASSUME Jwks!Enter(c) \/ Jwks!Serve(c) \/ Jwks!Install(c) PROVE FALSE
  BY <1>5, KeyCallRecord
     DEF Jwks!Enter, Jwks!Serve, Jwks!Install, Jwks!Goto, Jwks!Answers, JwksInv, Jwks!TypeOK, Jwks!Call
<1> QED BY <1>1, <1>2, <1>4, <1>5 DEF Jwks!Next, Jwks!vars, Jwks!Rotate, Jwks!KeyStep
LEMMA AskAnswer ==
    ASSUME JwksInv, NEW c \in Requests, NEW k \in Kids, Jwks!Ask(c, k)
    PROVE  /\ keyCall'[c].phase \in {"accepted", "wait"} /\ keyCall'[c].kid = k
           /\ keyCall'[c].phase = "accepted" => k \in keys /\ keysAge < RefreshTTL
           /\ UNCHANGED <<gone, stayed>>
<1>1. keyCall'[c] = [phase |-> IF k \in keys /\ Jwks!Fresh THEN "accepted" ELSE "wait",
                     kid |-> k, known |-> k \in keys, body |-> {}]
  BY DEF Jwks!Ask, JwksInv, Jwks!TypeOK
<1> QED BY <1>1 DEF Jwks!Ask, Jwks!Fresh, Jwks!idp

\* Without a fetch an error of refresh is that of an earlier one.
LEMMA CheckAnswer ==
    ASSUME JwksInv, NEW c \in Requests, Jwks!Check(c)
    PROVE  keyCall'[c].phase # "fetch" /\ (keyCall'[c].phase \in {"accepted", "refused"} => down')
<1>1. PICK p : p = IF tryAge < MinRefresh THEN IF keysAge = tryAge THEN "look" ELSE Jwks!AfterError(c)
                   ELSE "due"
  OBVIOUS
<1>2. p \in {"look", "due", "accepted", "refused"} /\ (p \in {"accepted", "refused"} => keysAge # tryAge)
  BY <1>1 DEF Jwks!AfterError
<1>3. Jwks!Goto(c, p) /\ down' = down
  BY <1>1 DEF Jwks!Check, Jwks!TooEarly
<1>4. keyCall'[c].phase = p
  BY <1>2, <1>3, PhaseStep, KeyCallStep DEF JwksPhases
<1>5. \A d \in Requests : ~Jwks!Fetching(d)
  BY DEF Jwks!Check, Jwks!Fetching, JwksInv, HolderInv
<1>6. keysAge # tryAge => down
  BY <1>5 DEF JwksInv, TriedInv
<1> QED BY <1>2, <1>3, <1>4, <1>6

LEMMA FetchFailsAnswer ==
    ASSUME JwksInv, NEW c \in Requests, Jwks!FetchFails(c)
    PROVE  keyCall'[c].phase # "fetch" /\ down'
<1>1. PICK p, b : p = Jwks!AfterError(c) /\ b = {}
  OBVIOUS
<1>2. p # "fetch"
  BY <1>1 DEF Jwks!AfterError
<1>3. PICK r \in Jwks!Call : r = keyCall[c]
  BY DEF JwksInv, Jwks!TypeOK
<1>4. keyCall'[c] = [r EXCEPT !.phase = p, !.body = b] /\ down'
  BY <1>1, <1>3 DEF Jwks!FetchFails, JwksInv, Jwks!TypeOK
<1> QED BY <1>2, <1>4 DEF Jwks!Call

\* A key that is looked up after a refresh.
LEMMA LookAnswer ==
    ASSUME JwksInv, NEW c \in Requests, Jwks!Look(c)
    PROVE  /\ keyCall'[c].kid \in Kids /\ keysAge < MinRefresh
           /\ keyCall'[c].phase = IF keyCall'[c].kid \in keys THEN "accepted" ELSE "refused"
           /\ UNCHANGED <<gone, stayed>>
<1>1. PICK p : p = IF keyCall[c].kid \in keys THEN "accepted" ELSE "refused"
  OBVIOUS
<1>2. p \in JwksPhases /\ Jwks!Goto(c, p)
  BY <1>1 DEF JwksPhases, Jwks!Look
<1>3. keyCall'[c].phase = p /\ keyCall'[c].kid = keyCall[c].kid
  BY <1>2, PhaseStep, KeyCallStep
<1>4. keyCall[c].kid \in Kids
  BY DEF JwksInv, Jwks!TypeOK, Jwks!Call
<1> QED BY <1>1, <1>3, <1>4 DEF Jwks!Look, JwksInv, KeysInv, Jwks!idp

\* Unknown keys do not become requests to Keycloak: its endpoint is asked at most once
\* in minRefresh, however many requests come with however many unknown keys.
THEOREM FetchesAreApart == Jwks!Spec => FetchesApart
<1>1. ASSUME JwksInv, [Jwks!Next]_(Jwks!vars), NEW c \in Requests, Jwks!Answers(c, "fetch")
      PROVE  tryAge >= MinRefresh
  <2>1. keyCall'[c].phase = "fetch"
    BY <1>1 DEF Jwks!Answers
  <2>2. \/ \E k \in Kids : Jwks!Ask(c, k)
        \/ Jwks!Check(c) \/ Jwks!Fetch(c) \/ Jwks!FetchFails(c) \/ Jwks!Look(c)
    BY <1>1, JwksAnswer
  <2>3. Jwks!Fetch(c)
    BY <1>1, <2>1, <2>2, AskAnswer, CheckAnswer, FetchFailsAnswer, LookAnswer
  <2> QED BY <1>1, <2>3 DEF Jwks!Fetch, JwksInv, TriedInv
<1>2. JwksInv /\ [Jwks!Next]_(Jwks!vars)
      => \A c \in Requests : Jwks!Answers(c, "fetch") => tryAge >= MinRefresh
  BY <1>1
<1> QED BY <1>2, JwksInvariance, PTL DEF Jwks!Spec, FetchesApart, Jwks!FetchesApart

\* A key Keycloak has withdrawn is refused RefreshTTL later, by every request, unless
\* the last fetch failed.
THEOREM WithdrawnKeysExpire == Jwks!Spec => WithdrawnKeyExpires
<1>1. ASSUME JwksInv, [Jwks!Next]_(Jwks!vars), NEW c \in Requests, Jwks!Answers(c, "accepted")
      PROVE  gone[keyCall'[c].kid] < RefreshTTL \/ down'
  <2>1. keyCall'[c].phase = "accepted"
    BY <1>1 DEF Jwks!Answers
  <2>2. \/ \E k \in Kids : Jwks!Ask(c, k)
        \/ Jwks!Check(c) \/ Jwks!Fetch(c) \/ Jwks!FetchFails(c) \/ Jwks!Look(c)
    BY <1>1, JwksAnswer
  <2>3. ASSUME NEW k \in keys, k = keyCall'[c].kid, keysAge < RefreshTTL
        PROVE  gone[keyCall'[c].kid] < RefreshTTL
    <3>1. k \in Kids /\ gone[k] <= keysAge /\ gone[k] \in Nat /\ keysAge \in Nat
      BY <1>1, <2>3, AgesNat DEF JwksInv, Jwks!TypeOK, KeysInv, AsOf
    <3> QED BY <2>3, <3>1, JwksAssumption
  <2>4. CASE Jwks!Look(c)
    <3>1. keyCall'[c].kid \in keys /\ keysAge < MinRefresh
      BY <1>1, <2>1, <2>4, LookAnswer
    <3>2. keysAge < RefreshTTL
      BY <1>1, <3>1, AgesNat, JwksAssumption DEF JwksInv, Jwks!TypeOK
    <3> QED BY <2>3, <3>1, <3>2
  <2>5. ASSUME Jwks!Fetch(c) PROVE FALSE
    BY <1>1, <2>1, <2>5, PhaseStep, KeyCallStep DEF Jwks!Fetch, JwksPhases
  <2> QED BY <1>1, <2>1, <2>2, <2>3, <2>4, <2>5, AskAnswer, CheckAnswer, FetchFailsAnswer
<1>2. JwksInv /\ [Jwks!Next]_(Jwks!vars)
      => \A c \in Requests : Jwks!Answers(c, "accepted") => gone[keyCall'[c].kid] < RefreshTTL \/ down'
  BY <1>1
<1> QED BY <1>2, JwksInvariance, PTL DEF Jwks!Spec, WithdrawnKeyExpires, Jwks!WithdrawnKeyExpires

\* A key Keycloak has served for minRefresh is refused only while a failed fetch is the
\* last one.
THEOREM ServedKeysAreFound == Jwks!Spec => ServedKeyIsFound
<1>1. ASSUME JwksInv, [Jwks!Next]_(Jwks!vars), NEW c \in Requests, Jwks!Answers(c, "refused")
      PROVE  stayed[keyCall'[c].kid] < MinRefresh \/ down'
  <2>1. keyCall'[c].phase = "refused"
    BY <1>1 DEF Jwks!Answers
  <2>2. \/ \E k \in Kids : Jwks!Ask(c, k)
        \/ Jwks!Check(c) \/ Jwks!Fetch(c) \/ Jwks!FetchFails(c) \/ Jwks!Look(c)
    BY <1>1, JwksAnswer
  <2>3. CASE Jwks!Look(c)
    <3>1. PICK k \in Kids \ keys : k = keyCall'[c].kid /\ keysAge < MinRefresh
      BY <1>1, <2>1, <2>3, LookAnswer
    <3>2. stayed[k] <= keysAge /\ stayed[k] \in Nat /\ keysAge \in Nat
      BY <1>1, <3>1, AgesNat DEF JwksInv, Jwks!TypeOK, KeysInv, AsOf
    <3> QED BY <3>1, <3>2, JwksAssumption
  <2>4. ASSUME Jwks!Fetch(c) PROVE FALSE
    BY <1>1, <2>1, <2>4, PhaseStep, KeyCallStep DEF Jwks!Fetch, JwksPhases
  <2> QED BY <1>1, <2>1, <2>2, <2>3, <2>4, AskAnswer, CheckAnswer, FetchFailsAnswer
<1>2. JwksInv /\ [Jwks!Next]_(Jwks!vars)
      => \A c \in Requests : Jwks!Answers(c, "refused") => stayed[keyCall'[c].kid] < MinRefresh \/ down'
  BY <1>1
<1> QED BY <1>2, JwksInvariance, PTL DEF Jwks!Spec, ServedKeyIsFound, Jwks!ServedKeyIsFound
-----------------------------------------------------------------------------
(* SearchPages: the vectors of an answer.                                   *)

\* A request that is sure of its vectors has those of Redis, which change only when
\* there are none; so whatever was fused with a HyDE document was with that one.
SearchInv ==
    /\ Search!TypeOK
    /\ \A r \in Requests :
         /\ req[r].phase = "store" => req[r].own.held
         /\ req[r].sure => req[r].phase = "query" /\ vectors.held /\ req[r].own = vectors
         /\ req[r].phase = "query" /\ req[r].lists = "hyde" => req[r].own.hyde \in HydeDocs
    /\ \A source \in sources : source.lists = "hyde" => vectors.held /\ source.hyde \in vectors.hyde

\* The offset of a page.
LEMMA Offsets ==
    ASSUME NEW page \in Nat \ {0}
    PROVE  /\ (page - 1) * PerPage \in Nat /\ page * PerPage \in Nat
           /\ page * PerPage = (page - 1) * PerPage + PerPage
           /\ \A later \in Nat : page < later => page * PerPage <= (later - 1) * PerPage
<1>1. PerPage \in Nat /\ PerPage > 0
  BY SearchAssumption
<1>2. PICK n \in Nat : n = page - 1
  OBVIOUS
<1>3. n * PerPage \in Nat /\ (n + 1) * PerPage = n * PerPage + PerPage
  BY <1>1
<1>4. ASSUME NEW later \in Nat, page < later PROVE page * PerPage <= (later - 1) * PerPage
  <2>1. PICK k \in Nat : later - 1 = page + k
    BY <1>4
  <2>2. (page + k) * PerPage = page * PerPage + k * PerPage /\ k * PerPage \in Nat /\ page * PerPage \in Nat
    BY <1>1
  <2> QED BY <2>1, <2>2
<1> QED BY <1>1, <1>2, <1>3, <1>4

\* No item is on two pages of a list.
LEMMA PagesApart ==
    ASSUME NEW list, OrderOfItems(list), NEW early \in Nat \ {0}, NEW later \in Nat \ {0}, early < later
    PROVE  Search!PageOf(list, early) \intersect Search!PageOf(list, later) = {}
<1>1. early * PerPage <= (later - 1) * PerPage /\ early * PerPage \in Nat /\ (later - 1) * PerPage \in Nat
  BY Offsets
<1>2. DOMAIN list = 1 .. Len(list) /\ \A m, n \in 1 .. Len(list) : list[m] = list[n] => m = n
  BY DEF OrderOfItems
<1> SUFFICES ASSUME NEW m \in 1 .. Len(list), NEW n \in 1 .. Len(list), list[m] = list[n],
                    m <= early * PerPage, (later - 1) * PerPage < n
             PROVE  FALSE
  BY <1>2 DEF Search!PageOf
<1>3. m = n /\ m \in Nat
  BY <1>2 DEF OrderOfItems
<1> QED BY <1>1, <1>3

\* A page before the end has per_page items.
LEMMA FullPage ==
    ASSUME NEW list, OrderOfItems(list), NEW page \in Nat \ {0}, page * PerPage <= Len(list)
    PROVE  Cardinality(Search!PageOf(list, page)) = PerPage
<1>1. PICK lo \in Nat : lo = (page - 1) * PerPage
  BY Offsets
<1>2. PICK hi \in Nat : hi = page * PerPage /\ hi = lo + PerPage
  BY <1>1, Offsets
<1>3. PerPage \in Nat /\ PerPage > 0
  BY SearchAssumption
<1>4. Len(list) \in Nat /\ DOMAIN list = 1 .. Len(list) /\ hi <= Len(list)
      /\ \A m, n \in 1 .. Len(list) : list[m] = list[n] => m = n
  BY <1>2 DEF OrderOfItems
<1> DEFINE places == (lo + 1) .. hi
           listed   == {list[n] : n \in places}
           f      == [n \in places |-> list[n]]
<1>5. Search!PageOf(list, page) = listed
  <2>1. {k \in DOMAIN list : (page - 1) * PerPage < k /\ k <= page * PerPage} = places
    BY <1>1, <1>2, <1>4
  <2> QED BY <2>1 DEF Search!PageOf
<1>6. f \in Bijection(places, listed)
  BY <1>4 DEF Bijection, Injection, Surjection, IsInjective
<1>7. ExistsBijection(places, listed)
  BY <1>6 DEF ExistsBijection
<1>8. IsFiniteSet(places) /\ Cardinality(places) = PerPage
  BY <1>2, <1>3, FS_Interval
<1> HIDE DEF places, listed
<1> QED BY <1>5, <1>7, <1>8, FS_Bijection

\* Every page of a list brings its total, also one beyond the end.
LEMMA TotalOfList ==
    ASSUME NEW list, OrderOfItems(list), NEW page \in Nat \ {0}
    PROVE  Search!Total(list, page) = Len(list)
<1>1. Len(list) \in Nat /\ DOMAIN list = 1 .. Len(list)
  BY DEF OrderOfItems
<1>2. CASE page = 1 /\ Len(list) # 0
  <2>1. (page - 1) * PerPage = 0 /\ page * PerPage = PerPage /\ PerPage >= 1
    BY <1>2, SearchAssumption
  <2>2. list[1] \in Search!PageOf(list, page)
    BY <1>1, <1>2, <2>1 DEF Search!PageOf
  <2> QED BY <2>2 DEF Search!Total
<1> QED BY <1>1, <1>2 DEF Search!Total

\* Scores are natural numbers.
LEMMA ShareIsNat ==
    ASSUME NEW list \in Seq(Items), NEW i
    PROVE  Search!Share(Search!Top(list, ListLimit), i) \in Nat
<1> DEFINE top == Search!Top(list, ListLimit)
           n   == IF Len(list) < ListLimit THEN Len(list) ELSE ListLimit
<1>1. n \in Nat /\ n <= Len(list) /\ Len(list) \in Nat
  BY SearchAssumption
<1>2. \A k \in 1 .. n : list[k] \in Items
  BY <1>1
<1>3. top \in Seq(Items)
  <2>1. top = SubSeq(list, 1, n)
    BY DEF Search!Top
  <2> HIDE DEF top, n
  <2> QED BY <1>1, <1>2, <2>1, SubSeqProperties
<1> HIDE DEF top
<1>4. ASSUME \E k \in DOMAIN top : top[k] = i
      PROVE  Denominator \div (60 + CHOOSE k \in DOMAIN top : top[k] = i) \in Nat
  <2>1. PICK m \in Nat : m = CHOOSE k \in DOMAIN top : top[k] = i
    <3>1. DOMAIN top \subseteq Nat
      BY <1>3
    <3> QED BY <1>4, <3>1
  <2> QED BY <2>1, SearchAssumption
<1> QED BY <1>4 DEF Search!Share, top

\* What a search ranks, whatever it fused: items, each once.
LEMMA RankedIsOrder ==
    ASSUME NEW source \in Search!Source
    PROVE  OrderOfItems(Search!Ranked(source))
<1> DEFINE found  == Search!Found(source)
           better == Search!Better(source)
           c      == Cardinality(found)
           list   == InOrder(found, better)
<1>1. CASE source.lists = "fts"
  BY <1>1, SearchAssumption DEF Search!Ranked
<1>2. CASE source.lists # "fts"
  <2>1. PICK score \in [Items -> Nat] : \A i \in Items : score[i] = Search!RRF(source, i)
    <3>1. source.hyde \in Seq(Items) /\ FtsOrder \in Seq(Items) /\ source.sem \in Seq(Items)
      <4>1. FtsOrder \in Seq(Items) /\ SemOrders \subseteq Seq(Items) /\ UNION HydeDocs \subseteq Seq(Items)
        BY SearchAssumption DEF OrdersOfItems, OrderOfItems
      <4>2. source.sem \in SemOrders \union {<<>>} /\ source.hyde \in (UNION HydeDocs) \union {<<>>}
        BY DEF Search!Source
      <4>3. <<>> \in Seq(Items)
        OBVIOUS
      <4> QED BY <4>1, <4>2, <4>3
    <3>2. ASSUME NEW i \in Items PROVE Search!RRF(source, i) \in Nat
      <4>1. /\ Search!Share(Search!Top(FtsOrder, ListLimit), i) \in Nat
            /\ Search!Share(Search!Top(source.sem, ListLimit), i) \in Nat
            /\ Search!Share(Search!Top(source.hyde, ListLimit), i) \in Nat
        BY <3>1, ShareIsNat
      <4> QED BY <4>1 DEF Search!RRF
    <3>3. [i \in Items |-> Search!RRF(source, i)] \in [Items -> Nat]
      BY <3>2
    <3> QED BY <3>3
  <2>2. found \subseteq Items /\ IsFiniteSet(found) /\ c \in Nat
    <3>1. found \subseteq Items
      BY DEF Search!Found
    <3> QED BY <3>1, SearchAssumption, FS_Subset, FS_CardinalityType
  <2>3. \A i, j \in Items : <<i, j>> \in better <=> score[i] > score[j] \/ (score[i] = score[j] /\ i < j)
    BY <2>1 DEF Search!Better
  <2> HIDE DEF better
  <2>4. Ordering(found, better)
    <3>1. \A i \in found : i \in Items /\ i \in Nat /\ score[i] \in Nat
      BY <2>1, <2>2, SearchAssumption
    <3> HIDE DEF found
    <3>2. \A i \in found : <<i, i>> \notin better
      BY <2>3, <3>1
    <3>3. \A i, j \in found : i # j => <<i, j>> \in better \/ <<j, i>> \in better
      BY <2>3, <3>1
    <3>4. \A i, j, k \in found : <<i, j>> \in better /\ <<j, k>> \in better => <<i, k>> \in better
      BY <2>3, <3>1
    <3> QED BY <3>2, <3>3, <3>4 DEF Ordering
  <2>5. /\ list \in [1 .. c -> found]
        /\ \A m, n \in 1 .. c : list[m] = list[n] => m = n
    <3> HIDE DEF found
    <3> QED BY <2>2, <2>4, InOrderIsBijection
  <2>6. Search!Ranked(source) = list
    BY <1>2 DEF Search!Ranked, Search!Fused, Search!InOrder, InOrder, Search!Rank, Rank,
                Search!Cardinality, Cardinality, better
  <2> HIDE DEF list, found, c
  <2>7. list \in Seq(Items) /\ Len(list) = c
    <3>1. list \in [1 .. c -> Items]
      BY <2>2, <2>5
    <3> QED BY <2>2, <3>1
  <2> QED BY <2>5, <2>6, <2>7 DEF OrderOfItems
<1> QED BY <1>1, <1>2

-----------------------------------------------------------------------------
\* A vector that carries a HyDE document carries one of them.
LEMMA VectorFields ==
    ASSUME NEW v \in Search!Vectors
    PROVE  v.held \in BOOLEAN /\ (v.hyde \in HydeDocs \/ v.hyde = {})
<1>1. CASE v = Search!NoVectors
  BY <1>1 DEF Search!NoVectors
<1>2. CASE v \in [hyde : HydeDocs \union {{}}, held : {TRUE}]
  BY <1>2
<1> QED BY <1>1, <1>2 DEF Search!Vectors

LEMMA NoSearchFits ==
    Search!NoSearch \in Search!Request /\ Search!NoSearch.phase = "idle" /\ ~Search!NoSearch.sure
BY DEF Search!NoSearch, Search!Request, Search!Vectors

\* The request that has its vectors.
LEMMA QueryFits ==
    ASSUME Search!TypeOK, NEW r \in Requests, NEW v \in Search!Vectors, NEW sure \in BOOLEAN
    PROVE  /\ Search!Query(r, v, sure) \in Search!Request
           /\ Search!Query(r, v, sure).phase = "query"
           /\ Search!Query(r, v, sure).own = v
           /\ Search!Query(r, v, sure).sure = sure
           /\ Search!Query(r, v, sure).lists = "hyde" => v.hyde \in HydeDocs
<1>1. req[r] \in Search!Request
  BY DEF Search!TypeOK
<1> QED BY <1>1, VectorFields DEF Search!Query, Search!Request

\* A step of one request: Redis keeps its vectors, or gets the first ones.
LEMMA SearchGoes ==
    ASSUME SearchInv, NEW r \in Requests, NEW record \in Search!Request, Search!Goto(r, record),
           vectors' \in Search!Vectors, vectors.held => vectors' = vectors, sources' = sources,
           record.phase = "store" => record.own.held,
           record.sure => record.phase = "query" /\ vectors'.held /\ record.own = vectors',
           record.phase = "query" /\ record.lists = "hyde" => record.own.hyde \in HydeDocs
    PROVE  SearchInv'
<1>1. req \in [Requests -> Search!Request] /\ sources \subseteq Search!Source
  BY DEF SearchInv, Search!TypeOK
<1>2. req' = [req EXCEPT ![r] = record]
  BY DEF Search!Goto
<1>3. req' \in [Requests -> Search!Request]
  BY <1>1, <1>2
<1>4. Search!TypeOK'
  BY <1>1, <1>3 DEF Search!TypeOK
<1>5. ASSUME NEW s \in Requests
      PROVE  /\ req'[s].phase = "store" => req'[s].own.held
             /\ req'[s].sure => req'[s].phase = "query" /\ vectors'.held /\ req'[s].own = vectors'
             /\ req'[s].phase = "query" /\ req'[s].lists = "hyde" => req'[s].own.hyde \in HydeDocs
  <2>1. CASE s = r
    <3>1. req'[s] = record
      BY <1>1, <1>2, <2>1
    <3> QED BY <3>1
  <2>2. CASE s # r
    <3>1. req'[s] = req[s]
      BY <1>1, <1>2, <2>2
    <3> QED BY <3>1 DEF SearchInv
  <2> QED BY <2>1, <2>2
<1>6. \A source \in sources : source.lists = "hyde" => vectors'.held /\ source.hyde \in vectors'.hyde
  BY DEF SearchInv
<1> QED BY <1>4, <1>5, <1>6 DEF SearchInv

LEMMA SearchInit == Search!Init => SearchInv
<1> SUFFICES ASSUME Search!Init PROVE SearchInv
  OBVIOUS
<1>1. req = [r \in Requests |-> Search!NoSearch] /\ sources = {} /\ vectors = Search!NoVectors
  BY DEF Search!Init
<1>2. Search!NoVectors \in Search!Vectors
  BY DEF Search!Vectors
<1>3. Search!TypeOK
  BY <1>1, <1>2, NoSearchFits DEF Search!TypeOK
<1> QED BY <1>1, <1>3, NoSearchFits DEF SearchInv

LEMMA SearchStarts ==
    ASSUME SearchInv, NEW r \in Requests, Search!Start(r) \/ Search!ReadVectors(r) \/ Search!Generate(r)
    PROVE  SearchInv'
<1>1. req[r] \in Search!Request /\ vectors \in Search!Vectors
  BY DEF SearchInv, Search!TypeOK
<1>2. req[r].phase # "query" => ~req[r].sure
  BY DEF SearchInv
<1>3. CASE Search!Start(r)
  <2>1. PICK record : record = [Search!NoSearch EXCEPT !.phase = "vectors"]
    OBVIOUS
  <2>2. record \in Search!Request /\ record.phase = "vectors" /\ ~record.sure
    BY <2>1, NoSearchFits DEF Search!Request, Search!NoSearch
  <2>3. Search!Goto(r, record) /\ vectors' = vectors /\ sources' = sources
    BY <1>3, <2>1 DEF Search!Start
  <2> QED BY <1>1, <2>2, <2>3, SearchGoes
<1>4. CASE Search!ReadVectors(r)
  <2>1. vectors' = vectors /\ sources' = sources
    BY <1>4 DEF Search!ReadVectors
  <2>2. CASE vectors.held /\ Search!Goto(r, Search!Query(r, vectors, TRUE))
    <3>1. PICK record : record = Search!Query(r, vectors, TRUE)
      OBVIOUS
    <3>2. /\ record \in Search!Request /\ record.phase = "query" /\ record.own = vectors
          /\ record.lists = "hyde" => vectors.hyde \in HydeDocs
      BY <1>1, <3>1, QueryFits DEF SearchInv
    <3>3. Search!Goto(r, record)
      BY <2>2, <3>1
    <3> QED BY <1>1, <2>1, <2>2, <3>2, <3>3, SearchGoes
  <2>3. CASE Search!Goto(r, [req[r] EXCEPT !.phase = "generate"])
    <3>1. PICK record : record = [req[r] EXCEPT !.phase = "generate"]
      OBVIOUS
    <3>2. record \in Search!Request /\ record.phase = "generate" /\ ~record.sure
      BY <1>1, <1>2, <1>4, <3>1 DEF Search!Request, Search!ReadVectors
    <3>3. Search!Goto(r, record)
      BY <2>3, <3>1
    <3> QED BY <1>1, <2>1, <3>2, <3>3, SearchGoes
  <2> QED BY <1>4, <2>2, <2>3 DEF Search!ReadVectors
<1>5. CASE Search!Generate(r)
  <2>1. vectors' = vectors /\ sources' = sources
    BY <1>5 DEF Search!Generate
  <2>2. CASE Search!Goto(r, [req[r] EXCEPT !.phase = "query", !.lists = "fts"])
    <3>1. PICK record : record = [req[r] EXCEPT !.phase = "query", !.lists = "fts"]
      OBVIOUS
    <3>2. record \in Search!Request /\ record.phase = "query" /\ record.lists = "fts" /\ ~record.sure
      BY <1>1, <1>2, <1>5, <3>1 DEF Search!Request, Search!Generate
    <3>3. Search!Goto(r, record)
      BY <2>2, <3>1
    <3> QED BY <1>1, <2>1, <3>2, <3>3, SearchGoes
  <2>3. ASSUME NEW hyde \in HydeDocs \union {{}},
               Search!Goto(r, [req[r] EXCEPT !.phase = "store", !.own = [hyde |-> hyde, held |-> TRUE]])
        PROVE  SearchInv'
    <3>1. PICK record : record = [req[r] EXCEPT !.phase = "store", !.own = [hyde |-> hyde, held |-> TRUE]]
      OBVIOUS
    <3>2. [hyde |-> hyde, held |-> TRUE] \in Search!Vectors
      BY DEF Search!Vectors
    <3>3. record \in Search!Request /\ record.phase = "store" /\ record.own.held /\ ~record.sure
      BY <1>1, <1>2, <1>5, <3>1, <3>2 DEF Search!Request, Search!Generate
    <3>4. Search!Goto(r, record)
      BY <2>3, <3>1
    <3> QED BY <1>1, <2>1, <3>3, <3>4, SearchGoes
  <2> QED BY <1>5, <2>2, <2>3 DEF Search!Generate
<1> QED BY <1>3, <1>4, <1>5

LEMMA SearchStores ==
    ASSUME SearchInv, NEW r \in Requests, Search!Store(r) \/ Search!Reread(r)
    PROVE  SearchInv'
<1>1. req[r] \in Search!Request /\ req[r].own \in Search!Vectors /\ vectors \in Search!Vectors
  BY DEF SearchInv, Search!TypeOK, Search!Request
<1>0. Search!TypeOK
  BY DEF SearchInv
<1>2. sources' = sources
  BY DEF Search!Store, Search!Reread
<1>3. PICK unsure : unsure = Search!Query(r, req[r].own, FALSE)
  OBVIOUS
<1>4. /\ unsure \in Search!Request /\ unsure.phase = "query" /\ ~unsure.sure
      /\ unsure.lists = "hyde" => unsure.own.hyde \in HydeDocs
  BY <1>0, <1>1, <1>3, QueryFits
<1>5. ASSUME Search!Goto(r, unsure), vectors' \in Search!Vectors, vectors.held => vectors' = vectors
      PROVE  SearchInv'
  BY <1>2, <1>4, <1>5, SearchGoes
<1>6. CASE Search!Store(r)
  <2>1. req[r].own.held /\ ~req[r].sure
    BY <1>6 DEF SearchInv, Search!Store
  <2>2. CASE Search!Goto(r, unsure) /\ vectors' \in {vectors, IF vectors.held THEN vectors ELSE req[r].own}
    BY <1>1, <1>5, <2>2
  <2>3. CASE /\ Search!Goto(r, Search!AfterStore(r))
             /\ vectors' = IF vectors.held THEN vectors ELSE req[r].own
    <3>1. CASE vectors.held
      <4>1. PICK record : record = [req[r] EXCEPT !.phase = "reread"]
        OBVIOUS
      <4>2. record \in Search!Request /\ record.phase = "reread" /\ ~record.sure
        BY <1>1, <2>1, <4>1 DEF Search!Request
      <4>3. Search!Goto(r, record) /\ vectors' = vectors
        BY <2>3, <3>1, <4>1 DEF Search!AfterStore
      <4> QED BY <1>1, <1>2, <4>2, <4>3, SearchGoes
    <3>2. CASE ~vectors.held
      <4>1. PICK record : record = Search!Query(r, req[r].own, TRUE)
        OBVIOUS
      <4>2. /\ record \in Search!Request /\ record.phase = "query" /\ record.own = req[r].own
            /\ record.lists = "hyde" => record.own.hyde \in HydeDocs
        BY <1>0, <1>1, <4>1, QueryFits
      <4>3. Search!Goto(r, record) /\ vectors' = req[r].own
        BY <2>3, <3>2, <4>1 DEF Search!AfterStore
      <4> QED BY <1>1, <1>2, <2>1, <3>2, <4>2, <4>3, SearchGoes
    <3> QED BY <3>1, <3>2
  <2> QED BY <1>3, <1>6, <2>2, <2>3 DEF Search!Store
<1>7. CASE Search!Reread(r)
  <2>1. vectors' = vectors
    BY <1>7 DEF Search!Reread
  <2>2. CASE vectors.held /\ Search!Goto(r, Search!Query(r, vectors, TRUE))
    <3>1. PICK record : record = Search!Query(r, vectors, TRUE)
      OBVIOUS
    <3>2. /\ record \in Search!Request /\ record.phase = "query" /\ record.own = vectors
          /\ record.lists = "hyde" => record.own.hyde \in HydeDocs
      BY <1>0, <1>1, <3>1, QueryFits
    <3>3. Search!Goto(r, record)
      BY <2>2, <3>1
    <3> QED BY <1>1, <1>2, <2>1, <2>2, <3>2, <3>3, SearchGoes
  <2>3. CASE Search!Goto(r, unsure)
    BY <1>1, <1>5, <2>1, <2>3
  <2> QED BY <1>3, <1>7, <2>2, <2>3 DEF Search!Reread
<1> QED BY <1>6, <1>7

\* An answer counts as fused with the vectors of Redis only if those are still there.
LEMMA SearchAnswers ==
    ASSUME SearchInv, NEW r \in Requests, Search!Answered(r)
    PROVE  SearchInv'
<1>1. req[r] \in Search!Request /\ vectors \in Search!Vectors /\ sources \subseteq Search!Source
  BY DEF SearchInv, Search!TypeOK
<1>2. Search!Goto(r, Search!NoSearch) /\ vectors' = vectors /\ req[r].phase = "query"
  BY DEF Search!Answered
<1>3. CASE sources' = sources
  BY <1>1, <1>2, <1>3, NoSearchFits, SearchGoes
<1>4. CASE sources' # sources
  <2>1. PICK source \in Search!Answers(req[r].lists, req[r].own.hyde) :
             sources' = sources \union {source} /\ (req[r].lists = "hyde" => req[r].sure)
    BY <1>4 DEF Search!Answered
  <2>2. /\ source \in Search!Source /\ source.lists = req[r].lists
        /\ source.lists = "hyde" => source.hyde \in req[r].own.hyde
    BY <2>1 DEF Search!Answers
  <2>3. source.lists = "hyde" => vectors.held /\ source.hyde \in vectors.hyde
    BY <1>1, <2>1, <2>2 DEF SearchInv
  <2>5. sources' \subseteq Search!Source
        /\ \A s \in sources' : s.lists = "hyde" => vectors'.held /\ s.hyde \in vectors'.hyde
    BY <1>1, <1>2, <2>1, <2>2, <2>3 DEF SearchInv
  <2>6. req \in [Requests -> Search!Request] /\ req' = [req EXCEPT ![r] = Search!NoSearch]
    BY <1>2 DEF SearchInv, Search!TypeOK, Search!Goto
  <2>7. req' \in [Requests -> Search!Request] /\ \A s \in Requests : req'[s] \in {req[s], Search!NoSearch}
    BY <2>6, NoSearchFits
  <2>8. Search!TypeOK'
    BY <1>1, <1>2, <2>5, <2>7 DEF Search!TypeOK
  <2>9. ASSUME NEW s \in Requests
        PROVE  /\ req'[s].phase = "store" => req'[s].own.held
               /\ req'[s].sure => req'[s].phase = "query" /\ vectors'.held /\ req'[s].own = vectors'
               /\ req'[s].phase = "query" /\ req'[s].lists = "hyde" => req'[s].own.hyde \in HydeDocs
    <3>1. CASE req'[s] = Search!NoSearch
      BY <3>1, NoSearchFits
    <3>2. CASE req'[s] = req[s]
      BY <1>2, <3>2 DEF SearchInv
    <3> QED BY <2>7, <3>1, <3>2
  <2> QED BY <2>5, <2>8, <2>9 DEF SearchInv
<1> QED BY <1>3, <1>4

LEMMA SearchFallsBack ==
    ASSUME SearchInv, NEW r \in Requests, Search!QueryFails(r)
    PROVE  SearchInv'
<1>1. req[r] \in Search!Request /\ vectors \in Search!Vectors
  BY DEF SearchInv, Search!TypeOK
<1>2. vectors' = vectors /\ sources' = sources /\ req[r].phase = "query"
  BY DEF Search!QueryFails
<1>3. req[r].sure => vectors.held /\ req[r].own = vectors
  BY DEF SearchInv
<1>4. ASSUME NEW lists \in {"hybrid", "fts"}, Search!Goto(r, [req[r] EXCEPT !.lists = lists])
      PROVE  SearchInv'
  <2>1. PICK record : record = [req[r] EXCEPT !.lists = lists]
    OBVIOUS
  <2>2. /\ record \in Search!Request /\ record.phase = "query" /\ record.lists # "hyde"
        /\ record.sure => vectors.held /\ record.own = vectors
    BY <1>1, <1>2, <1>3, <2>1 DEF Search!Request
  <2>3. Search!Goto(r, record)
    BY <1>4, <2>1
  <2> QED BY <1>1, <1>2, <2>2, <2>3, SearchGoes
<1>5. CASE Search!Goto(r, Search!NoSearch)
  BY <1>1, <1>2, <1>5, NoSearchFits, SearchGoes
<1> QED BY <1>4, <1>5 DEF Search!QueryFails

\* When the vectors expire, nobody is sure and nothing fused with them is compared.
LEMMA SearchExpires ==
    ASSUME SearchInv, Search!VectorsExpire
    PROVE  SearchInv'
<1>1. /\ vectors' = Search!NoVectors
      /\ req' = [r \in Requests |-> [req[r] EXCEPT !.sure = req[r].sure /\ req[r].phase # "query"]]
      /\ sources' = {source \in sources : source.lists # "hyde"}
  BY DEF Search!VectorsExpire
<1>2. ASSUME NEW r \in Requests
      PROVE  /\ req'[r] \in Search!Request /\ ~req'[r].sure
             /\ req'[r].phase = req[r].phase /\ req'[r].own = req[r].own /\ req'[r].lists = req[r].lists
  <2>1. req[r] \in Search!Request /\ (req[r].sure => req[r].phase = "query")
    BY DEF SearchInv, Search!TypeOK
  <2>2. req'[r] = [req[r] EXCEPT !.sure = FALSE]
    <3>1. req'[r] = [req[r] EXCEPT !.sure = req[r].sure /\ req[r].phase # "query"]
      BY <1>1
    <3>2. (req[r].sure /\ req[r].phase # "query") = FALSE
      BY <2>1
    <3> QED BY <3>1, <3>2
  <2> QED BY <2>1, <2>2 DEF Search!Request
<1>3. req' \in [Requests -> Search!Request]
  BY <1>1, <1>2
<1>4. vectors' \in Search!Vectors
  BY <1>1 DEF Search!Vectors
<1>5. sources' \subseteq Search!Source /\ \A source \in sources' : source.lists # "hyde"
  BY <1>1 DEF SearchInv, Search!TypeOK
<1>6. Search!TypeOK'
  BY <1>3, <1>4, <1>5 DEF Search!TypeOK
<1> QED BY <1>2, <1>5, <1>6 DEF SearchInv

LEMMA SearchNext == SearchInv /\ [Search!Next]_(Search!vars) => SearchInv'
<1>1. ASSUME SearchInv, UNCHANGED Search!vars PROVE SearchInv'
  BY <1>1 DEF SearchInv, Search!TypeOK, Search!vars
<1> QED BY <1>1, SearchStarts, SearchStores, SearchAnswers, SearchFallsBack, SearchExpires DEF Search!Next

LEMMA SearchInvariance == Search!Spec => []SearchInv
BY SearchInit, SearchNext, PTL DEF Search!Spec

\* What a query leaves of a page are rows of it.
LEMMA ResponseFields ==
    ASSUME NEW source, NEW page, NEW a \in Search!Responses(source, page)
    PROVE  /\ a.lists = source.lists /\ a.page = page
           /\ a.rows = Search!PageOf(Search!Ranked(source), page) /\ a.items \subseteq a.rows
           /\ a.total = Search!Total(Search!Ranked(source), page)
<1>1. PICK omitted : a = Search!Response(source, page, omitted)
  BY DEF Search!Responses
<1> QED BY <1>1 DEF Search!Response

\* What is compared was fused with the same vectors, so any two pages of the same lists
\* fit together, whatever the catalogue, the limits and the number of replicas, as long
\* as no two items are equally far from a vector.
THEOREM PagesFitTogether == Search!Spec => []PagesFit
<1>1. ASSUME SearchInv PROVE PagesFit
  <2>1. ASSUME NEW source \in sources, NEW other \in sources, source.lists = other.lists,
               Search!NoTies(source.lists)
        PROVE  source = other
    <3>1. source \in Search!Source /\ other \in Search!Source
      BY <1>1 DEF SearchInv, Search!TypeOK
    <3>2. ASSUME NEW s \in Search!Source
          PROVE  /\ s = [lists |-> s.lists, sem |-> s.sem, hyde |-> s.hyde]
                 /\ s.lists \in {"fts", "hybrid", "hyde"}
                 /\ IF s.lists = "fts" THEN s.sem = <<>> ELSE s.sem \in SemOrders
                 /\ s.lists = "hyde" \/ s.hyde = <<>>
      <4>1. CASE s \in [lists : {"fts"}, sem : {<<>>}, hyde : {<<>>}]
        BY <4>1
      <4>2. CASE s \in [lists : {"hybrid"}, sem : SemOrders, hyde : {<<>>}]
        <5>1. s.lists = "hybrid" /\ s.sem \in SemOrders /\ s.hyde = <<>>
          BY <4>2
        <5>2. s = [lists |-> s.lists, sem |-> s.sem, hyde |-> s.hyde]
          BY <4>2
        <5> QED BY <5>1, <5>2
      <4>3. CASE s \in [lists : {"hyde"}, sem : SemOrders, hyde : UNION HydeDocs]
        <5>1. s.lists = "hyde" /\ s.sem \in SemOrders
          BY <4>3
        <5>2. s = [lists |-> s.lists, sem |-> s.sem, hyde |-> s.hyde]
          BY <4>3
        <5> QED BY <5>1, <5>2
      <4> QED BY <4>1, <4>2, <4>3 DEF Search!Source
    <3>3. source.sem = other.sem
      <4>1. CASE source.lists = "fts"
        BY <2>1, <3>1, <3>2, <4>1
      <4>2. CASE source.lists # "fts"
        <5>1. source.sem \in SemOrders /\ other.sem \in SemOrders
          BY <2>1, <3>1, <3>2, <4>2
        <5> QED BY <2>1, <4>2, <5>1 DEF Search!NoTies, Search!Tied, Tied
      <4> QED BY <4>1, <4>2
    <3>4. source.hyde = other.hyde
      <4>1. source.lists = "hyde" => source.hyde \in vectors.hyde /\ other.hyde \in vectors.hyde
        BY <1>1, <2>1 DEF SearchInv
      <4> QED BY <2>1, <3>1, <3>2, <4>1 DEF Search!NoTies, Search!Tied, Tied
    <3> QED BY <2>1, <3>1, <3>2, <3>3, <3>4
  <2>2. ASSUME NEW source \in sources, NEW other \in sources,
               NEW page \in 1 .. MaxPage, NEW another \in 1 .. MaxPage,
               NEW a \in Search!Responses(source, page), NEW b \in Search!Responses(other, another),
               a.lists = b.lists, Search!NoTies(a.lists)
        PROVE  Search!Fit(a, b)
    <3>1. source = other /\ source \in Search!Source
      BY <1>1, <2>1, <2>2, ResponseFields DEF SearchInv, Search!TypeOK
    <3>2. PICK list : list = Search!Ranked(source) /\ OrderOfItems(list)
      BY <3>1, RankedIsOrder
    <3>3. page \in Nat \ {0} /\ another \in Nat \ {0}
      BY SearchAssumption
    <3>4. Search!Total(list, page) = Len(list) /\ Search!Total(list, another) = Len(list)
      BY <3>2, <3>3, TotalOfList
    <3>5. page # another => Search!PageOf(list, page) \intersect Search!PageOf(list, another) = {}
      <4>1. page < another \/ another < page \/ page = another
        BY <3>3
      <4> QED BY <3>2, <3>3, <4>1, PagesApart
    <3>6. page * PerPage <= Len(list) => Cardinality(Search!PageOf(list, page)) = PerPage
      BY <3>2, <3>3, FullPage
    <3>7. /\ a.page = page /\ a.total = Len(list)
          /\ a.rows = Search!PageOf(list, page) /\ a.items \subseteq a.rows
          /\ b.page = another /\ b.total = Len(list)
          /\ b.rows = Search!PageOf(list, another) /\ b.items \subseteq b.rows
      BY <3>1, <3>2, <3>4, ResponseFields
    <3> QED BY <3>5, <3>6, <3>7 DEF Search!Fit, Search!Cardinality, Cardinality
  <2> QED BY <2>2 DEF PagesFit, Search!PagesFit, Search!Shown
<1> QED BY <1>1, SearchInvariance, PTL

-----------------------------------------------------------------------------
(* The composition.                                                         *)

\* Each part of a behaviour of the API is one of its component, so what is proved of
\* the component holds of the API.
THEOREM ApiParts == MCSpec => Spec /\ Jwks!Spec /\ Tokens!Spec /\ Search!Spec
<1>1. MCInit => Init /\ Jwks!Init /\ Tokens!Init /\ Search!Init
  BY DEF MCInit
<1>2. UNCHANGED jwksVars => UNCHANGED Jwks!vars
  BY DEF jwksVars, Jwks!vars, Jwks!cache, Jwks!idp
<1>3. UNCHANGED tokenVars => UNCHANGED Tokens!vars
  BY DEF tokenVars, Tokens!vars
<1>4. UNCHANGED searchVars => UNCHANGED Search!vars
  BY DEF searchVars, Search!vars
<1>5. [MCNext]_mcVars
      => [Next]_vars /\ [Jwks!Next]_(Jwks!vars) /\ [Tokens!Next]_(Tokens!vars) /\ [Search!Next]_(Search!vars)
  <2>1. UNCHANGED mcVars => UNCHANGED <<vars, jwksVars, tokenVars, searchVars>>
    BY DEF mcVars
  <2> QED BY <1>2, <1>3, <1>4, <2>1 DEF MCNext
<1> QED BY <1>1, <1>5, PTL DEF MCSpec, Spec, Jwks!Spec, Tokens!Spec, Search!Spec
===============================================================================
