-------------------------- MODULE KeycloakTokenManager -------------------------
(***************************************************************************)
(* The service-account token KeycloakTokenManager keeps for app-rmi and     *)
(* app-go-api.  Users that find no valid token fetch one each, at the     *)
(* same time; whoever stores last wins, and everybody returns what is       *)
(* stored then.  Times are what remains, in seconds.                        *)
(***************************************************************************)
EXTENDS TokenConfig

VARIABLES
    token, \* m.token: what the answer said of it, what remains of its life, its age here
    valid, \* m.expiresAt - now, not below 0
    call   \* GetToken of each caller

vars == <<token, valid, call>>

\* stated: expires_in was the token's life; assumed: it was missing or not positive, which
\* says nothing of the life; empty: there is no access_token.
Kind  == {"empty", "stated", "assumed"}
Token == [kind : Kind, left : Nat, age : Nat]

\* An answer on its way: life is what its token was given at Keycloak.
Call == [phase : {"idle", "request", "answer", "stored", "done", "failed"},
         waited : Nat, asked : BOOLEAN, life : Nat, got : Token]

NoToken == [kind |-> "empty", left |-> 0, age |-> 0]
NoCall  == [phase |-> "idle", waited |-> 0, asked |-> FALSE, life |-> 0, got |-> NoToken]

TypeOK ==
    /\ token \in Token
    /\ valid \in Nat
    /\ call \in [Users -> Call]

Init ==
    /\ token = NoToken
    /\ valid = 0
    /\ call = [c \in Users |-> NoCall]

-----------------------------------------------------------------------------
NotBelow0(n) == IF n < 0 THEN 0 ELSE n

InFlight(c) == call[c].phase \in {"request", "answer"}

\* Only a request takes time, at most Timeout.
MayTick == \A c \in Users : call[c].phase # "stored" /\ (InFlight(c) => call[c].waited < Timeout)

\* A second passes; what was returned was used.  A dead token does not get deader, and
\* AssumedLife bounds the ages.
Tick ==
    /\ MayTick
    /\ token' = [token EXCEPT !.left = NotBelow0(@ - 1), !.age = IF @ < AssumedLife THEN @ + 1 ELSE @]
    /\ valid' = NotBelow0(valid - 1)
    /\ call' = [c \in Users |->
                  IF ~InFlight(c) THEN NoCall
                  ELSE [call[c] EXCEPT !.waited = @ + 1, !.got.left = NotBelow0(@ - 1)]]

Usable == token.kind # "empty" /\ valid > 0

\* The first read: a token that is valid is returned, otherwise one is requested.
GetToken(c) ==
    /\ call[c].phase = "idle"
    /\ call' = [call EXCEPT ![c] = IF Usable THEN [NoCall EXCEPT !.phase = "done", !.got = token]
                                   ELSE [NoCall EXCEPT !.phase = "request", !.asked = TRUE]]
    /\ UNCHANGED <<token, valid>>

\* Keycloak answers 200: with a token, whose life expires_in states or does not, or
\* without one.
Issue(c) ==
    /\ call[c].phase = "request"
    /\ \E life \in Lifetimes, kind \in Kind :
         call' = [call EXCEPT ![c].phase = "answer", ![c].life = life,
                              ![c].got = [kind |-> kind, left |-> life, age |-> 0]]
    /\ UNCHANGED <<token, valid>>

\* expires_in, or what is taken for it; it may be there without a token.
Expiries(answer) ==
    CASE answer.got.kind = "stated"  -> {answer.life}
      [] answer.got.kind = "assumed" -> {AssumedLife}
      [] OTHER                       -> {answer.life, AssumedLife}

\* Mutant of ValidFor: expires_in as it is.
ValidForLife(expiry) == expiry

\* expires_in without the margin, counted from the arrival of the answer.
ValidFor(expiry) == NotBelow0(expiry - Margin)

\* fetchToken stores the token, whatever was stored while it was on its way.
Store(c) ==
    /\ call[c].phase = "answer"
    /\ token' = call[c].got
    /\ \E expiry \in Expiries(call[c]) : valid' = ValidFor(expiry)
    /\ call' = [call EXCEPT ![c] = [NoCall EXCEPT !.phase = "stored", !.asked = TRUE]]

\* An error, or no answer in time.
Fail(c) ==
    /\ InFlight(c)
    /\ call' = [call EXCEPT ![c] = [NoCall EXCEPT !.phase = "failed"]]
    /\ UNCHANGED <<token, valid>>

\* The second read: the stored token, its own or another's, an empty one as well.
Return(c) ==
    /\ call[c].phase = "stored"
    /\ call' = [call EXCEPT ![c].phase = "done", ![c].got = token]
    /\ UNCHANGED <<token, valid>>

Next ==
    \/ Tick
    \/ \E c \in Users : GetToken(c) \/ Issue(c) \/ Store(c) \/ Fail(c) \/ Return(c)

Spec == Init /\ [][Next]_vars

-----------------------------------------------------------------------------
(* Properties.                                                              *)

\* A token that GetToken returns, and whose life expires_in stated, is alive at Keycloak
\* for a while: at least Margin - Timeout, or the life of a token but for Timeout when
\* that is shorter.  Its validity is counted from the arrival and not from the issue,
\* and the token that is stored last may be the one that was issued first.  A token whose
\* life was not stated may be dead, but it came at most AssumedLife - Margin ago.  An
\* answer without access_token replaces a token others use, and GetToken returns it, but
\* only to callers that asked Keycloak themselves: nobody takes it for one that is kept.
ReturnedTokenLives ==
    \A c \in Users : call[c].phase = "done" =>
        /\ call[c].got.kind = "stated" =>
             \E n \in Lifetimes \union {Margin + 1} : call[c].got.left >= n - Timeout
        /\ call[c].got.kind = "assumed" => call[c].got.age <= NotBelow0(AssumedLife - Margin)
        /\ call[c].got.kind = "empty" => call[c].asked

===============================================================================
