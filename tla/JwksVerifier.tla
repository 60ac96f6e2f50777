----------------------------- MODULE JwksVerifier -----------------------------
(***************************************************************************)
(* The cache of Keycloak's public keys that JWKSVerifier.key and refresh    *)
(* keep: requests read it at once, one of them at a time refreshes it, at   *)
(* most once in MinRefresh, and a failed refresh leaves the known keys      *)
(* valid.  Keycloak rotates its keys and may not answer; a request may be   *)
(* cancelled while it fetches.                                              *)
(*                                                                          *)
(* Times are ages, capped at RefreshTTL: a time that was never set is as    *)
(* old as can be, which every comparison of the code treats alike.          *)
(***************************************************************************)
EXTENDS JwksConfig

VARIABLES
    served,    \* Keycloak's keys
    keys,      \* v.keys
    keysAge,   \* age of v.fetchedAt
    tryAge,    \* age of v.lastTry
    holder,    \* owner of v.refreshMu
    call,      \* the call of key in each request
    rotations, \* changes of Keycloak's keys so far
    outages,   \* failed fetches so far
    stayed,    \* history: how long Keycloak has been serving each key
    gone,      \* history: how long ago Keycloak last served each key
    down       \* history: no fetch succeeded since one failed

cache == <<keys, keysAge, tryAge>>
idp   == <<served, rotations, stayed, gone>>
vars  == <<cache, idp, holder, call, outages, down>>

Ages == 0 .. RefreshTTL
Call == [phase : {"idle", "wait", "check", "due", "fetch", "reply", "look", "accepted", "refused"},
         kid : Kids, known : BOOLEAN, body : SUBSET Kids]

TypeOK ==
    /\ served \subseteq Kids /\ keys \subseteq Kids
    /\ keysAge \in Ages /\ tryAge \in Ages
    /\ holder \in Requests \union {NoRequest}
    /\ call \in [Requests -> Call]
    /\ rotations \in 0 .. MaxRotations
    /\ outages \in 0 .. MaxOutages
    /\ stayed \in [Kids -> Ages] /\ gone \in [Kids -> Ages]
    /\ down \in BOOLEAN

Older(age) == IF age < RefreshTTL THEN age + 1 ELSE age

Init ==
    /\ served \in (SUBSET Kids) \ {{}}
    /\ keys = {}
    /\ keysAge = RefreshTTL
    /\ tryAge = RefreshTTL
    /\ holder = NoRequest
    /\ call \in [Requests -> [phase : {"idle"}, kid : {CHOOSE k \in Kids : TRUE}, known : {FALSE}, body : {{}}]]
    /\ rotations = 0
    /\ outages = 0
    /\ stayed = [k \in Kids |-> 0]
    /\ gone = [k \in Kids |-> IF k \in served THEN 0 ELSE RefreshTTL]
    /\ down = FALSE

-----------------------------------------------------------------------------
(* Keycloak and the clock.                                                  *)

Rotate(k) ==
    /\ rotations < MaxRotations
    /\ rotations' = rotations + 1
    /\ served' = IF k \in served THEN served \ {k} ELSE served \union {k}
    /\ served' # {}
    /\ stayed' = [stayed EXCEPT ![k] = 0]
    /\ gone' = [gone EXCEPT ![k] = 0]
    /\ UNCHANGED <<cache, holder, call, outages, down>>

Fetching(c) == call[c].phase \in {"fetch", "reply"}

\* Only a fetch takes time, at most FetchTimeout, and what waits for it.
MayTick ==
    \A c \in Requests :
        \/ call[c].phase \in {"idle", "accepted", "refused"}
        \/ call[c].phase = "wait" /\ holder # NoRequest
        \/ Fetching(c) /\ tryAge < FetchTimeout

Tick ==
    /\ MayTick
    /\ keysAge' = Older(keysAge)
    /\ tryAge' = Older(tryAge)
    /\ stayed' = [k \in Kids |-> IF k \in served THEN Older(stayed[k]) ELSE 0]
    /\ gone' = [k \in Kids |-> IF k \in served THEN 0 ELSE Older(gone[k])]
    /\ call' = [c \in Requests |-> IF call[c].phase \in {"accepted", "refused"}
                                   THEN [call[c] EXCEPT !.phase = "idle", !.known = FALSE] ELSE call[c]]
    /\ UNCHANGED <<served, keys, holder, rotations, outages, down>>

-----------------------------------------------------------------------------
(* key.                                                                     *)

Goto(c, phase) == call' = [call EXCEPT ![c].phase = phase]

\* Mutant of Fresh: keys do not age.
FreshForEver == keys # {}

Fresh == keysAge < RefreshTTL

\* The read under v.mu: a known key of a fresh set is the answer, anything else
\* waits for refreshMu.
Ask(c, kid) ==
    /\ call[c].phase = "idle"
    /\ call' = [call EXCEPT ![c] = [phase |-> IF kid \in keys /\ Fresh THEN "accepted" ELSE "wait",
                                    kid |-> kid, known |-> kid \in keys, body |-> {}]]
    /\ UNCHANGED <<cache, idp, holder, outages, down>>

\* Mutant of MayEnter: refresh without refreshMu.
EntersAlways(c) == TRUE

MayEnter(c) == holder = NoRequest

\* refresh begins.
Enter(c) ==
    /\ call[c].phase = "wait"
    /\ MayEnter(c)
    /\ holder' = c
    /\ Goto(c, "check")
    /\ UNCHANGED <<cache, idp, outages, down>>

\* An error of refresh: the key the request saw at its beginning stays valid.
AfterError(c) == IF call[c].known THEN "accepted" ELSE "refused"

\* Mutant of TooEarly: fresh keys are not fetched again for an unknown kid.
WhileFresh == Fresh

TooEarly == tryAge < MinRefresh

\* The read of lastTry and fetchedAt.  Within MinRefresh the last attempt decides:
\* after a failed one refresh is an error, after a good one the keys are looked up.
\* fetchedAt = lastTry if and only if the last attempt succeeded.
Check(c) ==
    /\ call[c].phase = "check"
    /\ IF TooEarly
       THEN /\ holder' = NoRequest
            /\ Goto(c, IF keysAge = tryAge THEN "look" ELSE AfterError(c))
       ELSE Goto(c, "due") /\ UNCHANGED holder
    /\ UNCHANGED <<cache, idp, outages, down>>

\* lastTry is set before the fetch.
Fetch(c) ==
    /\ call[c].phase = "due"
    /\ tryAge' = 0
    /\ Goto(c, "fetch")
    /\ UNCHANGED <<keys, keysAge, idp, holder, outages, down>>

\* Keycloak answers with the keys it has now; usable keys only.
Serve(c) ==
    /\ call[c].phase = "fetch"
    /\ call' = [call EXCEPT ![c].phase = "reply", ![c].body = served]
    /\ UNCHANGED <<cache, idp, holder, outages, down>>

\* The new set replaces the old one and is as old as the attempt.
Install(c) ==
    /\ call[c].phase = "reply"
    /\ keys' = call[c].body
    /\ keysAge' = tryAge
    /\ holder' = NoRequest
    /\ down' = FALSE
    /\ call' = [call EXCEPT ![c].phase = "look", ![c].body = {}]
    /\ UNCHANGED <<tryAge, idp, outages>>

\* No answer in time, an unusable one, or the request is cancelled.
FetchFails(c) ==
    /\ Fetching(c)
    /\ outages < MaxOutages
    /\ outages' = outages + 1
    /\ holder' = NoRequest
    /\ down' = TRUE
    /\ call' = [call EXCEPT ![c].phase = AfterError(c), ![c].body = {}]
    /\ UNCHANGED <<cache, idp>>

\* The second read under v.mu.
Look(c) ==
    /\ call[c].phase = "look"
    /\ Goto(c, IF call[c].kid \in keys THEN "accepted" ELSE "refused")
    /\ UNCHANGED <<cache, idp, holder, outages, down>>

KeyStep(c) == Enter(c) \/ Check(c) \/ Fetch(c) \/ Serve(c) \/ Install(c) \/ Look(c)

-----------------------------------------------------------------------------
Next ==
    \/ \E k \in Kids : Rotate(k)
    \/ Tick
    \/ \E c \in Requests : KeyStep(c) \/ FetchFails(c) \/ \E k \in Kids : Ask(c, k)

Spec == Init /\ [][Next]_vars

-----------------------------------------------------------------------------
(* Properties.                                                              *)

Answers(c, phase) == call[c].phase # phase /\ call'[c].phase = phase

\* A key Keycloak has withdrawn is refused RefreshTTL later, unless the refresh
\* fails: no request is answered with keys read before that.
WithdrawnKeyExpires ==
    [][\A c \in Requests : Answers(c, "accepted") => gone[call'[c].kid] < RefreshTTL \/ down']_vars

\* A key Keycloak has served for MinRefresh is refused only while a failed fetch is
\* the last one: an unknown key brings a refresh although the cache is fresh.
ServedKeyIsFound ==
    [][\A c \in Requests : Answers(c, "refused") => stayed[call'[c].kid] < MinRefresh \/ down']_vars

\* Unknown keys do not become requests to Keycloak: its endpoint is asked at most
\* once in MinRefresh, by however many requests.
FetchesApart ==
    [][\A c \in Requests : Answers(c, "fetch") => tryAge >= MinRefresh]_vars

===============================================================================
