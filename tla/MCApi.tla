--------------------------------- MODULE MCApi ----------------------------------
(***************************************************************************)
(* What the processes of the API share: the webhook queue, the verifier's   *)
(* key cache, the service-account token and the vectors of a search.  They  *)
(* touch different state, so a behaviour is about one of them.              *)
(***************************************************************************)
EXTENDS MCWebhookQueue, TokenConfig, JwksConfig, SearchConfig

\* On the run the text finds all items, and the HyDE documents put different ones on the
\* first page; to one of them two items are equally near.
MCFtsOrder   == <<3, 1, 2>>
MCSemOrders  == {<<2, 3, 1>>}
MCHydeDocs   == {{<<1, 3, 2>>}, {<<3, 2, 1>>}, {<<1, 2, 3>>, <<2, 1, 3>>}}

VARIABLES
    focus,
    served, keys, keysAge, tryAge, holder, keyCall, rotations, outages, stayed, gone, down,
    token, valid, tokenCall,
    vectors, req, sources

Jwks   == INSTANCE JwksVerifier WITH call <- keyCall
Tokens == INSTANCE KeycloakTokenManager WITH call <- tokenCall
Search == INSTANCE SearchPages

jwksVars   == <<served, keys, keysAge, tryAge, holder, keyCall, rotations, outages, stayed, gone, down>>
tokenVars  == <<token, valid, tokenCall>>
searchVars == <<vectors, req, sources>>
mcVars     == <<focus, vars, jwksVars, tokenVars, searchVars>>

\* The parts a behaviour is not about start in one state.
MCInit ==
    /\ focus \in {"webhooks", "jwks", "tokens", "search"}
    /\ Init /\ Jwks!Init /\ Tokens!Init /\ Search!Init
    /\ focus # "jwks" => served = Kids

MCNext ==
    \/ focus = "webhooks" /\ Next /\ UNCHANGED <<focus, jwksVars, tokenVars, searchVars>>
    \/ focus = "jwks" /\ Jwks!Next /\ UNCHANGED <<focus, vars, tokenVars, searchVars>>
    \/ focus = "tokens" /\ Tokens!Next /\ UNCHANGED <<focus, vars, jwksVars, searchVars>>
    \/ focus = "search" /\ Search!Next /\ UNCHANGED <<focus, vars, jwksVars, tokenVars>>

MCSpec == MCInit /\ [][MCNext]_mcVars

-----------------------------------------------------------------------------
\* JWKSVerifier: a key Keycloak withdrew is refused RefreshTTL later, unless the
\* refresh fails.
WithdrawnKeyExpires == Jwks!WithdrawnKeyExpires

\* JWKSVerifier: a key served for MinRefresh is refused only after a failed fetch.
ServedKeyIsFound == Jwks!ServedKeyIsFound

\* JWKSVerifier: fetches are MinRefresh apart, by however many requests.
FetchesApart == Jwks!FetchesApart

\* KeycloakTokenManager: a token that GetToken returns lives for a while.
ReturnedTokenLives == Tokens!ReturnedTokenLives

\* SearchPages: the pages of a search fit together.
PagesFit == Search!PagesFit

===============================================================================
