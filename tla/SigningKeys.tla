----------------------------- MODULE SigningKeys -----------------------------
(***************************************************************************)
(* The keys that sign and verify tokens: the environment as the operator   *)
(* edits it along the rotation of .env.example, the configuration each     *)
(* process has started with, the signed tokens (access token, challenge of *)
(* the second factor, OAuth state), and the OAuth callback, which needs    *)
(* the state of the token and the cookie of the browser.                   *)
(*                                                                         *)
(* Abstractions.  A key pair is one value, a signature is the key that     *)
(* made it, a nonce and its hash are one number.  What a state carries on  *)
(* (intent, user) is part of the token and reaches the callback with it.   *)
(* Processes share one clock.                                              *)
(***************************************************************************)
EXTENDS Naturals, FiniteSets

CONSTANTS Processes, Requests, Browsers, Providers, Kids, Keys, Null,
          FirstKid, FirstKey, \* the kid and the key of the first deploy
          AccessLife, \* JWT_ACCESS_EXPIRES_IN
          ShortLife,  \* the five minutes of a challenge and of a state
          TokenBound, \* bound: tokens that are signed
          ClockBound  \* bound: ticks

ASSUME KeysAssumption ==
  /\ Null \notin Kids \cup Keys \cup Processes \cup Browsers \cup Providers
  /\ Null \notin [kid : Kids, key : Keys]
  /\ FirstKid \in Kids /\ FirstKey \in Keys
  /\ AccessLife \in Nat /\ TokenBound \in Nat /\ ClockBound \in Nat
  /\ ShortLife \in 0..AccessLife \* as with its default, 15 minutes

VARIABLES env,      \* the three JWT_ACCESS settings, as they stand in the environment
          coming,   \* the key a rotation brings in, and its kid
          since,    \* when every process had changed over to it
          conf,     \* [Processes -> the settings it runs with, Null: it does not run]
          clock,
          tokens,   \* every token that was signed
          underway, \* states whose answer, with the cookie, has not reached its browser
          cookie,   \* [Browsers -> the nonce of its oauth_state cookie]
          call,     \* [Requests -> the browser whose OAuth callback is in flight, or Null]
          calm,     \* history: the flow a browser's cookie is of, if no answer to a callback
                    \* can still clear it
          astray,   \* history: a token was honoured as what it was not signed for
          stranded  \* history: the callback of such a calm flow was refused

operator == <<env, coming, since>>
flows == <<underway, cookie, call, calm, stranded>>
vars == <<operator, conf, clock, tokens, flows, astray>>

Settings == [kid : Kids, private : Keys, publics : [Kids -> Keys \cup {Null}]]

Token == [kid : Kids, key : Keys, exp : Nat, nonce : 1..TokenBound,
          type : {"none", "2fa-challenge", "oauth-state"},
          issuer : BOOLEAN, session : BOOLEAN,
          provider : Providers \cup {Null},
          kind : {"access", "challenge", "state"}, \* history
          browser : Browsers \cup {Null}]          \* history

(* envSchema: the kid is in the map, and its public key fits the private   *)
(* one.  Anything else ends the process as it starts.                      *)
Valid(c) == c.publics[c.kid] = c.private

KeysTypeOK ==
  /\ env \in Settings
  /\ coming \in [kid : Kids, key : Keys] \cup {Null} /\ since \in 0..ClockBound \cup {Null}
  /\ conf \in [Processes -> {c \in Settings : Valid(c)} \cup {Null}]
  /\ clock \in 0..ClockBound
  /\ tokens \subseteq Token
  /\ \A t, u \in tokens : t.nonce = u.nonce => t = u
  /\ cookie \in [Browsers -> 0..TokenBound] /\ calm \in [Browsers -> 0..TokenBound]
  /\ call \in [Requests -> Browsers \cup {Null}]
  /\ underway \subseteq tokens
  /\ astray \in BOOLEAN /\ stranded \in BOOLEAN

Only(k, a) == [x \in Kids |-> IF x = k THEN a ELSE Null]

Init ==
  /\ env = [kid |-> FirstKid, private |-> FirstKey, publics |-> Only(FirstKid, FirstKey)]
  /\ coming = Null /\ since = Null /\ clock = 0
  /\ conf = [p \in Processes |-> env]
  /\ tokens = {} /\ underway = {} /\ cookie = [b \in Browsers |-> 0] /\ calm = [b \in Browsers |-> 0]
  /\ call = [r \in Requests |-> Null] /\ astray = FALSE /\ stranded = FALSE

-----------------------------------------------------------------------------
(* The rotation.  An edit waits for the deploy of the one before; kid and  *)
(* private key are two lines, and a process may start in between.          *)
Deployed == \A p \in Processes : conf[p] \in {env, Null}

AddPublic ==
  /\ coming = Null /\ Deployed
  /\ \E k \in Kids, a \in Keys :
       /\ env.publics[k] = Null /\ a # env.private
       /\ env' = [env EXCEPT !.publics[k] = a] /\ coming' = [kid |-> k, key |-> a]
  /\ UNCHANGED <<since, conf, clock, tokens, flows, astray>>

SwapKid ==
  /\ coming # Null /\ env.kid # coming.kid /\ (Deployed \/ env.private = coming.key)
  /\ env' = [env EXCEPT !.kid = coming.kid]
  /\ UNCHANGED <<coming, since, conf, clock, tokens, flows, astray>>

SwapKey ==
  /\ coming # Null /\ env.private # coming.key /\ (Deployed \/ env.kid = coming.kid)
  /\ env' = [env EXCEPT !.private = coming.key]
  /\ UNCHANGED <<coming, since, conf, clock, tokens, flows, astray>>

ChangedOver ==
  /\ coming # Null /\ env.kid = coming.kid /\ env.private = coming.key
  /\ Deployed /\ since = Null /\ since' = clock
  /\ UNCHANGED <<env, coming, conf, clock, tokens, flows, astray>>

DropOld ==
  /\ since # Null /\ clock >= since + AccessLife
  /\ env' = [env EXCEPT !.publics = Only(env.kid, env.private)]
  /\ coming' = Null /\ since' = Null
  /\ UNCHANGED <<conf, clock, tokens, flows, astray>>

(* A process stops (what becomes of its callbacks: LoseAnswer); it starts  *)
(* with the environment of the moment, or not at all.                      *)
Runs(p, c) ==
  /\ conf' = [conf EXCEPT ![p] = c]
  /\ UNCHANGED <<operator, clock, tokens, flows, astray>>

Stop(p) == conf[p] # Null /\ Runs(p, Null)

(* Faulty variant: the settings are not checked against each other.        *)
BootAnyway(p) == Runs(p, env)

Boot(p) == Runs(p, IF Valid(env) THEN env ELSE Null)

Tick ==
  /\ clock < ClockBound /\ clock' = clock + 1
  /\ UNCHANGED <<operator, conf, tokens, flows, astray>>

-----------------------------------------------------------------------------
(* Signing: the current key, and its kid in the header.                    *)
Signed(c, kind, life, b, v) ==
  [kid |-> c.kid, key |-> c.private, exp |-> clock + life,
   nonce |-> Cardinality(tokens) + 1,
   type |-> CASE kind = "access" -> "none" [] kind = "challenge" -> "2fa-challenge"
              [] OTHER -> "oauth-state",
   issuer |-> kind # "state", session |-> kind = "access",
   provider |-> v, kind |-> kind, browser |-> b]

CanSign(p) == conf[p] # Null /\ Cardinality(tokens) < TokenBound

SignAccessToken(p) ==
  /\ CanSign(p) /\ tokens' = tokens \cup {Signed(conf[p], "access", AccessLife, Null, Null)}
  /\ UNCHANGED <<operator, conf, clock, flows, astray>>

SignChallengeToken(p) ==
  /\ CanSign(p) /\ tokens' = tokens \cup {Signed(conf[p], "challenge", ShortLife, Null, Null)}
  /\ UNCHANGED <<operator, conf, clock, flows, astray>>

(* Faulty variant: the kid of the header is not looked at.                 *)
CurrentKeyFor(c, kid) == c.publics[c.kid]

PublicKeyFor(c, kid) == c.publics[kid]

Verified(c, t) == PublicKeyFor(c, t.kid) = t.key /\ clock < t.exp

Admits(c, t) == Verified(c, t) /\ t.issuer /\ t.session
PassesChallenge(c, t) == Verified(c, t) /\ t.issuer /\ t.type = "2fa-challenge"

(* JwtStrategy and verifyChallengeToken, given any token.                  *)
Present(p) ==
  /\ conf[p] # Null
  /\ \E t \in tokens :
       astray' = (astray \/ (Admits(conf[p], t) /\ t.kind # "access")
                         \/ (PassesChallenge(conf[p], t) /\ t.kind # "challenge"))
  /\ UNCHANGED <<operator, conf, clock, tokens, flows>>

-----------------------------------------------------------------------------
(* An OAuth flow begins: the answer carries the URL with the state in it,  *)
(* and the cookie with its nonce.                                          *)
Begin(p, b, v) ==
  LET t == Signed(conf[p], "state", ShortLife, b, v)
  IN /\ CanSign(p) /\ tokens' = tokens \cup {t}
     /\ underway' = underway \cup {t}
     /\ UNCHANGED <<operator, conf, clock, cookie, call, calm, stranded, astray>>

LoginStart(p, b, v) == Begin(p, b, v)
LinkStart(p, b, v) ==
  /\ conf[p] # Null /\ \E t \in tokens : Admits(conf[p], t)
  /\ Begin(p, b, v)

(* The answers of several tabs arrive in any order or not at all; each     *)
(* overwrites the cookie of the one before.                                *)
Receive(t) ==
  /\ t \in underway /\ underway' = underway \ {t}
  /\ cookie' = [cookie EXCEPT ![t.browser] = t.nonce]
  /\ calm' = [calm EXCEPT ![t.browser] =
                IF \E r \in Requests : call[r] = t.browser THEN 0 ELSE t.nonce]
  /\ UNCHANGED <<operator, conf, clock, tokens, call, stranded, astray>>

VerifyState(c, t) == Verified(c, t) /\ t.type = "oauth-state"

(* Faulty variant: a cookie must be there, whatever is in it.              *)
JudgeAnyCookie(c, t, v, n) == VerifyState(c, t) /\ t.provider = v /\ n # 0

(* The state is genuine, for the provider of the path, and from this       *)
(* browser.                                                                *)
Judge(c, t, v, n) == VerifyState(c, t) /\ t.provider = v /\ n # 0 /\ t.nonce = n

(* A callback arrives, perhaps in another browser or at another provider's *)
(* path; the cookie is the one of its request.  What it does once it has   *)
(* passed (the exchange of the code, the link or the login) is in Account. *)
Callback(r, p, b, v) ==
  /\ call[r] = Null /\ conf[p] # Null
  /\ call' = [call EXCEPT ![r] = b]
  /\ \E t \in tokens :
       LET passes == Judge(conf[p], t, v, cookie[b])
       IN /\ astray' = (astray \/ (passes /\ ~(t.kind = "state" /\ t.browser = b
                                                 /\ t.provider = v)))
          /\ stranded' = (stranded \/ (~passes /\ calm[b] = t.nonce /\ t.provider = v
                                         /\ clock < t.exp))
  /\ calm' = [calm EXCEPT ![b] = 0]
  /\ UNCHANGED <<operator, conf, clock, tokens, underway, cookie>>

(* Whatever came of it, the answer clears the cookie, be it a newer one.   *)
Answer(r) ==
  /\ call[r] # Null
  /\ cookie' = [cookie EXCEPT ![call[r]] = 0]
  /\ call' = [call EXCEPT ![r] = Null]
  /\ UNCHANGED <<operator, conf, clock, tokens, underway, calm, stranded, astray>>

(* The process stops before it answers, or the answer is lost.             *)
LoseAnswer(r) ==
  /\ call[r] # Null
  /\ call' = [call EXCEPT ![r] = Null]
  /\ UNCHANGED <<operator, conf, clock, tokens, underway, cookie, calm, stranded, astray>>

-----------------------------------------------------------------------------
Next ==
  \/ AddPublic \/ SwapKid \/ SwapKey \/ ChangedOver \/ DropOld \/ Tick
  \/ \E p \in Processes :
       \/ Stop(p) \/ Boot(p) \/ SignAccessToken(p) \/ SignChallengeToken(p) \/ Present(p)
       \/ \E b \in Browsers, v \in Providers :
            \/ LoginStart(p, b, v) \/ LinkStart(p, b, v)
            \/ \E r \in Requests : Callback(r, p, b, v)
  \/ \E t \in underway : Receive(t)
  \/ \E r \in Requests : Answer(r) \/ LoseAnswer(r)

Spec == Init /\ [][Next]_vars

-----------------------------------------------------------------------------
(* Whatever step the rotation is at and whichever process is asked, a      *)
(* token is honoured until it expires: processes may start with half an    *)
(* edit, the deploys may take their time.                                  *)
TokensHonoured ==
  \A t \in tokens, p \in Processes :
    conf[p] # Null /\ clock < t.exp => Verified(conf[p], t)

(* A token passes only as what it was signed for, and a callback only in   *)
(* the browser and for the provider its flow was started with.  The        *)
(* callback of the flow whose cookie reached the browser last, and which   *)
(* no answer to an earlier callback has cleared, is not refused before its *)
(* state expires.                                                          *)
CallbackIsOwn == ~astray /\ ~stranded
=============================================================================
