-------------------------- MODULE SigningKeys_proofs --------------------------
(***************************************************************************)
(* Theorems about the signing keys: a rotation along .env.example strands  *)
(* no token, and tokens and callbacks pass only as what they were made     *)
(* for, for any number of processes, browsers, keys and flows.             *)
(***************************************************************************)
EXTENDS SigningKeys, FiniteSetTheorems, TLAPS

Up(p) == conf[p] # Null

(* Nonces count the tokens.                                                *)
CountInv ==
  /\ IsFiniteSet(tokens)
  /\ \A t \in tokens : t.nonce <= Cardinality(tokens)
  /\ \A b \in Browsers : cookie[b] <= Cardinality(tokens)

(* What a token carries tells its kind, and how long it may live.          *)
ShapeInv ==
  \A t \in tokens :
    /\ t.type = "oauth-state" <=> t.kind = "state"
    /\ t.type = "2fa-challenge" <=> t.kind = "challenge"
    /\ t.session <=> t.kind = "access"
    /\ t.exp <= clock + AccessLife

(* A cookie is of the browser's own flow, on its way as in the browser;    *)
(* that of a calm flow is its own.                                         *)
FlowInv ==
  /\ \A t \in underway : t.kind = "state" /\ t.browser \in Browsers
  /\ \A b \in Browsers :
       /\ \A t \in tokens : t.nonce = cookie[b] => t.kind = "state" /\ t.browser = b
       /\ calm[b] # 0 => calm[b] = cookie[b] /\ \A r \in Requests : call[r] # b

(* The environment's public keys: nothing but the pair in use, or also the *)
(* key that comes, which no other kid has.                                 *)
EnvInv ==
  /\ coming = Null => /\ since = Null
                      /\ env.publics = Only(env.kid, env.private)
  /\ coming # Null => /\ env.publics[coming.kid] = coming.key
                      /\ \A k \in Kids \ {coming.kid} : env.publics[k] # coming.key

(* Every process that runs verifies what any of them signs, and so does    *)
(* one that starts next; what such a one signs, those that run verify.     *)
PairInv ==
  \A p \in Processes : Up(p) =>
    /\ \A q \in Processes : Up(q) => conf[q].publics[conf[p].kid] = conf[p].private
    /\ env.publics[conf[p].kid] = conf[p].private
    /\ Valid(env) => conf[p].publics[env.kid] = env.private
    /\ coming # Null /\ (env.kid = coming.kid \/ env.private = coming.key) =>
         conf[p].publics[coming.kid] = coming.key

(* So with the tokens that were signed.                                    *)
KeptInv ==
  \A t \in tokens : clock < t.exp =>
    /\ env.publics[t.kid] = t.key
    /\ \A p \in Processes : Up(p) => conf[p].publics[t.kid] = t.key

(* Once changed over, nobody signs with the old key, and what it signed    *)
(* runs out.                                                               *)
SinceInv ==
  since # Null =>
    /\ coming # Null /\ env.kid = coming.kid /\ env.private = coming.key
    /\ \A p \in Processes : Up(p) => conf[p].kid = env.kid /\ conf[p].private = env.private
    /\ \A t \in tokens : \/ t.kid = env.kid /\ t.key = env.private
                         \/ t.exp <= since + AccessLife

KeysInv ==
  /\ KeysTypeOK /\ CountInv /\ ShapeInv /\ FlowInv
  /\ EnvInv /\ PairInv /\ KeptInv /\ SinceInv /\ CallbackIsOwn

-----------------------------------------------------------------------------
(* The first deploy.                                                       *)
LEMMA KeysInit == Init => KeysInv
<1> SUFFICES ASSUME Init PROVE KeysInv
  OBVIOUS
<1> USE KeysAssumption DEF Init
<1>1. env \in Settings /\ Valid(env)
  BY DEF Settings, Valid, Only
<1>2. KeysTypeOK
  <2>1. conf \in [Processes -> {c \in Settings : Valid(c)} \cup {Null}]
    BY <1>1
  <2>2. cookie \in [Browsers -> 0..TokenBound] /\ calm \in [Browsers -> 0..TokenBound] /\ clock \in 0..ClockBound
    OBVIOUS
  <2>3. QED BY <1>1, <2>1, <2>2 DEF KeysTypeOK
<1>3. CountInv
  BY FS_EmptySet DEF CountInv
<1>4. ShapeInv /\ FlowInv /\ KeptInv /\ CallbackIsOwn
  BY DEF ShapeInv, FlowInv, KeptInv, CallbackIsOwn
<1>5. EnvInv /\ SinceInv
  BY DEF EnvInv, SinceInv
<1>6. PairInv
  BY <1>1 DEF PairInv, Valid, Up
<1>7. QED BY <1>2, <1>3, <1>4, <1>5, <1>6 DEF KeysInv

-----------------------------------------------------------------------------
(* A new token: its nonce is new, and what the key invariants say of it    *)
(* follows from its signer.                                                *)
IsSigned(p, t) ==
  \E kind \in {"access", "challenge", "state"}, life \in 0..AccessLife,
     b \in Browsers \cup {Null}, v \in Providers \cup {Null} :
    t = Signed(conf[p], kind, life, b, v)

LEMMA SignedIsNew ==
  ASSUME KeysInv, NEW p \in Processes, CanSign(p), NEW t, IsSigned(p, t), tokens' = tokens \cup {t},
         UNCHANGED <<env, coming, since, conf, clock>>
  PROVE  /\ t \in Token /\ t.nonce = Cardinality(tokens) + 1
         /\ \A u \in tokens : u.nonce < t.nonce
         /\ IsFiniteSet(tokens') /\ Cardinality(tokens') = Cardinality(tokens) + 1
         /\ ShapeInv' /\ PairInv' /\ EnvInv' /\ KeptInv' /\ SinceInv'
<1> USE KeysAssumption
<1>0. PICK kind \in {"access", "challenge", "state"}, life \in 0..AccessLife,
           b \in Browsers \cup {Null}, v \in Providers \cup {Null} :
        t = Signed(conf[p], kind, life, b, v)
  BY DEF IsSigned
<1>1. /\ conf[p] \in Settings /\ conf[p].kid \in Kids /\ conf[p].private \in Keys
      /\ clock \in Nat /\ clock + life \in Nat
  BY DEF KeysInv, KeysTypeOK, CanSign, Settings
<1>2. IsFiniteSet(tokens) /\ Cardinality(tokens) \in Nat
  BY FS_CardinalityType DEF KeysInv, CountInv
<1>3. t \in Token /\ t.nonce = Cardinality(tokens) + 1 /\ t.nonce \in Nat
  BY <1>0, <1>1, <1>2 DEF Signed, Token, CanSign
<1>4. /\ t.kind = kind /\ t.browser = b /\ t.provider = v
      /\ t.kid = conf[p].kid /\ t.key = conf[p].private /\ t.exp = clock + life
      /\ t.session = (kind = "access")
      /\ t.type = CASE kind = "access" -> "none" [] kind = "challenge" -> "2fa-challenge"
                    [] OTHER -> "oauth-state"
  BY <1>0 DEF Signed
<1>5. \A u \in tokens : u.nonce < t.nonce
  BY <1>2, <1>3 DEF KeysInv, CountInv, KeysTypeOK, Token
<1>6. t \notin tokens
  BY <1>3, <1>5
<1>7. IsFiniteSet(tokens') /\ Cardinality(tokens') = Cardinality(tokens) + 1
  BY <1>2, <1>6, FS_AddElement
<1>8. ShapeInv'
  <2>1. /\ t.type = "oauth-state" <=> t.kind = "state"
        /\ t.type = "2fa-challenge" <=> t.kind = "challenge"
        /\ t.session <=> t.kind = "access"
    BY <1>4
  <2>2. t.exp <= clock' + AccessLife
    BY <1>1, <1>4
  <2>3. QED BY <2>1, <2>2 DEF KeysInv, ShapeInv
<1>9. PairInv' /\ EnvInv'
  BY DEF KeysInv, PairInv, EnvInv, Up, Valid
<1>10. KeptInv'
  BY <1>4 DEF KeysInv, KeptInv, PairInv, Up, CanSign
<1>11. SinceInv'
  BY <1>4 DEF KeysInv, SinceInv, Up, CanSign
<1>12. QED BY <1>3, <1>4, <1>5, <1>7, <1>8, <1>9, <1>10, <1>11

(* A new token changes no cookie; if it is a state, it is on its way.      *)
LEMMA SignStep ==
  ASSUME KeysInv, NEW p \in Processes, CanSign(p), NEW t, IsSigned(p, t),
         tokens' = tokens \cup {t},
         \/ underway' = underway
         \/ underway' = underway \cup {t} /\ t.kind = "state" /\ t.browser \in Browsers,
         UNCHANGED <<operator, conf, clock, cookie, call, calm, stranded, astray>>
  PROVE  KeysInv'
<1> USE DEF operator
<1>1. /\ t \in Token /\ t.nonce = Cardinality(tokens) + 1
      /\ \A u \in tokens : u.nonce < t.nonce
      /\ IsFiniteSet(tokens') /\ Cardinality(tokens') = Cardinality(tokens) + 1
      /\ ShapeInv' /\ PairInv' /\ EnvInv' /\ KeptInv' /\ SinceInv'
  BY SignedIsNew
<1>2. Cardinality(tokens) \in Nat
  BY FS_CardinalityType DEF KeysInv, CountInv
<1>3. KeysTypeOK'
  <2>1. underway' \subseteq tokens'
    BY DEF KeysInv, KeysTypeOK
  <2>2. QED BY <1>1, <2>1 DEF KeysInv, KeysTypeOK, Token
<1>4. CountInv'
  <2>1. \A u \in tokens : u.nonce \in Nat
    BY KeysAssumption DEF KeysInv, KeysTypeOK, Token
  <2>2. \A b \in Browsers : cookie'[b] \in Nat
    BY KeysAssumption DEF KeysInv, KeysTypeOK
  <2>3. \A u \in tokens' : u.nonce <= Cardinality(tokens')
    BY <1>1, <1>2, <2>1 DEF KeysInv, CountInv
  <2>4. \A b \in Browsers : cookie'[b] <= Cardinality(tokens')
    BY <1>1, <1>2, <2>2 DEF KeysInv, CountInv
  <2>5. QED BY <1>1, <2>3, <2>4 DEF CountInv
<1>5. FlowInv'
  <2>1. \A b \in Browsers : t.nonce # cookie[b]
    BY <1>1, <1>2, KeysAssumption DEF KeysInv, CountInv, KeysTypeOK
  <2>2. QED BY <2>1 DEF KeysInv, FlowInv
<1>6. CallbackIsOwn'
  BY DEF KeysInv, CallbackIsOwn
<1>7. QED BY <1>1, <1>3, <1>4, <1>5, <1>6 DEF KeysInv

LEMMA BeginStep ==
  ASSUME KeysInv, NEW p \in Processes, NEW b \in Browsers, NEW v \in Providers, Begin(p, b, v)
  PROVE  KeysInv'
<1> DEFINE t == Signed(conf[p], "state", ShortLife, b, v)
<1>1. IsSigned(p, t) /\ t.kind = "state" /\ t.browser = b
  <2>1. ShortLife \in 0..AccessLife
    BY KeysAssumption
  <2>2. QED BY <2>1 DEF IsSigned, Signed
<1>2. /\ CanSign(p) /\ tokens' = tokens \cup {t} /\ underway' = underway \cup {t}
      /\ UNCHANGED <<operator, conf, clock, cookie, call, calm, stranded, astray>>
  BY DEF Begin
<1> HIDE DEF t
<1>3. QED BY <1>1, <1>2, SignStep

(* A nonce reaches its browser, as its cookie.                             *)
LEMMA ReceiveStep ==
  ASSUME KeysInv, NEW t \in underway, Receive(t)
  PROVE  KeysInv'
<1> USE DEF operator
<1>1. /\ underway' = underway \ {t}
      /\ cookie' = [cookie EXCEPT ![t.browser] = t.nonce]
      /\ calm' = [calm EXCEPT ![t.browser] =
                    IF \E r \in Requests : call[r] = t.browser THEN 0 ELSE t.nonce]
      /\ UNCHANGED <<operator, conf, clock, tokens, call, stranded, astray>>
  BY DEF Receive
<1>2. /\ t \in tokens /\ t.nonce \in 1..TokenBound
      /\ t.kind = "state" /\ t.browser \in Browsers
  BY DEF KeysInv, KeysTypeOK, FlowInv, Token
<1>3. /\ \A b \in Browsers : cookie'[b] = IF b = t.browser THEN t.nonce ELSE cookie[b]
      /\ \A b \in Browsers \ {t.browser} : calm'[b] = calm[b]
      /\ calm'[t.browser] # 0 =>
           calm'[t.browser] = t.nonce /\ \A r \in Requests : call[r] # t.browser
  BY <1>1, <1>2 DEF KeysInv, KeysTypeOK
<1>4. KeysTypeOK'
  <2>1. cookie' \in [Browsers -> 0..TokenBound] /\ calm' \in [Browsers -> 0..TokenBound]
    BY <1>1, <1>2, KeysAssumption DEF KeysInv, KeysTypeOK
  <2>2. QED BY <1>1, <2>1 DEF KeysInv, KeysTypeOK
<1>5. CountInv'
  BY <1>1, <1>2, <1>3 DEF KeysInv, CountInv
<1>6. FlowInv'
  <2>1. \A u \in tokens : u.nonce = t.nonce => u = t
    BY <1>2 DEF KeysInv, KeysTypeOK
  <2>2. QED BY <1>1, <1>2, <1>3, <2>1 DEF KeysInv, FlowInv
<1>7. ShapeInv' /\ EnvInv' /\ PairInv' /\ KeptInv' /\ SinceInv' /\ CallbackIsOwn'
  BY <1>1 DEF KeysInv, ShapeInv, EnvInv, PairInv, KeptInv, SinceInv, CallbackIsOwn, Up, Valid
<1>8. QED BY <1>4, <1>5, <1>6, <1>7 DEF KeysInv

-----------------------------------------------------------------------------
(* The operator's steps sign nothing and touch no flow.                    *)
LEMMA OperatorStep ==
  ASSUME KeysInv, UNCHANGED <<conf, clock, tokens, flows, astray>>,
         env' \in Settings, coming' \in [kid : Kids, key : Keys] \cup {Null},
         since' \in 0..ClockBound \cup {Null},
         EnvInv', PairInv', KeptInv', SinceInv'
  PROVE  KeysInv'
<1> USE DEF flows
<1>1. KeysTypeOK'
  BY DEF KeysInv, KeysTypeOK
<1>2. CountInv' /\ ShapeInv' /\ FlowInv' /\ CallbackIsOwn'
  BY DEF KeysInv, CountInv, ShapeInv, FlowInv, CallbackIsOwn
<1>3. QED BY <1>1, <1>2 DEF KeysInv

(* What the types of the key invariants' terms are.                        *)
LEMMA KeyTypes ==
  ASSUME KeysTypeOK
  PROVE  /\ env \in Settings /\ env.kid \in Kids /\ env.private \in Keys
         /\ env.publics \in [Kids -> Keys \cup {Null}]
         /\ \A p \in Processes : Up(p) =>
              /\ conf[p] \in Settings /\ conf[p].kid \in Kids /\ conf[p].private \in Keys
              /\ conf[p].publics \in [Kids -> Keys \cup {Null}]
         /\ \A t \in tokens : t.kid \in Kids /\ t.key \in Keys /\ t.exp \in Nat
         /\ coming # Null => coming.kid \in Kids /\ coming.key \in Keys
         /\ clock \in Nat /\ Null \notin Kids \cup Keys
BY KeysAssumption DEF KeysTypeOK, Settings, Token, Up

LEMMA AddPublicStep == KeysInv /\ AddPublic => KeysInv'
<1> SUFFICES ASSUME KeysInv, AddPublic PROVE KeysInv'
  OBVIOUS
<1>1. PICK k \in Kids, a \in Keys :
        /\ env.publics[k] = Null /\ a # env.private
        /\ env' = [env EXCEPT !.publics[k] = a] /\ coming' = [kid |-> k, key |-> a]
  BY DEF AddPublic
<1>2. coming = Null /\ UNCHANGED <<since, conf, clock, tokens, flows, astray>>
  BY DEF AddPublic
<1>3. /\ env' \in Settings /\ env'.kid = env.kid /\ env'.private = env.private
      /\ env'.publics = [env.publics EXCEPT ![k] = a]
      /\ coming' # Null /\ coming'.kid = k /\ coming'.key = a
      /\ coming' \in [kid : Kids, key : Keys]
  BY <1>1, KeysAssumption DEF KeysInv, KeysTypeOK, Settings
<1>4. /\ since = Null /\ since' = Null
      /\ env.publics = Only(env.kid, env.private) /\ env.kid # k /\ Valid(env)
  BY <1>1, <1>2, KeyTypes DEF KeysInv, EnvInv, Only, Valid
<1>5. EnvInv'
  BY <1>1, <1>3, <1>4, KeyTypes DEF KeysInv, EnvInv, Only
<1>6. PairInv'
  BY <1>1, <1>2, <1>3, <1>4, KeyTypes DEF KeysInv, PairInv, Up
<1>7. KeptInv'
  BY <1>1, <1>2, <1>3, KeyTypes DEF KeysInv, KeptInv, Up
<1>8. SinceInv'
  BY <1>4 DEF SinceInv
<1>9. since' \in 0..ClockBound \cup {Null}
  BY <1>4
<1>10. QED BY <1>2, <1>3, <1>5, <1>6, <1>7, <1>8, <1>9, OperatorStep

(* A half of the swap: with the other half it is the first deploy of the   *)
(* extended keys that lets it in, without it the other half has.           *)
LEMMA SwapStep ==
  ASSUME KeysInv, coming # Null, env' \in Settings, env'.publics = env.publics,
         env'.kid \in {env.kid, coming.kid}, env'.private \in {env.private, coming.key},
         Deployed \/ env.kid = coming.kid \/ env.private = coming.key,
         env.kid # coming.kid \/ env.private # coming.key,
         UNCHANGED <<coming, since, conf, clock, tokens, flows, astray>>
  PROVE  KeysInv'
<1>1. since = Null
  BY DEF KeysInv, SinceInv
<1>2. env.publics[coming.kid] = coming.key
  BY DEF KeysInv, EnvInv
<1>3. \A p \in Processes : Up(p) => conf[p].publics[coming.kid] = coming.key
  BY <1>2 DEF KeysInv, PairInv, Up, Deployed
<1>4. EnvInv'
  BY DEF KeysInv, EnvInv
<1>5. PairInv'
  <2> SUFFICES ASSUME NEW p \in Processes, Up(p)'
      PROVE  /\ \A q \in Processes : Up(q)' => conf[q].publics[conf[p].kid] = conf[p].private
             /\ env.publics[conf[p].kid] = conf[p].private
             /\ Valid(env') => conf[p].publics[env'.kid] = env'.private
             /\ conf[p].publics[coming.kid] = coming.key
    BY DEF PairInv
  <2>1. Up(p) /\ \A q \in Processes : Up(q)' <=> Up(q)
    BY DEF Up
  <2>2. Valid(env') => conf[p].publics[env'.kid] = env'.private
    <3>1. CASE env'.kid = env.kid /\ env'.private = env.private
      BY <2>1, <3>1 DEF KeysInv, PairInv, Valid
    <3>2. CASE env'.kid = coming.kid
      BY <1>2, <1>3, <2>1, <3>2 DEF Valid
    <3>3. CASE env'.kid # coming.kid /\ env'.private = coming.key
      BY <3>3, KeyTypes DEF KeysInv, EnvInv, Valid
    <3>4. QED BY <3>1, <3>2, <3>3
  <2>3. QED BY <1>3, <2>1, <2>2 DEF KeysInv, PairInv
<1>6. KeptInv'
  BY DEF KeysInv, KeptInv, Up
<1>7. SinceInv'
  BY <1>1 DEF SinceInv
<1>8. QED BY <1>1, <1>4, <1>5, <1>6, <1>7, OperatorStep DEF KeysInv, KeysTypeOK

LEMMA SwapKidStep == KeysInv /\ SwapKid => KeysInv'
<1> SUFFICES ASSUME KeysInv, SwapKid PROVE KeysInv'
  OBVIOUS
<1>1. /\ env' \in Settings /\ env'.publics = env.publics
      /\ env'.kid = coming.kid /\ env'.private = env.private
  BY KeyTypes DEF KeysInv, SwapKid, Settings
<1>2. QED BY <1>1, SwapStep DEF SwapKid

LEMMA SwapKeyStep == KeysInv /\ SwapKey => KeysInv'
<1> SUFFICES ASSUME KeysInv, SwapKey PROVE KeysInv'
  OBVIOUS
<1>1. /\ env' \in Settings /\ env'.publics = env.publics
      /\ env'.kid = env.kid /\ env'.private = coming.key
  BY KeyTypes DEF KeysInv, SwapKey, Settings
<1>2. QED BY <1>1, SwapStep DEF SwapKey

LEMMA ChangedOverStep == KeysInv /\ ChangedOver => KeysInv'
<1> SUFFICES ASSUME KeysInv, ChangedOver PROVE KeysInv'
  OBVIOUS
<1>1. SinceInv'
  BY DEF ChangedOver, KeysInv, SinceInv, ShapeInv, Deployed, Up
<1>2. EnvInv' /\ PairInv' /\ KeptInv'
  BY DEF ChangedOver, KeysInv, EnvInv, PairInv, KeptInv, Up, Valid
<1>3. QED BY <1>1, <1>2, OperatorStep DEF ChangedOver, KeysInv, KeysTypeOK

LEMMA DropOldStep == KeysInv /\ DropOld => KeysInv'
<1> SUFFICES ASSUME KeysInv, DropOld PROVE KeysInv'
  OBVIOUS
<1>1. /\ env' \in Settings /\ env'.kid = env.kid /\ env'.private = env.private
      /\ env'.publics = Only(env.kid, env.private)
      /\ coming' = Null /\ since' = Null
      /\ UNCHANGED <<conf, clock, tokens, flows, astray>>
  BY KeyTypes DEF KeysInv, DropOld, Settings, Only
<1>2. EnvInv' /\ SinceInv'
  BY <1>1 DEF EnvInv, SinceInv
<1>3. /\ env.publics[env.kid] = env.private /\ env'.publics[env.kid] = env.private
      /\ Valid(env)
  BY <1>1, KeyTypes DEF KeysInv, DropOld, SinceInv, EnvInv, Only, Valid
<1>4. PairInv'
  BY <1>1, <1>3 DEF KeysInv, PairInv, SinceInv, DropOld, Up
<1>5. KeptInv'
  <2> SUFFICES ASSUME NEW t \in tokens, clock < t.exp
               PROVE  /\ env'.publics[t.kid] = t.key
                      /\ \A p \in Processes : Up(p) => conf[p].publics[t.kid] = t.key
    BY <1>1 DEF KeptInv, Up
  <2>1. t.kid = env.kid /\ t.key = env.private
    BY KeyTypes, KeysAssumption DEF KeysInv, KeysTypeOK, SinceInv, DropOld
  <2>2. QED BY <1>3, <2>1 DEF KeysInv, KeptInv
<1>6. QED BY <1>1, <1>2, <1>4, <1>5, OperatorStep

LEMMA TickStep == KeysInv /\ Tick => KeysInv'
<1> SUFFICES ASSUME KeysInv, Tick PROVE KeysInv'
  OBVIOUS
<1> USE DEF Tick, operator, flows
<1>1. clock \in Nat /\ clock' = clock + 1 /\ clock' \in 0..ClockBound
  BY KeysAssumption DEF KeysInv, KeysTypeOK
<1>2. KeysTypeOK'
  BY <1>1 DEF KeysInv, KeysTypeOK
<1>3. CountInv' /\ FlowInv' /\ CallbackIsOwn' /\ EnvInv' /\ SinceInv'
  BY DEF KeysInv, CountInv, FlowInv, CallbackIsOwn, EnvInv, SinceInv, Up
<1>4. ShapeInv' /\ KeptInv'
  BY <1>1, KeyTypes, KeysAssumption DEF KeysInv, ShapeInv, KeptInv, Up
<1>5. PairInv'
  BY DEF KeysInv, PairInv, Up, Valid
<1>6. QED BY <1>2, <1>3, <1>4, <1>5 DEF KeysInv

(* A process stops, or starts with an environment that is valid.           *)
LEMMA RunsStep ==
  ASSUME KeysInv, NEW p \in Processes, NEW c, c = Null \/ (c = env /\ Valid(env)), Runs(p, c)
  PROVE  KeysInv'
<1> USE DEF Runs, operator, flows
<1>1. conf' = [conf EXCEPT ![p] = c] /\ \A q \in Processes \ {p} : conf'[q] = conf[q]
  BY DEF KeysInv, KeysTypeOK
<1>2. conf'[p] = c
  BY <1>1 DEF KeysInv, KeysTypeOK
<1>5. KeysTypeOK'
  BY <1>1 DEF KeysInv, KeysTypeOK
<1>6. CountInv' /\ ShapeInv' /\ CallbackIsOwn' /\ EnvInv' /\ FlowInv'
  BY DEF KeysInv, CountInv, ShapeInv, CallbackIsOwn, EnvInv, FlowInv
<1>8. PairInv'
  BY <1>1, <1>2 DEF KeysInv, PairInv, EnvInv, Up, Valid
<1>9. KeptInv'
  BY <1>1, <1>2 DEF KeysInv, KeptInv, Up
<1>10. SinceInv'
  BY <1>1, <1>2 DEF KeysInv, SinceInv, Up
<1>11. QED BY <1>5, <1>6, <1>8, <1>9, <1>10 DEF KeysInv

-----------------------------------------------------------------------------
(* A token's kind decides what it passes as.                               *)
LEMMA PresentStep == ASSUME NEW p \in Processes PROVE KeysInv /\ Present(p) => KeysInv'
<1> SUFFICES ASSUME KeysInv, Present(p) PROVE KeysInv'
  OBVIOUS
<1> USE DEF Present, operator, flows
<1>1. astray' = FALSE
  BY DEF KeysInv, CallbackIsOwn, ShapeInv, Admits, PassesChallenge
<1>2. KeysTypeOK'
  BY <1>1 DEF KeysInv, KeysTypeOK
<1>3. CountInv' /\ ShapeInv' /\ FlowInv' /\ EnvInv' /\ PairInv' /\ KeptInv' /\ SinceInv'
  BY DEF KeysInv, CountInv, ShapeInv, FlowInv, EnvInv, PairInv, KeptInv, SinceInv, Up, Valid
<1>4. CallbackIsOwn'
  BY <1>1 DEF KeysInv, CallbackIsOwn
<1>5. QED BY <1>2, <1>3, <1>4 DEF KeysInv

LEMMA CallbackStep ==
  ASSUME NEW r \in Requests, NEW p \in Processes, NEW b \in Browsers, NEW v \in Providers
  PROVE  KeysInv /\ Callback(r, p, b, v) => KeysInv'
<1> SUFFICES ASSUME KeysInv, Callback(r, p, b, v) PROVE KeysInv'
  OBVIOUS
<1> USE DEF operator
<1>1. PICK t \in tokens :
        LET passes == Judge(conf[p], t, v, cookie[b])
        IN /\ astray' = (astray \/ (passes /\ ~(t.kind = "state" /\ t.browser = b
                                                  /\ t.provider = v)))
           /\ stranded' = (stranded \/ (~passes /\ calm[b] = t.nonce /\ t.provider = v
                                          /\ clock < t.exp))
  BY DEF Callback
<1>2. t.nonce \in Nat \ {0}
  BY DEF KeysInv, KeysTypeOK, Token
<1>3. Judge(conf[p], t, v, cookie[b]) => t.kind = "state" /\ t.browser = b /\ t.provider = v
  BY DEF KeysInv, FlowInv, Judge
<1>4. calm[b] = t.nonce /\ t.provider = v /\ clock < t.exp => Judge(conf[p], t, v, cookie[b])
  BY <1>2 DEF KeysInv, FlowInv, ShapeInv, KeptInv, Up, Judge, VerifyState, Verified,
              PublicKeyFor, Callback
<1>5. astray' = FALSE /\ stranded' = FALSE
  BY <1>1, <1>3, <1>4 DEF KeysInv, CallbackIsOwn
<1>6. /\ call[r] = Null /\ conf[p] # Null
      /\ call' = [call EXCEPT ![r] = b]
      /\ calm' = [calm EXCEPT ![b] = 0]
      /\ UNCHANGED <<operator, conf, clock, tokens, underway, cookie>>
  BY DEF Callback
<1>7. KeysTypeOK'
  <2>1. call' \in [Requests -> Browsers \cup {Null}] /\ calm' \in [Browsers -> 0..TokenBound]
    BY <1>6, KeysAssumption DEF KeysInv, KeysTypeOK
  <2>2. QED BY <1>5, <1>6, <2>1 DEF KeysInv, KeysTypeOK
<1>8. CountInv' /\ ShapeInv' /\ EnvInv' /\ PairInv' /\ KeptInv' /\ SinceInv'
  BY <1>6 DEF KeysInv, CountInv, ShapeInv, EnvInv, PairInv, KeptInv, SinceInv, Up, Valid
<1>9. FlowInv'
  <2>1. \A c \in Browsers : calm'[c] = IF c = b THEN 0 ELSE calm[c]
    BY <1>6 DEF KeysInv, KeysTypeOK
  <2>2. \A q \in Requests : call'[q] = IF q = r THEN b ELSE call[q]
    BY <1>6 DEF KeysInv, KeysTypeOK
  <2>3. QED BY <1>6, <2>1, <2>2 DEF KeysInv, FlowInv
<1>10. CallbackIsOwn'
  BY <1>5 DEF CallbackIsOwn
<1>11. QED BY <1>7, <1>8, <1>9, <1>10 DEF KeysInv

LEMMA AnswerStep ==
  ASSUME NEW r \in Requests
  PROVE  KeysInv /\ (Answer(r) \/ LoseAnswer(r)) => KeysInv'
<1> SUFFICES ASSUME KeysInv, Answer(r) \/ LoseAnswer(r) PROVE KeysInv'
  OBVIOUS
<1> USE DEF Answer, LoseAnswer, operator
<1>1. call[r] \in Browsers
  BY DEF KeysInv, KeysTypeOK
<1>2. calm[call[r]] = 0
  BY <1>1 DEF KeysInv, FlowInv
<1>3. KeysTypeOK'
  <2>1. call' \in [Requests -> Browsers \cup {Null}]
    BY DEF KeysInv, KeysTypeOK
  <2>2. 0 \in 0..TokenBound
    BY KeysAssumption
  <2>3. cookie' \in [Browsers -> 0..TokenBound]
    BY <2>2 DEF KeysInv, KeysTypeOK
  <2>4. /\ tokens' = tokens /\ underway' = underway /\ calm' = calm
        /\ UNCHANGED <<operator, conf, clock, stranded, astray>>
    OBVIOUS
  <2>5. QED BY <2>1, <2>3, <2>4 DEF KeysInv, KeysTypeOK
<1>4. ShapeInv' /\ EnvInv' /\ PairInv' /\ KeptInv' /\ SinceInv' /\ CallbackIsOwn'
  BY DEF KeysInv, ShapeInv, EnvInv, PairInv, KeptInv, SinceInv, CallbackIsOwn, Up, Valid
<1>5. \A c \in Browsers : cookie'[c] = cookie[c] \/ (c = call[r] /\ cookie'[c] = 0)
  BY DEF KeysInv, KeysTypeOK
<1>6. CountInv'
  BY <1>5, FS_CardinalityType DEF KeysInv, CountInv
<1>7. FlowInv'
  <2>1. \A q \in Requests : call'[q] = IF q = r THEN Null ELSE call[q]
    BY DEF KeysInv, KeysTypeOK
  <2>2. \A t \in tokens : t.nonce # 0
    BY DEF KeysInv, KeysTypeOK, Token
  <2>3. QED BY <1>2, <1>5, <2>1, <2>2, KeysAssumption DEF KeysInv, FlowInv
<1>8. QED BY <1>3, <1>4, <1>6, <1>7 DEF KeysInv

-----------------------------------------------------------------------------
LEMMA KeysStep == KeysInv /\ [Next]_vars => KeysInv'
<1> SUFFICES ASSUME KeysInv, [Next]_vars PROVE KeysInv'
  OBVIOUS
<1>1. ASSUME NEW p \in Processes, Stop(p) PROVE KeysInv'
  BY <1>1, RunsStep DEF Stop
<1>2. ASSUME NEW p \in Processes, Boot(p) PROVE KeysInv'
  BY <1>2, RunsStep DEF Boot
<1>3. ASSUME NEW p \in Processes, SignAccessToken(p) PROVE KeysInv'
  <2> DEFINE t == Signed(conf[p], "access", AccessLife, Null, Null)
  <2>1. AccessLife \in 0..AccessLife
    BY KeysAssumption
  <2>2. IsSigned(p, t)
    BY <2>1 DEF IsSigned
  <2>3. /\ CanSign(p) /\ tokens' = tokens \cup {t} /\ underway' = underway
        /\ UNCHANGED <<operator, conf, clock, cookie, call, calm, stranded, astray>>
    BY <1>3 DEF SignAccessToken, flows, operator
  <2> HIDE DEF t
  <2>4. \A u : IsSigned(p, u) /\ tokens' = tokens \cup {u} => KeysInv'
    BY <1>3, <2>3, SignStep
  <2>5. QED BY <2>2, <2>3, <2>4
<1>4. ASSUME NEW p \in Processes, SignChallengeToken(p) PROVE KeysInv'
  <2> DEFINE t == Signed(conf[p], "challenge", ShortLife, Null, Null)
  <2>1. ShortLife \in 0..AccessLife
    BY KeysAssumption
  <2>2. IsSigned(p, t)
    BY <2>1 DEF IsSigned
  <2>3. /\ CanSign(p) /\ tokens' = tokens \cup {t} /\ underway' = underway
        /\ UNCHANGED <<operator, conf, clock, cookie, call, calm, stranded, astray>>
    BY <1>4 DEF SignChallengeToken, flows, operator
  <2> HIDE DEF t
  <2>4. \A u : IsSigned(p, u) /\ tokens' = tokens \cup {u} => KeysInv'
    BY <1>4, <2>3, SignStep
  <2>5. QED BY <2>2, <2>3, <2>4
<1>5. ASSUME NEW p \in Processes, NEW b \in Browsers, NEW v \in Providers,
             LoginStart(p, b, v) \/ LinkStart(p, b, v)
      PROVE  KeysInv'
  BY <1>5, BeginStep DEF LoginStart, LinkStart
<1>6. CASE UNCHANGED vars
  BY <1>6 DEF vars, operator, flows, KeysInv, KeysTypeOK, CountInv, ShapeInv, FlowInv, EnvInv,
              PairInv, KeptInv, SinceInv, CallbackIsOwn, Up, Valid
<1>7. QED
  BY <1>1, <1>2, <1>3, <1>4, <1>5, <1>6, AddPublicStep, SwapKidStep, SwapKeyStep,
     ChangedOverStep, DropOldStep, TickStep, PresentStep, CallbackStep, AnswerStep,
     ReceiveStep DEF Next

LEMMA KeysAlways == Spec => []KeysInv
BY KeysInit, KeysStep, PTL DEF Spec

-----------------------------------------------------------------------------
(* The keys, tokens and flows keep their types; every process that runs    *)
(* has settings that fit each other, and no two tokens share a nonce.      *)
THEOREM KeysTypeCorrect == Spec => []KeysTypeOK
<1>1. KeysInv => KeysTypeOK
  BY DEF KeysInv
<1>2. QED BY <1>1, KeysAlways, PTL

(* Throughout a rotation, whichever processes run and whenever they        *)
(* started, each of them honours every token until it expires.             *)
THEOREM RotationStrandsNobody == Spec => []TokensHonoured
<1>1. KeysInv => TokensHonoured
  BY DEF KeysInv, KeptInv, TokensHonoured, Verified, PublicKeyFor, Up
<1>2. QED BY <1>1, KeysAlways, PTL

(* A token passes only as what it was signed for, a callback only in the   *)
(* browser and for the provider of its flow, and the callback of a flow    *)
(* that is alone in its browser is not refused.                            *)
THEOREM FlowsKeepApart == Spec => []CallbackIsOwn
<1>1. KeysInv => CallbackIsOwn
  BY DEF KeysInv
<1>2. QED BY <1>1, KeysAlways, PTL
=============================================================================
