-------------------------- MODULE AdminActionsProofs --------------------------
(* Proofs about AdminActions, for any actions, targets, threads and times. *)
EXTENDS AdminActions, TLAPS

-----------------------------------------------------------------------------
(* The token a call carries: presented (minted, or signed with no          *)
(* configured key), and, once verified, minted for exactly this action and *)
(* target under the kernel's password and checked before it expired.       *)
Vouched(c) ==
    /\ c.token \in tokens
    /\ c.token.action = c.action /\ c.token.target = c.target
    /\ c.token.pw = kernel.password
    /\ c.at <= c.token.exp

TokenInv ==
    \A t \in Threads : call[t] # None =>
        /\ call[t].token \in tokens \/ call[t].token = None \/ call[t].token.pw = 0
        /\ call[t].pc = "verified" => Vouched(call[t])

-----------------------------------------------------------------------------
(* Type correctness. *)

(* The gate map a call reads is well formed, cached or fetched. *)
LEMMA MapReadType == TypeOK => MapRead \in GateMap
<1> SUFFICES ASSUME TypeOK PROVE MapRead \in GateMap
  OBVIOUS
<1>1. CASE CacheUsable
  BY <1>1 DEF TypeOK, MapRead, CacheUsable, GateCache
<1>2. FetchedMap \in GateMap
  BY DEF TypeOK, FetchedMap, GateMap, Settings
<1>3. CASE ~CacheUsable
  BY <1>2, <1>3 DEF MapRead
<1> QED BY <1>1, <1>3

(* What a model presents is token-shaped, minted or forged. *)
LEMMA PresentableType == TypeOK => Presentable \subseteq Token
  BY ActionsAssumption DEF TypeOK, Presentable, Forged, Token, Password

(* The call a plan or an execute opens is well formed. *)
LEMMA StartsType ==
    ASSUME TypeOK, NEW tok \in Token \cup {None}, NEW a \in Actions, NEW x \in Targets,
           NEW flag \in BOOLEAN
    PROVE  Starts(tok, a, x, flag) \in Call
<1>1. IsLate(a) \in BOOLEAN
  BY DEF IsLate
<1>2. ASSUME NEW late \in BOOLEAN, NEW m \in GateMap
      PROVE [pc |-> "fetched", map |-> m, token |-> tok, action |-> a, target |-> x,
             confirm |-> flag, did |-> FALSE, status |-> "error", late |-> late, at |-> 0] \in Call
  BY <1>2, ActionsAssumption DEF Call, Time, Status
<1> QED BY <1>1, <1>2, MapReadType DEF Starts

(* None is none of the records it stands beside. *)
LEMMA NoneDistinct ==
    /\ None \notin Token /\ None \notin GateMap /\ None \notin Call /\ None \notin Outcome
  BY ActionsAssumption

(* The outcome of a refused call is an outcome. *)
LEMMA RefuseType ==
    ASSUME TypeOK, NEW t \in Threads, Refuse(t)
    PROVE  /\ call' \in [Threads -> Call \cup {None}]
           /\ outcome' \in Outcome \cup {None}
<1>1. [did |-> FALSE, raised |-> FALSE, row |-> "none"] \in Outcome
  BY DEF Outcome
<1> QED BY <1>1 DEF Refuse, TypeOK

(* The gate check leaves a call or a refusal. *)
LEMMA EnabledType ==
    ASSUME TypeOK, NEW t \in Threads, NEW c \in Call, Enabled(t, c)
    PROVE  /\ call' \in [Threads -> Call \cup {None}]
           /\ outcome' \in Outcome \cup {None}
<1>1. CASE Refuse(t)
  BY <1>1, RefuseType
<1>2. CASE ~Refuse(t)
  <2>1. /\ call' = [call EXCEPT ![t] = [c EXCEPT !.pc = "gated", !.map = None]]
        /\ outcome' = None
    BY <1>2 DEF Enabled
  <2>2. [c EXCEPT !.pc = "gated", !.map = None] \in Call
    BY DEF Call
  <2> QED BY <2>1, <2>2 DEF TypeOK
<1> QED BY <1>1, <1>2

(* Entering the gate, from the cache or by a fetch, keeps the types. *)
LEMMA EnterGateType ==
    ASSUME TypeOK, NEW t \in Threads, NEW c \in Call, EnterGate(t, c)
    PROVE  /\ call' \in [Threads -> Call \cup {None}]
           /\ outcome' \in Outcome \cup {None}
           /\ gateCache' \in GateCache
<1>1. CASE CacheUsable /\ Enabled(t, c) /\ UNCHANGED gateCache
  BY <1>1, EnabledType DEF TypeOK
<1>2. CASE /\ gateCache' = [gateCache EXCEPT !.at = now]
           /\ call' = [call EXCEPT ![t] = c] /\ outcome' = None
  BY <1>2 DEF TypeOK, GateCache
<1> QED BY <1>1, <1>2 DEF EnterGate

(* The initial state is well typed. *)
LEMMA TypeInit == Init => TypeOK
<1> SUFFICES ASSUME Init PROVE TypeOK
  OBVIOUS
<1> USE ActionsAssumption DEF Init
<1>1. 0 \in Time /\ 0 \in Password /\ 1 \in Password
  BY DEF Time, Password
<1>2. live \in Settings
  <2>1. live \in [password : {0, 1}, red : {TRUE}, gates : {{}, Actions}]
    OBVIOUS
  <2> QED BY ONLY <1>1, <2>1 DEF Settings
<1>3. gateCache \in GateCache
  BY <1>1 DEF GateCache
<1>4. offSince \in [Actions -> Time] /\ call \in [Threads -> Call \cup {None}]
  BY <1>1
<1>5. kernel \in Settings
  BY <1>2
<1> QED BY <1>1, <1>2, <1>3, <1>4, <1>5 DEF TypeOK

(* Every operation of plan and execute, and every change the administrator *)
(* makes, keeps the state within its types.                                *)
LEMMA TypeStep == TypeOK /\ TokenInv /\ [Next]_vars => TypeOK'
<1> SUFFICES ASSUME TypeOK, TokenInv, [Next]_vars PROVE TypeOK'
  OBVIOUS
<1>0. ASSUME NEW t \in Threads, call[t] # None
      PROVE call[t] \in Call /\ call[t].did \in BOOLEAN /\ call[t].token \in Token \cup {None}
            /\ call[t].action \in Actions /\ call[t].target \in Targets
  BY <1>0 DEF TypeOK, Call
<1>1. ASSUME NEW t \in Threads, NEW a \in Actions, NEW x \in Targets, PlanGates(t, a, x)
      PROVE TypeOK'
  <2>1. Starts(None, a, x, FALSE) \in Call
    BY StartsType
  <2>2. EnterGate(t, Starts(None, a, x, FALSE))
    BY <1>1 DEF PlanGates
  <2>3. /\ call' \in [Threads -> Call \cup {None}] /\ outcome' \in Outcome \cup {None}
        /\ gateCache' \in GateCache
    BY <2>1, <2>2, EnterGateType
  <2> QED BY <1>1, <2>3 DEF PlanGates, TypeOK
<1>2. ASSUME NEW t \in Threads, NEW planned \in BOOLEAN, PlanMint(t, planned) PROVE TypeOK'
  <2>1. Mint(call[t].action, call[t].target) \in Token
    BY <1>0, <1>2, ActionsAssumption DEF PlanMint, Mint, Token, Time, Settings, TypeOK
  <2>2. tokens' \subseteq Token
    BY <1>2, <2>1 DEF PlanMint, TypeOK
  <2> QED BY <1>2, <2>2 DEF PlanMint, TypeOK
<1>3. ASSUME NEW t \in Threads, StoreMap(t) PROVE TypeOK'
  <2>1. call[t] \in Call /\ call[t].map \in GateMap \cup {None}
    BY <1>0, <1>3 DEF StoreMap, Call
  <2>2. call' \in [Threads -> Call \cup {None}] /\ outcome' \in Outcome \cup {None}
    BY <1>3, <2>1, EnabledType DEF StoreMap
  <2>3. gateCache' \in GateCache
    BY <1>3, <2>1 DEF StoreMap, GateCache, TypeOK
  <2> QED BY <1>3, <2>2, <2>3 DEF StoreMap, TypeOK
<1>4. ASSUME NEW t \in Threads, NEW tok \in Presentable, NEW a \in Actions, NEW x \in Targets,
             NEW flag \in BOOLEAN, ExecuteGates(t, tok, a, x, flag)
      PROVE TypeOK'
  <2>1. Starts(tok, a, x, flag) \in Call
    BY PresentableType, StartsType
  <2>2. /\ call' \in [Threads -> Call \cup {None}] /\ outcome' \in Outcome \cup {None}
        /\ gateCache' \in GateCache
    <3>1. CASE EnterGate(t, Starts(tok, a, x, flag))
      BY <2>1, <3>1, EnterGateType
    <3>2. CASE Refuse(t) /\ UNCHANGED gateCache
      BY <3>2, RefuseType DEF TypeOK
    <3> QED BY <1>4, <3>1, <3>2 DEF ExecuteGates
  <2> QED BY <1>4, <2>2 DEF ExecuteGates, TypeOK
<1>5. ASSUME NEW t \in Threads, ExecuteVerify(t) PROVE TypeOK'
  <2>1. call' \in [Threads -> Call \cup {None}] /\ outcome' \in Outcome \cup {None}
    <3>1. CASE Refuse(t)
      BY <3>1, RefuseType
    <3>2. CASE ~Refuse(t)
      <4>1. call[t] \in Call /\ now \in Time
        BY <1>0, <1>5 DEF ExecuteVerify, TypeOK
      <4>2. [call[t] EXCEPT !.pc = "verified", !.at = now] \in Call
        BY <4>1 DEF Call
      <4>3. /\ call' = [call EXCEPT ![t] = [call[t] EXCEPT !.pc = "verified", !.at = now]]
            /\ outcome' = None
        BY <1>5, <3>2 DEF ExecuteVerify
      <4> QED BY <4>2, <4>3 DEF TypeOK
    <3> QED BY <3>1, <3>2
  <2> QED BY <1>5, <2>1 DEF ExecuteVerify, TypeOK
<1>6. ASSUME NEW t \in Threads, NEW did \in BOOLEAN, NEW status \in Status, Executor(t, did, status)
      PROVE TypeOK'
  <2>1. call[t] \in Call
    BY <1>0, <1>6 DEF Executor
  <2>2. [call[t] EXCEPT !.pc = "done", !.did = did, !.status = status] \in Call
    BY <2>1 DEF Call
  <2>3. call' = [call EXCEPT ![t] = [call[t] EXCEPT !.pc = "done", !.did = did, !.status = status]]
    BY <1>6 DEF Executor
  <2>4. call' \in [Threads -> Call \cup {None}]
    BY <2>2, <2>3 DEF TypeOK
  <2> QED BY <1>6, <2>4 DEF Executor, TypeOK
<1>7. ASSUME NEW t \in Threads, NEW stored \in BOOLEAN, Record(t, stored) PROVE TypeOK'
  <2>1. call[t] \in Call
    BY <1>0, <1>7 DEF Record
  <2>2. outcome' \in Outcome
    BY <1>7, <2>1 DEF Record, Outcome, Reported, Call, Status
  <2> QED BY <1>7, <2>2 DEF Record, TypeOK
<1>8. CASE KernelRecycle
  <2>1. gateCache' \in GateCache
    BY <1>8, ActionsAssumption DEF KernelRecycle, GateCache, Time
  <2> QED BY <1>8, <2>1 DEF KernelRecycle, TypeOK
<1>9. CASE AdminRotatesPassword
  <2>1. live' \in Settings
    BY <1>9, ActionsAssumption DEF AdminRotatesPassword, Settings, Password, TypeOK
  <2> QED BY <1>9, <2>1 DEF AdminRotatesPassword, TypeOK
<1>10. CASE AdminTogglesMasterSwitch
  <2>1. live' \in Settings
    BY <1>10 DEF AdminTogglesMasterSwitch, Settings, TypeOK
  <2> QED BY <1>10, <2>1 DEF AdminTogglesMasterSwitch, TypeOK
<1>11. ASSUME NEW a \in Actions, AdminTogglesGate(a) PROVE TypeOK'
  <2>1. live' \in Settings
    BY <1>11 DEF AdminTogglesGate, Settings, TypeOK
  <2>2. offSince' \in [Actions -> Time]
    BY <1>11, ActionsAssumption DEF AdminTogglesGate, Time, TypeOK
  <2> QED BY <1>11, <2>1, <2>2 DEF AdminTogglesGate, TypeOK
<1>12. CASE BackendStopsOrStarts
  <2>1. backendUp' \in BOOLEAN
    BY ONLY <1>12 DEF BackendStopsOrStarts
  <2> QED BY <1>12, <2>1 DEF BackendStopsOrStarts, TypeOK
<1>13. CASE Tick
  BY <1>13, ActionsAssumption DEF Tick, Time, TypeOK
<1>14. CASE UNCHANGED vars
  BY <1>14 DEF vars, TypeOK
<1> QED
  BY <1>1, <1>2, <1>3, <1>4, <1>5, <1>6, <1>7, <1>8, <1>9, <1>10, <1>11, <1>12, <1>13, <1>14
  DEF Next, Plan, Execute, Environment

-----------------------------------------------------------------------------
(* Tokens. *)

(* Moving a call on keeps what the other fields say. *)
LEMMA CallFields ==
    ASSUME NEW c \in Call, NEW time, NEW did, NEW status
    PROVE  /\ LET g == [c EXCEPT !.pc = "gated", !.map = None]
              IN  g.pc = "gated" /\ g.token = c.token /\ g.did = c.did /\ g.late = c.late
           /\ LET v == [c EXCEPT !.pc = "verified", !.at = time]
              IN  /\ v.pc = "verified" /\ v.token = c.token /\ v.did = c.did /\ v.late = c.late
                  /\ v.action = c.action /\ v.target = c.target /\ v.at = time
           /\ LET d == [c EXCEPT !.pc = "done", !.did = did, !.status = status]
              IN  d.pc = "done" /\ d.token = c.token /\ d.late = c.late
  BY DEF Call

(* A call that opens carries the token it was given and no effect. *)
LEMMA StartsFields ==
    ASSUME NEW tok, NEW a, NEW x, NEW flag
    PROVE  /\ Starts(tok, a, x, flag).pc = "fetched" /\ Starts(tok, a, x, flag).token = tok
           /\ Starts(tok, a, x, flag).action = a /\ Starts(tok, a, x, flag).map = MapRead
           /\ Starts(tok, a, x, flag).late = IsLate(a)
  BY DEF Starts

(* The calls a gate check leaves: the others, and c moved on or refused. *)
LEMMA EnabledCalls ==
    ASSUME TypeOK, NEW t \in Threads, NEW c \in Call, Enabled(t, c), NEW u \in Threads, call'[u] # None
    PROVE  call'[u] = call[u]
           \/ (/\ u = t /\ call'[t] = [c EXCEPT !.pc = "gated", !.map = None]
               /\ c.action \in c.map.gates)
  BY DEF Enabled, Refuse, TypeOK

(* The calls entering the gate leaves. *)
LEMMA EnterGateCalls ==
    ASSUME TypeOK, NEW t \in Threads, NEW c \in Call, EnterGate(t, c), NEW u \in Threads, call'[u] # None
    PROVE  call'[u] = call[u]
           \/ (/\ u = t /\ CacheUsable /\ call'[t] = [c EXCEPT !.pc = "gated", !.map = None]
               /\ c.action \in c.map.gates)
           \/ (/\ u = t /\ ~CacheUsable /\ call'[t] = c)
<1>1. CASE CacheUsable /\ Enabled(t, c)
  BY <1>1, EnabledCalls
<1>2. CASE ~CacheUsable
  BY <1>2 DEF EnterGate, TypeOK
<1> QED BY <1>1, <1>2 DEF EnterGate

(* Every step keeps the calls' tokens presented and the verified ones      *)
(* vouched for: tokens are never withdrawn, and the kernel's password only *)
(* changes when its calls die.                                             *)
LEMMA TokenStep == TypeOK /\ TokenInv /\ [Next]_vars => TokenInv'
<1> SUFFICES ASSUME TypeOK, TokenInv, [Next]_vars, NEW u \in Threads, call'[u] # None
             PROVE  /\ call'[u].token \in tokens' \/ call'[u].token = None \/ call'[u].token.pw = 0
                    /\ call'[u].pc = "verified" => Vouched(call[u])'
  BY DEF TokenInv
<1> DEFINE Goal == /\ call'[u].token \in tokens' \/ call'[u].token = None \/ call'[u].token.pw = 0
                   /\ call'[u].pc = "verified" => Vouched(call[u])'
<1>a. ASSUME call'[u] = call[u], kernel' = kernel, tokens \subseteq tokens' PROVE Goal
  BY <1>a DEF TokenInv, Vouched
<1>b. ASSUME NEW t \in Threads, NEW c \in Call, tokens' = tokens, kernel' = kernel,
             c.token \in tokens \/ c.token = None \/ c.token.pw = 0, c.pc = "fetched",
             \/ call'[u] = call[u] \/ call'[u] = c
             \/ call'[u] = [c EXCEPT !.pc = "gated", !.map = None]
      PROVE Goal
  <2>1. CASE call'[u] = call[u]
    BY <1>a, <1>b, <2>1
  <2>2. CASE call'[u] = c
    BY <1>b, <2>2
  <2>3. CASE call'[u] = [c EXCEPT !.pc = "gated", !.map = None]
    BY <1>b, <2>3, CallFields
  <2> QED BY <1>b, <2>1, <2>2, <2>3
<1>1. ASSUME NEW t \in Threads, NEW a \in Actions, NEW x \in Targets, PlanGates(t, a, x)
      PROVE Goal
  <2>1. Starts(None, a, x, FALSE) \in Call
    BY StartsType
  <2>2. EnterGate(t, Starts(None, a, x, FALSE)) /\ tokens' = tokens /\ kernel' = kernel
    BY <1>1 DEF PlanGates
  <2>3. Starts(None, a, x, FALSE).token = None /\ Starts(None, a, x, FALSE).pc = "fetched"
    BY DEF Starts
  <2> HIDE DEF Goal
  <2> QED BY <1>b, <2>1, <2>2, <2>3, EnterGateCalls
<1>2. ASSUME NEW t \in Threads, NEW planned \in BOOLEAN, PlanMint(t, planned) PROVE Goal
  BY <1>a, <1>2 DEF PlanMint, TypeOK
<1>3. ASSUME NEW t \in Threads, StoreMap(t) PROVE Goal
  <2>1. call[t] \in Call /\ call[t].pc = "fetched" /\ Enabled(t, call[t])
        /\ tokens' = tokens /\ kernel' = kernel
    BY <1>3 DEF StoreMap, TypeOK
  <2>2. call[t].token \in tokens \/ call[t].token = None \/ call[t].token.pw = 0
    BY <1>3 DEF StoreMap, TokenInv
  <2> HIDE DEF Goal
  <2> QED BY <1>b, <2>1, <2>2, EnabledCalls
<1>4. ASSUME NEW t \in Threads, NEW tok \in Presentable, NEW a \in Actions, NEW x \in Targets,
             NEW flag \in BOOLEAN, ExecuteGates(t, tok, a, x, flag)
      PROVE Goal
  <2>1. Starts(tok, a, x, flag) \in Call
    BY PresentableType, StartsType
  <2>2. tokens' = tokens /\ kernel' = kernel
    BY <1>4 DEF ExecuteGates
  <2>3. tok \in tokens \/ tok.pw = 0
    <3>1. CASE tok \notin tokens
      <4>1. PICK b \in Actions, y \in Targets : tok = Forged(b, y)
        BY <3>1 DEF Presentable
      <4> QED BY <4>1 DEF Forged
    <3> QED BY <3>1
  <2>4. CASE EnterGate(t, Starts(tok, a, x, flag))
    <3>1. Starts(tok, a, x, flag).token = tok /\ Starts(tok, a, x, flag).pc = "fetched"
      BY StartsFields
    <3> DEFINE c == Starts(tok, a, x, flag)
    <3>2. c.token \in tokens \/ c.token = None \/ c.token.pw = 0
      BY <2>3, <3>1
    <3>3. \/ call'[u] = call[u] \/ call'[u] = c
          \/ call'[u] = [c EXCEPT !.pc = "gated", !.map = None]
      BY <2>1, <2>4, EnterGateCalls
    <3> HIDE DEF Goal
    <3> QED BY <1>b, <2>1, <2>2, <3>1, <3>2, <3>3
  <2>5. CASE Refuse(t)
    BY <1>a, <2>2, <2>5 DEF Refuse, TypeOK
  <2> QED BY <1>4, <2>4, <2>5 DEF ExecuteGates
<1>5. ASSUME NEW t \in Threads, ExecuteVerify(t) PROVE Goal
  <2>1. tokens' = tokens /\ kernel' = kernel
    BY <1>5 DEF ExecuteVerify
  <2>2. CASE call'[u] = call[u]
    BY <1>a, <2>1, <2>2
  <2>3. CASE call'[u] # call[u]
    <3>1. /\ u = t /\ call[t] \in Call /\ Valid(call[t]) /\ call[t].token # None
          /\ call'[t] = [call[t] EXCEPT !.pc = "verified", !.at = now]
      BY <1>5, <2>3 DEF ExecuteVerify, Refuse, TypeOK
    <3>2. call[t].token \in tokens /\ call[t].token \in Token
      BY <1>5, <3>1 DEF TokenInv, Valid, TypeOK, ExecuteVerify
    <3>3. now <= call[t].token.exp
      BY <3>1, <3>2, ActionsAssumption DEF Valid, TypeOK, Time, Token
    <3>4. /\ call'[u].pc = "verified" /\ call'[u].token = call[t].token /\ call'[u].at = now
          /\ call'[u].action = call[t].action /\ call'[u].target = call[t].target
      BY <3>1, CallFields
    <3>5. /\ call[t].token.pw = kernel.password
          /\ call[t].token.action = call[t].action /\ call[t].token.target = call[t].target
      BY <3>1 DEF Valid
    <3>6. Vouched(call[u])'
      BY <2>1, <3>2, <3>3, <3>4, <3>5 DEF Vouched
    <3> QED BY <2>1, <3>2, <3>4, <3>6
  <2> QED BY <2>2, <2>3
<1>6. ASSUME NEW t \in Threads, NEW did \in BOOLEAN, NEW status \in Status, Executor(t, did, status)
      PROVE Goal
  <2>1. tokens' = tokens /\ kernel' = kernel
    BY <1>6 DEF Executor
  <2>2. CASE u # t
    <3>1. call'[u] = call[u]
      BY <1>6, <2>2 DEF Executor, TypeOK
    <3> QED BY <1>a, <2>1, <3>1
  <2>3. CASE u = t
    <3>1. /\ call[t] \in Call /\ call[t] # None
          /\ call'[t] = [call[t] EXCEPT !.pc = "done", !.did = did, !.status = status]
      BY <1>6 DEF Executor, TypeOK
    <3>2. call'[u].pc = "done" /\ call'[u].token = call[t].token
      BY <2>3, <3>1, CallFields
    <3> QED BY <2>1, <2>3, <3>1, <3>2 DEF TokenInv
  <2> QED BY <2>2, <2>3
<1>7. ASSUME NEW t \in Threads, NEW stored \in BOOLEAN, Record(t, stored) PROVE Goal
  BY <1>a, <1>7 DEF Record, TypeOK
<1>8. CASE KernelRecycle
  BY <1>8 DEF KernelRecycle
<1>9. CASE Environment /\ ~KernelRecycle
  BY <1>a, <1>9 DEF Environment, AdminRotatesPassword, AdminTogglesMasterSwitch, AdminTogglesGate,
     BackendStopsOrStarts, Tick
<1>10. CASE UNCHANGED vars
  BY <1>a, <1>10 DEF vars
<1> QED
  BY <1>1, <1>2, <1>3, <1>4, <1>5, <1>6, <1>7, <1>8, <1>9, <1>10 DEF Next, Plan, Execute

(* The facts about tokens hold together with the types. *)
LEMMA TokensVouched == Spec => [](TypeOK /\ TokenInv)
<1>1. Init => TypeOK /\ TokenInv
  BY TypeInit DEF Init, TokenInv
<1>2. TypeOK /\ TokenInv /\ [Next]_vars => (TypeOK /\ TokenInv)'
  BY TypeStep, TokenStep
<1> QED BY <1>1, <1>2, PTL DEF Spec

(* The plan / confirm / execute state is well typed in every behaviour. *)
THEOREM TypeCorrect == Spec => []TypeOK
  BY TokensVouched, PTL

(* Only an executor has an effect, on a call whose token is vouched for,   *)
(* and a red one only past the backend's own gate.                         *)
LEMMA EffectIsVouched ==
    ASSUME TypeOK, TokenInv, [Next]_vars, NEW t \in Threads, Effect(t)
    PROVE  Vouched(call[t]) /\ (call[t].action \in RedActions => RedUnlocked)
<1> DEFINE Goal == Vouched(call[t]) /\ (call[t].action \in RedActions => RedUnlocked)
<1>0. /\ call[t] \in Call /\ call'[t] # None /\ call'[t] # call[t] /\ call'[t].did # call[t].did
      /\ call[t] # None /\ call'[t].did /\ ~call[t].did
  BY DEF Effect, TypeOK
<1>1. ASSUME NEW u \in Threads, NEW c \in Call, EnterGate(u, c), call[u] = None PROVE FALSE
  BY <1>0, <1>1, EnterGateCalls
<1>2. ASSUME NEW u \in Threads, Plan(u) PROVE FALSE
  <2>1. ASSUME NEW a \in Actions, NEW x \in Targets, PlanGates(u, a, x) PROVE FALSE
    <3>1. Starts(None, a, x, FALSE) \in Call
      BY StartsType
    <3> QED BY <1>1, <2>1, <3>1 DEF PlanGates
  <2>2. ASSUME NEW planned \in BOOLEAN, PlanMint(u, planned) PROVE FALSE
    BY <1>0, <2>2 DEF PlanMint, TypeOK
  <2> QED BY <1>2, <2>1, <2>2 DEF Plan
<1>3. ASSUME NEW u \in Threads, StoreMap(u) PROVE FALSE
  <2>1. call[u] \in Call /\ Enabled(u, call[u])
    BY <1>3 DEF StoreMap, TypeOK
  <2>2. u = t /\ call'[t] = [call[t] EXCEPT !.pc = "gated", !.map = None]
    BY <1>0, <2>1, EnabledCalls
  <2> QED BY <1>0, <2>2, CallFields
<1>4. ASSUME NEW u \in Threads, Execute(u) PROVE Goal
  <2>1. ASSUME NEW tok \in Presentable, NEW a \in Actions, NEW x \in Targets,
               NEW flag \in BOOLEAN, ExecuteGates(u, tok, a, x, flag)
        PROVE FALSE
    <3>1. Starts(tok, a, x, flag) \in Call
      BY PresentableType, StartsType
    <3>2. CASE Refuse(u)
      BY <1>0, <3>2 DEF Refuse, TypeOK
    <3> QED BY <1>1, <2>1, <3>1, <3>2 DEF ExecuteGates
  <2>2. ASSUME ExecuteVerify(u) PROVE FALSE
    <3>1. u = t /\ call'[t] = [call[t] EXCEPT !.pc = "verified", !.at = now]
      BY <1>0, <2>2 DEF ExecuteVerify, Refuse, TypeOK
    <3> QED BY <1>0, <3>1, CallFields
  <2>3. ASSUME NEW did \in BOOLEAN, NEW status \in Status, Executor(u, did, status) PROVE Goal
    <3>1. u = t
      BY <1>0, <2>3 DEF Executor, TypeOK
    <3>2. call[t].pc = "verified" /\ (did /\ call[t].action \in RedActions => RedUnlocked)
      BY <2>3, <3>1 DEF Executor
    <3>3. call'[t] = [call[t] EXCEPT !.pc = "done", !.did = did, !.status = status]
      BY <2>3, <3>1 DEF Executor, TypeOK
    <3>4. did
      BY <1>0, <3>3 DEF Call
    <3> QED BY <1>0, <3>2, <3>4 DEF TokenInv
  <2>4. ASSUME NEW stored \in BOOLEAN, Record(u, stored) PROVE FALSE
    BY <1>0, <2>4 DEF Record, TypeOK
  <2> QED BY <1>4, <2>1, <2>2, <2>3, <2>4 DEF Execute
<1>5. CASE Environment
  BY <1>0, <1>5 DEF Environment, KernelRecycle, AdminRotatesPassword, AdminTogglesMasterSwitch,
     AdminTogglesGate, BackendStopsOrStarts, Tick
<1>6. CASE UNCHANGED vars
  BY <1>0, <1>6 DEF vars
<1> QED BY <1>2, <1>3, <1>4, <1>5, <1>6 DEF Next

(* An agent executes only plans it was shown: every effect is for an       *)
(* action and target a token was minted for, checked before its expiry.    *)
THEOREM PlannedEffectsOnly == Spec => OnlyPlannedEffects
<1> DEFINE Planned(t) == Effect(t) =>
             \E tok \in tokens : /\ tok.action = call[t].action /\ tok.target = call[t].target
                                 /\ call[t].at <= tok.exp
<1>1. TypeOK /\ TokenInv /\ [Next]_vars => [\A t \in Threads : Planned(t)]_vars
  BY EffectIsVouched DEF Vouched
<1>2. Spec => [][\A t \in Threads : Planned(t)]_vars
  BY <1>1, TokensVouched, PTL DEF Spec
<1> QED BY <1>2 DEF OnlyPlannedEffects

(* A red action never takes effect under a token of a rotated password.    *)
THEOREM RotationStopsRed == Spec => RotationStopsRedActions
<1> DEFINE Current(t) == Effect(t) /\ call[t].action \in RedActions =>
                           call[t].token.pw = live.password
<1>1. TypeOK /\ TokenInv /\ [Next]_vars => [\A t \in Threads : Current(t)]_vars
  BY EffectIsVouched DEF Vouched, RedUnlocked
<1>2. Spec => [][\A t \in Threads : Current(t)]_vars
  BY <1>1, TokensVouched, PTL DEF Spec
<1> QED BY <1>2 DEF RotationStopsRedActions
-----------------------------------------------------------------------------
(* The gates, for a kernel that runs one tool call at a time.              *)

(* Whatever the cache still allows after a revocation it was filled before *)
(* that revocation, except while the one call in flight is between writing *)
(* the timestamp and writing the map; the map that call holds is as fresh  *)
(* as the timestamp.                                                       *)
Allowed(m, a) == m # None /\ ~m.offline /\ a \in m.gates /\ a \notin live.gates

Fetching == \E t \in Threads : call[t] # None /\ call[t].pc = "fetched"

GateInv ==
    /\ gateCache.at <= now
    /\ \A a \in Actions : offSince[a] <= now
    /\ \A a \in Actions : Allowed(gateCache.map, a) => gateCache.at <= offSince[a] \/ Fetching
    /\ \A t \in Threads : call[t] # None /\ call[t].pc = "fetched" =>
          /\ call[t].map # None
          /\ \A a \in Actions : Allowed(call[t].map, a) => gateCache.at <= offSince[a]
          /\ call[t].late => call[t].action \notin call[t].map.gates
    /\ RevocationReachesKernel

(* A map read through a usable cache, with nobody fetching, is not late;   *)
(* a map just fetched from the backend is the live one.                    *)
LEMMA ReadInTime ==
    ASSUME TypeOK, GateInv, ~Fetching, NEW a \in Actions, a \in MapRead.gates
    PROVE  ~IsLate(a)
<1> SUFFICES ASSUME IsLate(a) PROVE FALSE
  OBVIOUS
<1>1. CASE CacheUsable
  <2>1. Allowed(gateCache.map, a)
    BY <1>1 DEF IsLate, MapRead, Allowed, CacheUsable
  <2>2. gateCache.at <= offSince[a]
    BY <2>1 DEF GateInv
  <2>3. now - gateCache.at < GateTTL /\ now - offSince[a] >= GateTTL
    BY <1>1 DEF CacheUsable, IsLate
  <2> QED BY <2>2, <2>3, ActionsAssumption DEF TypeOK, Time, GateCache
<1>2. CASE ~CacheUsable
  <2>1. ~FetchedMap.offline /\ a \in FetchedMap.gates /\ a \notin live.gates
    BY <1>2 DEF IsLate, MapRead
  <2> QED BY <2>1 DEF FetchedMap, TypeOK
<1> QED BY <1>1, <1>2

(* The gate invariant needs there to be one thread: with two, one fills    *)
(* the timestamp under the other's eyes.                                   *)
LEMMA GateEntered ==
    ASSUME TypeOK, GateInv, \A u, v \in Threads : u = v, NEW t \in Threads, call[t] = None,
           NEW tok, NEW a \in Actions, NEW x, NEW flag, Starts(tok, a, x, flag) \in Call,
           EnterGate(t, Starts(tok, a, x, flag)),
           UNCHANGED <<now, live, kernel, backendUp, offSince>>
    PROVE  GateInv'
<1> DEFINE c == Starts(tok, a, x, flag)
<1>0. ~Fetching /\ \A u \in Threads : u = t
  BY DEF Fetching
<1>1. c.pc = "fetched" /\ c.action = a /\ c.map = MapRead /\ c.late = IsLate(a)
  BY DEF Starts
<1>2. a \in MapRead.gates => ~IsLate(a)
  BY <1>0, ReadInTime
<1>3. CASE CacheUsable
  <2>1. gateCache' = gateCache
    BY <1>3 DEF EnterGate
  <2>2. ASSUME NEW u \in Threads, call'[u] # None
        PROVE call'[u].pc = "gated" /\ ~call'[u].late
    <3>1. u = t /\ call'[u] = [c EXCEPT !.pc = "gated", !.map = None] /\ a \in MapRead.gates
      <4>1. u = t /\ c \in Call /\ EnterGate(t, c) /\ call'[u] # call[u]
        BY <1>0, <2>2
      <4> HIDE DEF c
      <4>2. call'[u] = [c EXCEPT !.pc = "gated", !.map = None] /\ c.action \in c.map.gates
        BY <1>3, <2>2, <4>1, EnterGateCalls
      <4> QED BY <1>1, <4>1, <4>2
    <3>2. [c EXCEPT !.pc = "gated", !.map = None].pc = "gated"
          /\ [c EXCEPT !.pc = "gated", !.map = None].late = c.late
      BY CallFields
    <3> QED BY <1>1, <1>2, <3>1, <3>2
  <2> QED BY <1>0, <2>1, <2>2 DEF GateInv, Allowed, Fetching, RevocationReachesKernel
<1>4. CASE ~CacheUsable
  <2>1. gateCache' = [gateCache EXCEPT !.at = now] /\ call' = [call EXCEPT ![t] = c]
    BY <1>4 DEF EnterGate
  <2>2. call'[t] = c /\ gateCache'.at = now /\ gateCache'.map = gateCache.map
    BY <2>1 DEF TypeOK, GateCache
  <2>3. c.map = FetchedMap /\ c.map # None /\ c # None
    BY <1>1, <1>4, MapReadType, NoneDistinct DEF MapRead
  <2>4. \A b \in Actions : ~Allowed(c.map, b)
    <3>1. ASSUME NEW b \in Actions, ~FetchedMap.offline, b \in FetchedMap.gates PROVE b \in live.gates
      BY <3>1 DEF FetchedMap, TypeOK
    <3> HIDE DEF c
    <3> QED BY <2>3, <3>1 DEF Allowed
  <2>5. Fetching'
    BY <1>1, <2>2, <2>3 DEF Fetching
  <2>6. c.late => c.action \notin c.map.gates
    BY <1>1, <1>2
  <2>7. now' = now /\ live' = live /\ offSince' = offSince
    OBVIOUS
  <2>8. (gateCache.at <= now)' /\ (\A b \in Actions : offSince[b] <= now)'
    BY <2>2, <2>7 DEF GateInv, TypeOK, Time
  <2>9. ASSUME NEW u \in Threads, call'[u].pc = "fetched"
        PROVE /\ call'[u].map # None
              /\ \A b \in Actions : ~Allowed(call[u].map, b)'
              /\ call'[u].late => call'[u].action \notin call'[u].map.gates
    BY <1>0, <2>2, <2>3, <2>4, <2>6, <2>7 DEF Allowed
  <2>10. RevocationReachesKernel'
    BY <1>0, <1>1, <2>2 DEF RevocationReachesKernel
  <2> QED BY <2>5, <2>8, <2>9, <2>10 DEF GateInv
<1> QED BY <1>3, <1>4

(* Steps that leave the calls' maps, the cache and the gates alone.        *)
LEMMA GateFrame ==
    ASSUME TypeOK, GateInv, UNCHANGED <<now, live, gateCache, offSince>>,
           \A t \in Threads : \/ call'[t] = None
                              \/ call'[t] = call[t]
                              \/ /\ call[t] # None /\ call'[t].pc # "fetched"
                                 /\ call[t].pc # "fetched" /\ call'[t].late = call[t].late,
           \A t \in Threads : call[t] # None /\ call[t].pc = "fetched" => call'[t] = call[t]
    PROVE  GateInv'
<1>1. Fetching => Fetching'
  BY DEF Fetching
<1>2. RevocationReachesKernel'
  BY DEF GateInv, RevocationReachesKernel
<1> QED BY <1>1, <1>2 DEF GateInv, Allowed

(* Every step of a one-call-at-a-time kernel keeps the gate invariant. *)
LEMMA GateStep ==
    ASSUME \A u, v \in Threads : u = v
    PROVE  TypeOK /\ GateInv /\ [Next]_vars => GateInv'
<1> SUFFICES ASSUME TypeOK, GateInv, [Next]_vars PROVE GateInv'
  OBVIOUS
<1>1. ASSUME NEW t \in Threads, NEW a \in Actions, NEW x \in Targets, PlanGates(t, a, x)
      PROVE GateInv'
  <2>1. Starts(None, a, x, FALSE) \in Call
    BY StartsType
  <2> QED BY <1>1, <2>1, GateEntered DEF PlanGates
<1>2. ASSUME NEW t \in Threads, NEW planned \in BOOLEAN, PlanMint(t, planned) PROVE GateInv'
  BY <1>2, GateFrame DEF PlanMint, TypeOK
<1>3. ASSUME NEW t \in Threads, StoreMap(t) PROVE GateInv'
  <2>1. call[t] \in Call /\ call[t] # None /\ call[t].pc = "fetched" /\ Enabled(t, call[t])
    BY <1>3 DEF StoreMap, TypeOK
  <2>2. gateCache'.at = gateCache.at /\ gateCache'.map = call[t].map
    BY <1>3 DEF StoreMap, TypeOK, GateCache
  <2>3. now' = now /\ live' = live /\ offSince' = offSince
    BY <1>3 DEF StoreMap
  <2>4. ASSUME NEW u \in Threads, call'[u] # None PROVE call'[u].pc = "gated" /\ ~call'[u].late
    <3>1. u = t
      OBVIOUS
    <3>2. call'[t] = [call[t] EXCEPT !.pc = "gated", !.map = None]
          /\ call[t].action \in call[t].map.gates
      BY <2>1, <2>4, <3>1 DEF Enabled, Refuse, TypeOK
    <3>3. ~call[t].late
      BY <2>1, <3>2 DEF GateInv
    <3> QED BY <2>1, <3>1, <3>2, <3>3, CallFields
  <2>5. \A a \in Actions : Allowed(call[t].map, a) => gateCache.at <= offSince[a]
    BY <2>1 DEF GateInv
  <2>6. \A a \in Actions : Allowed(gateCache.map, a)' => gateCache'.at <= offSince'[a]
    BY <2>2, <2>3, <2>5 DEF Allowed
  <2> QED BY <2>2, <2>3, <2>4, <2>6 DEF GateInv, RevocationReachesKernel
<1>4. ASSUME NEW t \in Threads, NEW tok \in Presentable, NEW a \in Actions, NEW x \in Targets,
             NEW flag \in BOOLEAN, ExecuteGates(t, tok, a, x, flag)
      PROVE GateInv'
  <2>1. Starts(tok, a, x, flag) \in Call
    BY PresentableType, StartsType
  <2>2. CASE EnterGate(t, Starts(tok, a, x, flag))
    BY <1>4, <2>1, <2>2, GateEntered DEF ExecuteGates
  <2>3. CASE Refuse(t) /\ UNCHANGED gateCache
    BY <1>4, <2>3, GateFrame DEF ExecuteGates, Refuse, TypeOK
  <2> QED BY <1>4, <2>2, <2>3 DEF ExecuteGates
<1>5. ASSUME NEW t \in Threads, ExecuteVerify(t) PROVE GateInv'
  <2>1. CASE Refuse(t)
    BY <1>5, <2>1, GateFrame DEF ExecuteVerify, Refuse, TypeOK
  <2>2. CASE ~Refuse(t)
    <3>1. /\ call[t] \in Call /\ call[t] # None /\ call[t].pc = "gated"
          /\ call' = [call EXCEPT ![t] = [call[t] EXCEPT !.pc = "verified", !.at = now]]
      BY <1>5, <2>2 DEF ExecuteVerify, TypeOK
    <3>2. call'[t].pc = "verified" /\ call'[t].late = call[t].late
      BY <3>1, CallFields DEF TypeOK
    <3> QED BY <1>5, <3>1, <3>2, GateFrame DEF ExecuteVerify, TypeOK
  <2> QED BY <2>1, <2>2
<1>6. ASSUME NEW t \in Threads, NEW did \in BOOLEAN, NEW status \in Status, Executor(t, did, status)
      PROVE GateInv'
  <2>1. /\ call[t] \in Call /\ call[t] # None /\ call[t].pc = "verified"
        /\ call' = [call EXCEPT ![t] =
                      [call[t] EXCEPT !.pc = "done", !.did = did, !.status = status]]
    BY <1>6 DEF Executor, TypeOK
  <2>2. call'[t].pc = "done" /\ call'[t].late = call[t].late
    BY <2>1, CallFields DEF TypeOK
  <2> QED BY <1>6, <2>1, <2>2, GateFrame DEF Executor, TypeOK
<1>7. ASSUME NEW t \in Threads, NEW stored \in BOOLEAN, Record(t, stored) PROVE GateInv'
  BY <1>7, GateFrame DEF Record, TypeOK
<1>8. CASE KernelRecycle
  <2>1. gateCache'.map = None /\ gateCache'.at = 0 /\ \A t \in Threads : call'[t] = None
    BY <1>8 DEF KernelRecycle
  <2>2. now \in Nat /\ now' = now /\ offSince' = offSince
    BY <1>8, ActionsAssumption DEF KernelRecycle, TypeOK, Time
  <2> QED BY <2>1, <2>2 DEF GateInv, Allowed, RevocationReachesKernel
<1>9. CASE AdminRotatesPassword \/ AdminTogglesMasterSwitch
  <2>1. live'.gates = live.gates
    BY <1>9 DEF AdminRotatesPassword, AdminTogglesMasterSwitch, TypeOK, Settings
  <2>2. UNCHANGED <<now, gateCache, call, offSince>>
    BY <1>9 DEF AdminRotatesPassword, AdminTogglesMasterSwitch
  <2> QED BY <2>1, <2>2 DEF GateInv, Allowed, Fetching, RevocationReachesKernel
<1>10. ASSUME NEW a \in Actions, AdminTogglesGate(a) PROVE GateInv'
  <2>1. /\ live'.gates = IF a \in live.gates THEN live.gates \ {a} ELSE live.gates \cup {a}
        /\ offSince' = [offSince EXCEPT ![a] = IF a \in live.gates THEN now ELSE 0]
        /\ UNCHANGED <<now, gateCache, call>>
    BY <1>10 DEF AdminTogglesGate, TypeOK, Settings
  <2>2. now \in Nat /\ gateCache.at \in Nat
    BY ActionsAssumption DEF TypeOK, Time, GateCache
  <2>3. \A b \in Actions : offSince'[b] <= now'
    BY <2>1, <2>2 DEF GateInv, TypeOK
  <2>4. ASSUME NEW m, NEW b \in Actions, Allowed(m, b)'
        PROVE  (b = a /\ offSince'[b] = now) \/ (Allowed(m, b) /\ offSince'[b] = offSince[b])
    <3>1. m # None /\ ~m.offline /\ b \in m.gates /\ b \notin live'.gates
      BY <2>4 DEF Allowed
    <3>2. CASE b = a
      BY <2>1, <3>1, <3>2 DEF TypeOK
    <3>3. CASE b # a
      <4>1. b \notin live.gates /\ offSince'[b] = offSince[b]
        BY <2>1, <3>1, <3>3 DEF TypeOK
      <4>2. Allowed(m, b)
        BY <3>1, <4>1 DEF Allowed
      <4> QED BY <4>1, <4>2
    <3> QED BY <3>2, <3>3
  <2>5. Fetching' <=> Fetching
    BY <2>1 DEF Fetching
  <2>6. RevocationReachesKernel'
    BY <2>1 DEF GateInv, RevocationReachesKernel
  <2>7. \A b \in Actions : Allowed(gateCache.map, b)' => gateCache'.at <= offSince'[b] \/ Fetching'
    BY <2>1, <2>4, <2>5 DEF GateInv
  <2>8. ASSUME NEW t \in Threads, call'[t] # None, call'[t].pc = "fetched"
        PROVE  /\ call'[t].map # None
               /\ \A b \in Actions : Allowed(call[t].map, b)' => gateCache'.at <= offSince'[b]
               /\ call'[t].late => call'[t].action \notin call'[t].map.gates
    BY <2>1, <2>4, <2>8 DEF GateInv
  <2> QED BY <2>1, <2>3, <2>6, <2>7, <2>8 DEF GateInv
<1>11. CASE BackendStopsOrStarts
  BY <1>11 DEF BackendStopsOrStarts, GateInv, Allowed, Fetching, RevocationReachesKernel
<1>12. CASE Tick
  <2>1. now' = now + 1 /\ now \in Nat /\ gateCache.at \in Nat
        /\ \A b \in Actions : offSince[b] \in Nat
    BY <1>12, ActionsAssumption DEF Tick, TypeOK, Time, GateCache
  <2>2. UNCHANGED <<live, gateCache, call, offSince>>
    BY <1>12 DEF Tick
  <2> QED BY <2>1, <2>2 DEF GateInv, Allowed, Fetching, RevocationReachesKernel
<1>13. CASE UNCHANGED vars
  BY <1>13 DEF vars, GateInv, Allowed, Fetching, RevocationReachesKernel
<1> QED
  BY <1>1, <1>2, <1>3, <1>4, <1>5, <1>6, <1>7, <1>8, <1>9, <1>10, <1>11, <1>12, <1>13
  DEF Next, Plan, Execute, Environment

(* In a kernel that runs one tool call at a time, a revocation made in     *)
(* Agent Permissions is seen within the gate cache's time to live.         *)
THEOREM RevocationSeen ==
    ASSUME \A u, v \in Threads : u = v
    PROVE  Spec => []RevocationReachesKernel
<1>1. Init => GateInv
  BY ActionsAssumption DEF Init, GateInv, Allowed, RevocationReachesKernel
<1>2. TypeOK /\ GateInv /\ [Next]_vars => GateInv'
  BY GateStep
<1>3. GateInv => RevocationReachesKernel
  BY DEF GateInv
<1> QED BY <1>1, <1>2, <1>3, TypeCorrect, PTL DEF Spec

-----------------------------------------------------------------------------
(* An effect leaves with an audit row or a warning, whatever the executor  *)
(* reported, unless it raised the unexpected while the store was down.     *)
THEOREM EffectsAudited == Spec => []EffectsAreAudited
<1>1. Init => EffectsAreAudited
  BY DEF Init, EffectsAreAudited
<1>2. EffectsAreAudited /\ TypeOK /\ [Next]_vars => EffectsAreAudited'
  <2> SUFFICES ASSUME EffectsAreAudited, TypeOK, [Next]_vars PROVE EffectsAreAudited'
    OBVIOUS
  <2>1. CASE outcome' = None \/ UNCHANGED outcome
    BY <2>1 DEF EffectsAreAudited
  <2>2. ASSUME NEW t \in Threads, Refuse(t) PROVE EffectsAreAudited'
    BY <2>2 DEF Refuse, EffectsAreAudited
  <2>3. ASSUME NEW t \in Threads, NEW stored \in BOOLEAN, Record(t, stored) PROVE EffectsAreAudited'
    <3>1. call[t].status = "raised" \/ Reported(call[t]) # "none"
      BY <2>3 DEF Record, TypeOK, Call, Status, Reported
    <3>2. /\ outcome'.raised = (call[t].status = "raised")
          /\ outcome'.row = (IF stored THEN Reported(call[t])
                             ELSE IF call[t].status = "raised" THEN "none" ELSE "unavailable")
      BY <2>3 DEF Record
    <3> QED BY <3>1, <3>2 DEF EffectsAreAudited
  <2>4. ASSUME NEW t \in Threads, NEW c, EnterGate(t, c) PROVE EffectsAreAudited'
    BY <2>1, <2>2, <2>4 DEF EnterGate, Enabled
  <2>5. ASSUME NEW t \in Threads, Plan(t) \/ StoreMap(t) \/ Execute(t) PROVE EffectsAreAudited'
    <3>1. CASE Plan(t)
      BY <2>1, <2>4, <3>1 DEF Plan, PlanGates, PlanMint
    <3>2. CASE StoreMap(t)
      BY <2>1, <2>2, <3>2 DEF StoreMap, Enabled
    <3>3. CASE Execute(t)
      BY <2>1, <2>2, <2>3, <2>4, <3>3 DEF Execute, ExecuteGates, ExecuteVerify, Executor
    <3> QED BY <2>5, <3>1, <3>2, <3>3
  <2>6. CASE Environment \/ UNCHANGED vars
    BY <2>1, <2>6 DEF Environment, KernelRecycle, AdminRotatesPassword, AdminTogglesMasterSwitch,
       AdminTogglesGate, BackendStopsOrStarts, Tick, vars
  <2> QED BY <2>5, <2>6 DEF Next
<1> QED BY <1>1, <1>2, TypeCorrect, PTL DEF Spec
=============================================================================
