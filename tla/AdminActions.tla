----------------------------- MODULE AdminActions -----------------------------
(***************************************************************************)
(* The plan / confirm / execute protocol of the agents' admin actions:     *)
(* actuator.py, confirm.py, action_gates.py, audit.py and the unlock path  *)
(* of client.py in python-lib/atk_agent_common.                            *)
(*                                                                         *)
(* One agent kernel plans actions, mints confirm tokens and executes them  *)
(* on behalf of a model that may present any token with any action and     *)
(* target. The kernel works from the plugin settings it read when it       *)
(* started; an administrator changes the live settings under it. Local     *)
(* actions are written by the kernel itself, red actions by the backend    *)
(* behind its own password gate.                                           *)
(***************************************************************************)
EXTENDS Naturals, FiniteSets

CONSTANTS
    LocalActions,  \* written by the kernel (settings-set, k8s-exec-config-tune)
    RedActions,    \* executed by a red route of the backend (project-delete, ...)
    Targets,       \* canonical targets
    Threads,       \* concurrent tool calls of the kernel
    TokenTTL,      \* confirm.TOKEN_TTL_SECONDS
    GateTTL,       \* action_gates._TTL_S
    MaxTime,       \* bound on the clock
    MaxPassword,   \* bound on password rotations
    MaxTokens,     \* bound on the tokens minted in a behaviour
    None

Actions == LocalActions \cup RedActions

(* A signing key. 0 is the empty password and every key nobody configured. *)
Password == 0..MaxPassword
Time == 0..MaxTime
(* How an executor ends: as reported, or with an exception nobody expects. *)
Status == {"ok", "partial", "error", "raised"}
Token == [action : Actions, target : Targets, exp : 0..(MaxTime + TokenTTL), pw : Password]
Settings == [password : Password, red : BOOLEAN, gates : SUBSET Actions]
GateMap == [gates : SUBSET Actions, offline : BOOLEAN]
GateCache == [at : Time, map : GateMap \cup {None}]
(* A tool call in progress; it is a plan when it carries no token. *)
Call == [pc : {"fetched", "gated", "verified", "done"}, map : GateMap \cup {None},
         token : Token \cup {None}, action : Actions, target : Targets, confirm : BOOLEAN,
         did : BOOLEAN, status : Status,               \* effect, executor's report
         late : BOOLEAN, at : Time]    \* history: of the gate and the token check
Outcome == [did : BOOLEAN, raised : BOOLEAN,
            row : {"none", "ok", "partial", "error", "unavailable"}]

ASSUME ActionsAssumption ==
    /\ LocalActions \cap RedActions = {}
    /\ TokenTTL \in Nat \ {0} /\ GateTTL \in Nat \ {0}
    /\ MaxTime \in Nat /\ MaxPassword \in Nat \ {0} /\ MaxTokens \in Nat
    /\ None \notin Token \cup GateMap \cup Call \cup Outcome

VARIABLES
    now,        \* int(time.time())
    live,       \* the plugin settings as stored now
    kernel,     \* client.settings: the snapshot the kernel started with
    gateCache,  \* action_gates._cache
    backendUp,  \* whether the webapp backend answers
    call,       \* the plan or execute call each thread is in, or None
    tokens,     \* history: tokens minted by plan_admin_action
    offSince,   \* history: when an action's live gate was last switched off
    outcome     \* history: the call that returned in the last step, or None

vars == <<now, live, kernel, gateCache, backendUp, call, tokens, offSince, outcome>>

TypeOK ==
    /\ now \in Time
    /\ live \in Settings
    /\ kernel \in Settings
    /\ gateCache \in GateCache
    /\ backendUp \in BOOLEAN
    /\ call \in [Threads -> Call \cup {None}]
    /\ tokens \subseteq Token
    /\ offSince \in [Actions -> Time]
    /\ outcome \in Outcome \cup {None}

(* The actions are off until an administrator enables them; the master     *)
(* switch defaults to on and the password may not be configured yet.       *)
Init ==
    /\ now = 0
    /\ live \in [password : {0, 1}, red : {TRUE}, gates : {{}, Actions}]
    /\ kernel = live
    /\ gateCache = [at |-> 0, map |-> None]
    /\ backendUp = TRUE
    /\ call = [t \in Threads |-> None]
    /\ tokens = {}
    /\ offSince = [a \in Actions |-> 0]
    /\ outcome = None

-----------------------------------------------------------------------------
(* action_gates._maps: the map cached for GateTTL, else the live one, else *)
(* - backend unreachable - the kernel-start snapshot. Either is cached, the *)
(* timestamp in one assignment and the map in a later one.                 *)

(* Mutant: the cached map is used whatever its age. *)
CacheNeverExpires == gateCache.map # None

CacheUsable == gateCache.map # None /\ now - gateCache.at < GateTTL

FetchedMap ==
    [gates |-> IF backendUp THEN live.gates ELSE kernel.gates, offline |-> ~backendUp]

MapRead == IF CacheUsable THEN gateCache.map ELSE FetchedMap

(* History: the map a call works from still allows an action that an       *)
(* administrator switched off GateTTL or more ago.                         *)
IsLate(a) ==
    ~MapRead.offline /\ a \notin live.gates /\ now - offSince[a] >= GateTTL

Starts(tok, a, x, flag) ==
    [pc |-> "fetched", map |-> MapRead, token |-> tok, action |-> a, target |-> x,
     confirm |-> flag, did |-> FALSE, status |-> "error", late |-> IsLate(a), at |-> 0]

Refuse(t) ==
    /\ call' = [call EXCEPT ![t] = None]
    /\ outcome' = [did |-> FALSE, raised |-> FALSE, row |-> "none"]

(* action_enabled: absent from the map means off. *)
Enabled(t, c) ==
    \/ /\ c.action \in c.map.gates
       /\ call' = [call EXCEPT ![t] = [c EXCEPT !.pc = "gated", !.map = None]]
       /\ outcome' = None
    \/ c.action \notin c.map.gates /\ Refuse(t)

(* The gate of plan and execute: a usable cache answers at once; otherwise *)
(* the map is fetched and the cache's timestamp set, the map itself later. *)
EnterGate(t, c) ==
    \/ CacheUsable /\ Enabled(t, c) /\ UNCHANGED gateCache
    \/ /\ ~CacheUsable
       /\ gateCache' = [gateCache EXCEPT !.at = now]
       /\ call' = [call EXCEPT ![t] = c]
       /\ outcome' = None

StoreMap(t) ==
    /\ call[t] # None /\ call[t].pc = "fetched"
    /\ gateCache' = [gateCache EXCEPT !.map = call[t].map]
    /\ Enabled(t, call[t])
    /\ UNCHANGED <<now, live, kernel, backendUp, tokens, offSince>>

(* plan_admin_action: refuse a disabled action ... *)
PlanGates(t, a, x) ==
    /\ call[t] = None
    /\ Cardinality(tokens) < MaxTokens
    /\ EnterGate(t, Starts(None, a, x, FALSE))
    /\ UNCHANGED <<now, live, kernel, backendUp, tokens, offSince>>

(* ... then run the planner, which may raise, and mint under the kernel's  *)
(* password if it has one.                                                 *)

Mint(a, x) == [action |-> a, target |-> x, exp |-> now + TokenTTL, pw |-> kernel.password]

PlanMint(t, planned) ==
    /\ call[t] # None /\ call[t].pc = "gated" /\ call[t].token = None
    /\ tokens' = IF planned /\ kernel.password # 0
                 THEN tokens \cup {Mint(call[t].action, call[t].target)} ELSE tokens
    /\ call' = [call EXCEPT ![t] = None]
    /\ outcome' = None
    /\ UNCHANGED <<now, live, kernel, gateCache, backendUp, offSince>>

(* What a model can present: a token it was shown, or one it made up. *)
Forged(a, x) == [action |-> a, target |-> x, exp |-> MaxTime + TokenTTL, pw |-> 0]
Presentable == tokens \cup {Forged(a, x) : a \in Actions, x \in Targets}

(* execute_admin_action up to the gate: the kernel's master switch first. *)
ExecuteGates(t, tok, a, x, flag) ==
    /\ call[t] = None
    /\ \/ ~kernel.red /\ Refuse(t) /\ UNCHANGED gateCache
       \/ kernel.red /\ EnterGate(t, Starts(tok, a, x, flag))
    /\ UNCHANGED <<now, live, kernel, backendUp, tokens, offSince>>

(* Mutant: the empty password is accepted as a signing key. *)
ValidUnderEmptyKey(c) ==
    /\ c.token.pw = kernel.password
    /\ c.token.exp >= now
    /\ c.token.action = c.action /\ c.token.target = c.target

(* confirm.verify: signed under the kernel's password, unexpired, and for  *)
(* exactly this action and target.                                         *)
Valid(c) ==
    /\ kernel.password # 0
    /\ c.token.pw = kernel.password
    /\ c.token.exp >= now
    /\ c.token.action = c.action /\ c.token.target = c.target

(* confirm_flag, then the token: reject with nothing recorded, or go on.   *)
(* (The Cobuild route, whose answer would be followed by a second gate and *)
(* token check, is retired: capability_routing.selected says 'existing'.)  *)
ExecuteVerify(t) ==
    /\ call[t] # None /\ call[t].pc = "gated" /\ call[t].token # None
    /\ \/ /\ call[t].confirm /\ Valid(call[t])
          /\ call' = [call EXCEPT ![t] = [@ EXCEPT !.pc = "verified", !.at = now]]
          /\ outcome' = None
       \/ ~(call[t].confirm /\ Valid(call[t])) /\ Refuse(t)
    /\ UNCHANGED <<now, live, kernel, gateCache, backendUp, tokens, offSince>>

(* Mutant: the backend keeps honouring an unlock made before a rotation. *)
RedUnlockedOnce == backendUp

(* The backend's own gate: the client unlocks with the kernel's password,  *)
(* and a red token dies with the password it was derived from.             *)
RedUnlocked == backendUp /\ kernel.password = live.password

(* The executor comes back, having had its effect or not. A batch reports  *)
(* "partial" when some entries failed; a step that fails after another one *)
(* took effect, or an answer that is lost (a mutation is not retried),     *)
(* reports "error". Only the backend's gate ties the two together.         *)
Executor(t, did, status) ==
    /\ call[t] # None /\ call[t].pc = "verified"
    /\ did /\ call[t].action \in RedActions => RedUnlocked
    /\ call' = [call EXCEPT ![t] = [@ EXCEPT !.pc = "done", !.did = did, !.status = status]]
    /\ outcome' = None
    /\ UNCHANGED <<now, live, kernel, gateCache, backendUp, tokens, offSince>>

Reported(c) == IF c.status = "raised" THEN "error" ELSE c.status

(* Mutant: the row is written after the executor, not in its finally. *)
RecordSuccessOnly(t, stored) ==
    /\ call[t] # None /\ call[t].pc = "done"
    /\ call' = [call EXCEPT ![t] = None]
    /\ outcome' = [did |-> call[t].did, raised |-> call[t].status = "raised",
                   row |-> IF call[t].status \in {"error", "raised"} THEN "none"
                           ELSE IF stored THEN Reported(call[t]) ELSE "unavailable"]
    /\ UNCHANGED <<now, live, kernel, gateCache, backendUp, tokens, offSince>>

(* The finally block: one audit row with the reported status. When the     *)
(* audit store is unavailable the result carries a warning, unless the     *)
(* executor's exception is on its way out and there is no result.          *)
Record(t, stored) ==
    /\ call[t] # None /\ call[t].pc = "done"
    /\ call' = [call EXCEPT ![t] = None]
    /\ outcome' = [did |-> call[t].did, raised |-> call[t].status = "raised",
                   row |-> IF stored THEN Reported(call[t])
                           ELSE IF call[t].status = "raised" THEN "none" ELSE "unavailable"]
    /\ UNCHANGED <<now, live, kernel, gateCache, backendUp, tokens, offSince>>

-----------------------------------------------------------------------------
(* The kernel is recycled: its calls die, it reads the settings afresh. *)
KernelRecycle ==
    /\ kernel' = live
    /\ gateCache' = [at |-> 0, map |-> None]
    /\ call' = [t \in Threads |-> None]
    /\ outcome' = None
    /\ UNCHANGED <<now, live, backendUp, tokens, offSince>>

AdminRotatesPassword ==
    /\ live.password < MaxPassword
    /\ live' = [live EXCEPT !.password = @ + 1]
    /\ outcome' = None
    /\ UNCHANGED <<now, kernel, gateCache, backendUp, call, tokens, offSince>>

AdminTogglesGate(a) ==
    /\ live' = [live EXCEPT !.gates = IF a \in @ THEN @ \ {a} ELSE @ \cup {a}]
    /\ offSince' = [offSince EXCEPT ![a] = IF a \in live.gates THEN now ELSE 0]
    /\ outcome' = None
    /\ UNCHANGED <<now, kernel, gateCache, backendUp, call, tokens>>

AdminTogglesMasterSwitch ==
    /\ live' = [live EXCEPT !.red = ~@]
    /\ outcome' = None
    /\ UNCHANGED <<now, kernel, gateCache, backendUp, call, tokens, offSince>>

BackendStopsOrStarts ==
    /\ backendUp' = ~backendUp
    /\ outcome' = None
    /\ UNCHANGED <<now, live, kernel, gateCache, call, tokens, offSince>>

Tick ==
    /\ now < MaxTime
    /\ now' = now + 1
    /\ outcome' = None
    /\ UNCHANGED <<live, kernel, gateCache, backendUp, call, tokens, offSince>>

Plan(t) ==
    \/ \E a \in Actions, x \in Targets : PlanGates(t, a, x)
    \/ \E planned \in BOOLEAN : PlanMint(t, planned)

Execute(t) ==
    \/ \E tok \in Presentable, a \in Actions, x \in Targets, flag \in BOOLEAN :
          ExecuteGates(t, tok, a, x, flag)
    \/ ExecuteVerify(t)
    \/ \E did \in BOOLEAN, status \in Status : Executor(t, did, status)
    \/ \E stored \in BOOLEAN : Record(t, stored)

Environment ==
    \/ KernelRecycle \/ AdminRotatesPassword \/ AdminTogglesMasterSwitch
    \/ \E a \in Actions : AdminTogglesGate(a)
    \/ BackendStopsOrStarts \/ Tick

Next ==
    \/ \E t \in Threads : Plan(t) \/ StoreMap(t) \/ Execute(t)
    \/ Environment

Spec == Init /\ [][Next]_vars

-----------------------------------------------------------------------------
(* Properties. *)

(* The step in which thread t's executor has its effect. *)
Effect(t) ==
    /\ call[t] # None /\ call'[t] # None
    /\ ~call[t].did /\ call'[t].did

(* An agent can only execute the exact plan that was shown: every effect   *)
(* is for an action and target that plan_admin_action minted a token for,  *)
(* and the token was still valid when it was checked. Forged tokens, an    *)
(* unset password, rotations, recycles and any delay between the check and *)
(* the executor are in scope.                                              *)
OnlyPlannedEffects ==
    [][\A t \in Threads : Effect(t) =>
         \E tok \in tokens : /\ tok.action = call[t].action /\ tok.target = call[t].target
                             /\ call[t].at <= tok.exp]_vars

(* A red action never takes effect under a token minted before a password  *)
(* rotation, however stale the kernel's own copy of the password is.       *)
RotationStopsRedActions ==
    [][\A t \in Threads :
         Effect(t) /\ call[t].action \in RedActions => call[t].token.pw = live.password]_vars

(* "An admin toggle takes effect without a kernel recycle"                 *)
(* (action_gates.py): no plan or execute reads a gate map, fetched from    *)
(* the backend, that still allows an action switched off GateTTL or more   *)
(* ago. A kernel that runs one tool call at a time keeps this; with two,   *)
(* the one that finds the new timestamp beside the old map does not.       *)
RevocationReachesKernel ==
    \A t \in Threads : call[t] # None /\ call[t].pc # "fetched" => ~call[t].late

(* A call whose executor had an effect leaves with an audit row or a       *)
(* warning that there is none, also when the executor reported an error;   *)
(* only an unexpected exception with the audit store down says nothing.    *)
EffectsAreAudited ==
    outcome # None /\ outcome.did /\ outcome.row = "none" => outcome.raised
=============================================================================
