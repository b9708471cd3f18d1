---------------------------- MODULE Registration ----------------------------
(***************************************************************************)
(* Self-registration of students (apps/users/services.py, RegisterView and *)
(* the registration-code views of apps/users/api/views.py): the code that  *)
(* changes with every window, its rotation against the cached config, the  *)
(* attempt limits of a client address and of a username, and the cooldown  *)
(* after failures.                                                         *)
(*                                                                         *)
(* Every call to the cache is a step and may fail, in which case a safe_*  *)
(* wrapper answers None; the database steps are single statements, without *)
(* a transaction around them.  Time is counted in ticks; a key of the      *)
(* cache is gone when its timeout has passed.  A salt is a number never    *)
(* used before (secrets.token_urlsafe) and a code is the pair of salt and  *)
(* window it is derived from (HMAC): different pairs, different codes.     *)
(***************************************************************************)
EXTENDS Integers, Sequences, FiniteSets, FiniteSetsExt

CONSTANTS
  Clients, Admins,          \* workers that serve registrations; that show and rotate the code
  Usernames,
  REGISTER_IP_LIMIT, REGISTER_USERNAME_LIMIT,
  REGISTER_WINDOW,          \* ticks of an attempt window
  FAILURE_COUNTER_TTL,
  COOLDOWN_STEPS,           \* sequence of <<failures, cooldown>>, both ascending
  CodeWindow,               \* ticks of a code window (window_minutes)
  AllowPreviousWindow,
  ConfigTimeout,            \* REGISTRATION_CONFIG_CACHE_TIMEOUT
  RequestTimeout,           \* ticks after which gunicorn kills a request
  Starts, MaxTime,          \* bounds: the config rows at the start, and how often what may happen
  NoCode                    \* a code nobody was ever shown

\* What is bounded: requests of each kind, ticks, and calls to the cache that fail.
Bounded == {"register", "show", "rotate", "tick", "fail"}

Workers == Clients \cup Admins

ASSUME LimitsAssumption ==
  /\ REGISTER_IP_LIMIT \in Nat \ {0}
  /\ REGISTER_USERNAME_LIMIT \in Nat \ {0}
  /\ REGISTER_WINDOW \in Nat \ {0}
  /\ FAILURE_COUNTER_TTL \in Nat \ {0}
ASSUME StepsAssumption ==
  /\ COOLDOWN_STEPS \in Seq((Nat \ {0}) \X (Nat \ {0}))
  /\ \A i, j \in DOMAIN COOLDOWN_STEPS : i <= j => COOLDOWN_STEPS[i][2] <= COOLDOWN_STEPS[j][2]
ASSUME CodeAssumption ==
  /\ CodeWindow \in Nat \ {0}
  /\ ConfigTimeout \in Nat \ {0}
  /\ AllowPreviousWindow \in BOOLEAN
  /\ NoCode \notin Nat \X Nat
ASSUME BoundsAssumption ==
  /\ RequestTimeout \in Nat /\ MaxTime \in Nat
  /\ Starts \subseteq [rows : {<<>>, <<1>>}, left : [Bounded -> 0..MaxTime]]

VARIABLES
  now,       \* the clock
  rows,      \* RegistrationCodeConfig: the salts, in the order of the primary key
  cached,    \* registration:code:config:v1
  counters,  \* the counters register:ip, register:user and register:failcount
  blocked,   \* register:blocked_until, 0 when missing
  users,     \* usernames that exist
  shown,     \* codes that were shown to a teacher or an admin
  salts,     \* salts drawn so far
  pc, req,
  left,      \* how much of each is left, in this behaviour
  degraded,  \* history: a call to the cache failed
  retired,   \* history: when each salt stopped to be that of the first row
  raced,     \* history: an outdated config was stored, or neither deleted nor replaced
  admitted,  \* history: attempts of each window that passed the address limit
  lapsed,    \* history: a counter expired between the two calls that count one attempt
  sentence,  \* history: the wait that the failures counted since the last success call for
  spared     \* history: since the last success, a worker was killed before it wrote the block of
             \* a failure it had counted, or a shorter block was written over a longer one

config == <<rows, cached, shown, salts, retired, raced>>
limits == <<counters, blocked, users, admitted, lapsed, sentence, spared>>
vars == <<now, config, limits, left, degraded, pc, req>>

Null == [value |-> 0, until |-> 0]
NoKey == <<"none", 0>>
Idle == [kind |-> "none", start |-> 0, since |-> 0, at |-> 0, user |-> NoCode, code |-> NoCode,
         key |-> NoKey, n |-> 0, salt |-> 0, row |-> 0, rotated |-> FALSE]

Init ==
  /\ now = 0
  /\ \E s \in Starts : rows = s.rows /\ left = s.left
  /\ salts = Len(rows)
  /\ cached = Null
  /\ counters = [k \in {} |-> Null]
  /\ blocked = 0
  /\ users = {} /\ shown = {}
  /\ pc = [w \in Workers |-> "idle"]
  /\ req = [w \in Workers |-> Idle]
  /\ degraded = FALSE
  /\ retired = [s \in {} |-> 0]
  /\ raced = FALSE /\ lapsed = FALSE /\ spared = FALSE
  /\ admitted = [i \in 0..MaxTime |-> 0]
  /\ sentence = 0

\* The salt of the first row, which is the one that counts.
Current == IF rows = <<>> THEN 0 ELSE rows[1]

\* What a request knows when it arrives.  since is kept for the properties only: the salt in
\* force, unless a rotation is between its UPDATE and the deletion of the cached config.
Arrival(kind) ==
  [Idle EXCEPT !.kind = kind, !.start = now,
               !.since = IF \E v \in Workers : pc[v] = "clear" THEN 0 ELSE Current]

Goto(w, label) == pc' = [pc EXCEPT ![w] = label] /\ UNCHANGED req

GotoWith(w, label, r) == pc' = [pc EXCEPT ![w] = label] /\ req' = [req EXCEPT ![w] = r]

Reply(w) == GotoWith(w, "idle", Idle)

\* A call of a safe_* wrapper: it reaches the cache (up) or fails.
Call(up) ==
  /\ up \/ left["fail"] > 0
  /\ left' = IF up THEN left ELSE [left EXCEPT !["fail"] = @ - 1]
  /\ degraded' = (degraded \/ ~up)

Spend(what) == left[what] > 0 /\ left' = [left EXCEPT ![what] = @ - 1]

-----------------------------------------------------------------------------
(* Requests and time.                                                      *)

\* RegisterView.post behind its serializer: the username is still free.
ReceiveRegistration(w) ==
  /\ w \in Clients
  /\ pc[w] = "idle" /\ Spend("register")
  /\ \E u \in Usernames \ users, c \in shown \cup {NoCode} :
       GotoWith(w, "blocked", [Arrival("register") EXCEPT !.user = u, !.code = c])
  /\ UNCHANGED <<now, config, limits, degraded>>

\* The two views that show the code.
ReceiveShow(w) ==
  /\ w \in Admins
  /\ pc[w] = "idle" /\ Spend("show")
  /\ GotoWith(w, "config", Arrival("show"))
  /\ UNCHANGED <<now, config, limits, degraded>>

ReceiveRotate(w) ==
  /\ w \in Admins
  /\ pc[w] = "idle" /\ Spend("rotate")
  /\ GotoWith(w, "load", Arrival("rotate"))
  /\ UNCHANGED <<now, config, limits, degraded>>

\* gunicorn kills a worker whose request takes too long; a process may die at any time.
Killed(w) ==
  /\ pc[w] # "idle"
  /\ Reply(w)
  /\ raced' = (raced \/ pc[w] = "clear")
  /\ spared' = (spared \/ pc[w] = "block")
  /\ UNCHANGED <<now, rows, cached, shown, salts, retired, counters, blocked, users, admitted,
                 lapsed, sentence, left, degraded>>

\* Keys whose timeout has passed are gone.
Tick ==
  /\ Spend("tick")
  /\ \A w \in Workers : pc[w] # "idle" => now < req[w].start + RequestTimeout
  /\ now' = now + 1
  /\ cached' = IF cached.until <= now' THEN Null ELSE cached
  /\ counters' = [k \in {j \in DOMAIN counters : counters[j].until > now'} |-> counters[k]]
  /\ UNCHANGED <<rows, shown, salts, retired, raced, blocked, users, admitted, lapsed, sentence,
                 spared, degraded, pc, req>>

-----------------------------------------------------------------------------
(* The code: _registration_config_values and its users.                    *)

WindowIndex(t) == t \div CodeWindow

GetConfig(w) ==
  /\ pc[w] = "config"
  /\ \E up \in BOOLEAN :
       /\ Call(up)
       /\ IF up /\ cached # Null
             THEN GotoWith(w, "use", [req[w] EXCEPT !.salt = cached.value])
             ELSE Goto(w, "load")
  /\ UNCHANGED <<now, config, limits>>

\* Who asked for the row: a rotation that has not saved its salt yet, or the values.
AfterLoad(r) == IF r.kind = "rotate" /\ ~r.rotated THEN "save" ELSE "store"

\* Whose deletion it was: that of the rotation, which shows the new code next, or that of
\* the creation of the row.
AfterClear(r) == IF r.rotated THEN "config" ELSE AfterLoad(r)

\* _registration_config: the first row.
LoadConfig(w) ==
  /\ pc[w] = "load"
  /\ IF rows = <<>>
        THEN Goto(w, "create")
        ELSE GotoWith(w, AfterLoad(req[w]),
                      [req[w] EXCEPT !.salt = rows[1], !.row = 1])
  /\ UNCHANGED <<now, config, limits, left, degraded>>

\* _registration_config, no row found: creates one, also if somebody else did meanwhile.
CreateConfig(w) ==
  /\ pc[w] = "create"
  /\ salts' = salts + 1
  /\ rows' = Append(rows, salts')
  /\ GotoWith(w, "clear", [req[w] EXCEPT !.salt = salts', !.row = Len(rows')])
  /\ UNCHANGED <<now, cached, shown, retired, raced, limits, left, degraded>>

\* rotate_registration_code: a new salt for the row that was loaded.
SaveSalt(w) ==
  /\ pc[w] = "save"
  /\ salts' = salts + 1
  /\ rows' = [rows EXCEPT ![req[w].row] = salts']
  /\ retired' = [s \in DOMAIN retired \cup {rows[req[w].row]} |->
                   IF s \in DOMAIN retired THEN retired[s] ELSE now]
  /\ GotoWith(w, "clear", [req[w] EXCEPT !.rotated = TRUE])
  /\ UNCHANGED <<now, cached, shown, raced, limits, left, degraded>>

\* safe_cache_delete after a row was created or its salt replaced.
ClearConfig(w) ==
  /\ pc[w] = "clear"
  /\ \E up \in BOOLEAN :
       /\ Call(up)
       /\ cached' = IF up THEN Null ELSE cached
       /\ raced' = (raced \/ ~up)
  /\ Goto(w, AfterClear(req[w]))
  /\ UNCHANGED <<now, rows, shown, salts, retired, limits>>

\* Mutant: the config is stored without a timeout, that is for ever.
StoreConfig_NoTimeout(w) ==
  /\ pc[w] = "store"
  /\ \E up \in BOOLEAN :
       /\ Call(up)
       /\ cached' = IF up THEN [value |-> req[w].salt, until |-> 2 * MaxTime] ELSE cached
       /\ raced' = (raced \/ req[w].salt # Current \/ cached'.value \notin {0, Current})
  /\ Goto(w, "use")
  /\ UNCHANGED <<now, rows, shown, salts, retired, limits>>

StoreConfig(w) ==
  /\ pc[w] = "store"
  /\ \E up \in BOOLEAN :
       /\ Call(up)
       /\ cached' = IF up THEN [value |-> req[w].salt, until |-> now + ConfigTimeout] ELSE cached
       /\ raced' = (raced \/ req[w].salt # Current \/ cached'.value \notin {0, Current})
  /\ Goto(w, "use")
  /\ UNCHANGED <<now, rows, shown, salts, retired, limits>>

\* get_current_registration_code_info.
ShowCode(w) ==
  /\ pc[w] = "use" /\ req[w].kind # "register"
  /\ shown' = shown \cup {<<req[w].salt, WindowIndex(now)>>}
  /\ Reply(w)
  /\ UNCHANGED <<now, rows, cached, salts, retired, raced, limits, left, degraded>>

\* Mutant: the previous window is forgotten, as if the policy were always off.
ValidCodes_CurrentOnly(salt, t) == {<<salt, WindowIndex(t)>>}

\* validate_registration_code.
ValidCodes(salt, t) ==
  {<<salt, WindowIndex(t)>>}
    \cup (IF AllowPreviousWindow THEN {<<salt, WindowIndex(t) - 1>>} ELSE {})

\* RegisterView: except Exception - the failure is counted, with the time of now.
Fail(w) ==
  GotoWith(w, "add", [req[w] EXCEPT !.at = now, !.key = <<"fail", 0>>])

CheckCode(w) ==
  /\ pc[w] = "use" /\ req[w].kind = "register"
  /\ IF req[w].code \in ValidCodes(req[w].salt, now) THEN Goto(w, "save_user") ELSE Fail(w)
  /\ UNCHANGED <<now, config, limits, left, degraded>>

-----------------------------------------------------------------------------
(* The limits: check_registration_limits and _incr_counter.                *)

\* register:blocked_until; then the attempts of the address in this window.
CheckBlocked(w) ==
  /\ pc[w] = "blocked"
  /\ \E up \in BOOLEAN :
       /\ Call(up)
       /\ IF up /\ blocked > now
             THEN Reply(w)
             ELSE GotoWith(w, "add", [req[w] EXCEPT !.at = now,
                                        !.key = <<"ip", now \div REGISTER_WINDOW>>])
  /\ UNCHANGED <<now, config, limits>>

\* Mutant: the counter of a window expires with the window.
Timeout_WindowOnly(key) == IF key[1] = "fail" THEN FAILURE_COUNTER_TTL ELSE REGISTER_WINDOW

Timeout(key) == IF key[1] = "fail" THEN FAILURE_COUNTER_TTL ELSE REGISTER_WINDOW + 1

SetCounter(key, n, until) ==
  counters' = [k \in DOMAIN counters \cup {key} |->
                 IF k = key THEN [value |-> n, until |-> until] ELSE counters[k]]

\* Mutant: the first step that applies decides, not the last.
Cooldown_First(n) ==
  LET reached == {i \in DOMAIN COOLDOWN_STEPS : n >= COOLDOWN_STEPS[i][1]}
  IN  IF reached = {} THEN 0 ELSE COOLDOWN_STEPS[Min(reached)][2]

\* COOLDOWN_STEPS: the last step whose threshold is reached.
Cooldown(n) ==
  LET reached == {i \in DOMAIN COOLDOWN_STEPS : n >= COOLDOWN_STEPS[i][1]}
  IN  IF reached = {} THEN 0 ELSE COOLDOWN_STEPS[Max(reached)][2]

\* The wait that n failures earn: the longest of the steps they have reached.
Deserved(n) == Max({0} \cup {COOLDOWN_STEPS[i][2] :
                              i \in {j \in DOMAIN COOLDOWN_STEPS : n >= COOLDOWN_STEPS[j][1]}})

\* What n failures add to the sentence, the last of which happened at a time.
Sentence(at, n) == IF Deserved(n) = 0 THEN sentence ELSE Max({sentence, at + Deserved(n)})

\* What follows the counting of an attempt or of a failure; n = 0 is None.
Counted(w, n) ==
  LET r == req[w] IN
  \/ /\ r.key[1] = "ip"
     /\ IF n > REGISTER_IP_LIMIT
           THEN Reply(w) /\ UNCHANGED admitted
           ELSE /\ admitted' = [admitted EXCEPT ![r.key[2]] = @ + 1]
                /\ GotoWith(w, "add", [r EXCEPT !.key = <<"user", r.user, r.key[2]>>])
     /\ UNCHANGED sentence
  \/ /\ r.key[1] = "user"
     /\ IF n > REGISTER_USERNAME_LIMIT
           THEN Reply(w)
           ELSE GotoWith(w, "register", [r EXCEPT !.at = 0, !.key = NoKey, !.n = 0])
     /\ UNCHANGED <<admitted, sentence>>
  \/ /\ r.key[1] = "fail"
     /\ IF Cooldown(n) = 0 THEN Reply(w) ELSE GotoWith(w, "block", [r EXCEPT !.n = n])
     /\ sentence' = Sentence(r.at, n)
     /\ UNCHANGED admitted

CounterAdd(w) ==
  LET key == req[w].key IN
  /\ pc[w] = "add"
  /\ \E up \in BOOLEAN :
       /\ Call(up)
       /\ \/ ~up /\ Counted(w, 0) /\ UNCHANGED counters
          \/ /\ up /\ key \notin DOMAIN counters
             /\ SetCounter(key, 0, now + Timeout(key))
             /\ Goto(w, "incr_new") /\ UNCHANGED <<admitted, sentence>>
          \/ /\ up /\ key \in DOMAIN counters
             /\ Goto(w, "incr") /\ UNCHANGED <<counters, admitted, sentence>>
  /\ UNCHANGED <<now, config, blocked, users, lapsed, spared>>

\* incr keeps the timeout of the key, and fails when the key has gone.
CounterIncr(w) ==
  LET key == req[w].key IN
  /\ pc[w] \in {"incr_new", "incr"}
  /\ \E up \in BOOLEAN :
       /\ Call(up)
       /\ IF up /\ key \in DOMAIN counters
             THEN /\ SetCounter(key, counters[key].value + 1, counters[key].until)
                  /\ Counted(w, counters[key].value + 1)
                  /\ UNCHANGED lapsed
             ELSE /\ IF pc[w] = "incr_new"
                        THEN GotoWith(w, "set", [req[w] EXCEPT !.n = 1])
                        ELSE Goto(w, "reread")
                  /\ lapsed' = (lapsed \/ up)
                  /\ UNCHANGED <<counters, admitted, sentence>>
  /\ UNCHANGED <<now, config, blocked, users, spared>>

CounterReread(w) ==
  /\ pc[w] = "reread"
  /\ \E up \in BOOLEAN :
       /\ Call(up)
       /\ GotoWith(w, "set", [req[w] EXCEPT !.n =
            IF up /\ req[w].key \in DOMAIN counters THEN counters[req[w].key].value + 1 ELSE 1])
  /\ UNCHANGED <<now, config, limits>>

CounterSet(w) ==
  LET key == req[w].key IN
  /\ pc[w] = "set"
  /\ \E up \in BOOLEAN :
       /\ Call(up)
       /\ IF up
             THEN SetCounter(key, req[w].n, now + Timeout(key)) /\ Counted(w, req[w].n)
             ELSE Counted(w, 0) /\ UNCHANGED counters
  /\ UNCHANGED <<now, config, blocked, users, lapsed, spared>>

-----------------------------------------------------------------------------
(* register_student_user, register_failure and register_success.           *)

\* The passwords differ or are too weak.
RejectPassword(w) ==
  /\ pc[w] = "register"
  /\ Fail(w)
  /\ UNCHANGED <<now, config, limits, left, degraded>>

AcceptPassword(w) ==
  /\ pc[w] = "register"
  /\ Goto(w, "config")
  /\ UNCHANGED <<now, config, limits, left, degraded>>

\* create_user: username is unique.
SaveUser(w) ==
  /\ pc[w] = "save_user"
  /\ IF req[w].user \in users
        THEN Fail(w) /\ UNCHANGED users
        ELSE users' = users \cup {req[w].user} /\ Goto(w, "saved")
  /\ UNCHANGED <<now, config, counters, blocked, admitted, lapsed, sentence, spared, left, degraded>>

SetBlocked(w) ==
  LET until == req[w].at + Cooldown(req[w].n) IN
  /\ pc[w] = "block"
  /\ \E up \in BOOLEAN :
       /\ Call(up)
       /\ blocked' = IF up THEN until ELSE blocked
       /\ spared' = (spared \/ blocked' < blocked)
  /\ Reply(w)
  /\ UNCHANGED <<now, config, counters, users, admitted, lapsed, sentence>>

ClearFailures(w) ==
  /\ pc[w] = "saved"
  /\ \E up \in BOOLEAN :
       /\ Call(up)
       /\ counters' = IF up THEN [k \in DOMAIN counters \ {<<"fail", 0>>} |-> counters[k]]
                            ELSE counters
  /\ Goto(w, "unblock")
  /\ UNCHANGED <<now, config, blocked, users, admitted, lapsed, sentence, spared>>

ClearBlocked(w) ==
  /\ pc[w] = "unblock"
  /\ \E up \in BOOLEAN : Call(up) /\ blocked' = IF up THEN 0 ELSE blocked
  /\ sentence' = 0 /\ spared' = FALSE
  /\ Reply(w)
  /\ UNCHANGED <<now, config, counters, users, admitted, lapsed>>

-----------------------------------------------------------------------------
Registration(w) ==
  CheckBlocked(w) \/ CounterAdd(w) \/ CounterIncr(w) \/ CounterReread(w) \/ CounterSet(w)
  \/ RejectPassword(w) \/ AcceptPassword(w) \/ CheckCode(w) \/ SaveUser(w)
  \/ SetBlocked(w) \/ ClearFailures(w) \/ ClearBlocked(w)

Code(w) ==
  GetConfig(w) \/ LoadConfig(w) \/ CreateConfig(w) \/ SaveSalt(w) \/ ClearConfig(w)
  \/ StoreConfig(w) \/ ShowCode(w)

Receive(w) == ReceiveRegistration(w) \/ ReceiveShow(w) \/ ReceiveRotate(w)

Next ==
  (\E w \in Workers : Receive(w) \/ Registration(w) \/ Code(w) \/ Killed(w)) \/ Tick

Spec == Init /\ [][Next]_vars

-----------------------------------------------------------------------------
(* Properties.                                                             *)

\* rotate_registration_code: a code whose salt had been replaced when the request arrived
\* is refused, unless a reader stored the config it had loaded before the rotation after the
\* rotation deleted it, two first requests both created a row, or the deletion failed or was
\* never reached.  And even then (REGISTRATION_CONFIG_CACHE_TIMEOUT), whatever fails and whatever
\* overlaps, it is dead once the timeout of the key and two requests have passed.
RotatedCodeDies ==
  \A w \in Workers : pc[w] = "save_user" =>
    /\ raced \/ req[w].salt >= req[w].since
    /\ req[w].salt \in DOMAIN retired
         => now - retired[req[w].salt] <= ConfigTimeout + 2 * RequestTimeout

\* get_current_registration_code_info and validate_registration_code agree: a code that was
\* shown is not refused before its window (and the next, if allowed) is over, as long as its
\* salt is in force, unless an outdated config was stored, which also happens when two first
\* requests both create a row, or one was neither deleted nor replaced.
CodeInForce(code) ==
  /\ code \in shown /\ code[1] = Current
  /\ WindowIndex(now) \in {code[2]} \cup (IF AllowPreviousWindow THEN {code[2] + 1} ELSE {})

ShownCodeWorks ==
  [][\A w \in Workers :
       pc[w] = "use" /\ pc'[w] = "add" /\ CodeInForce(req[w].code) => raced]_vars

\* docs/observability.md:138: "Without a shared cache in production, limits may become
\* inconsistent across multiple processes/instances"; with one that answers, no more than
\* REGISTER_IP_LIMIT attempts of a window pass.  The counter of a window lives for
\* window_seconds + 1, so this is not so when requests take longer than that second.
AttemptsLimited ==
  ~degraded => \A i \in DOMAIN admitted : admitted[i] <= REGISTER_IP_LIMIT

\* How many counters a window may have one after the other: the last is created by a request that
\* arrived in the window's last tick and counts when it is about to be killed.
CountersOfAWindow == 1 + (REGISTER_WINDOW - 1 + RequestTimeout) \div (REGISTER_WINDOW + 1)

\* check_registration_limits and _incr_counter: as long as the cache answers, each counter of a
\* window lets no more than REGISTER_IP_LIMIT attempts pass, however many are served at once,
\* however long they take and whichever of them are killed, unless a counter expired between the
\* two calls that count one attempt.
AttemptsBounded ==
  ~degraded /\ ~lapsed
    => \A i \in DOMAIN admitted : admitted[i] <= REGISTER_IP_LIMIT * CountersOfAWindow

\* register_failure: an attempt passes only when the longest cooldown that the failures counted
\* since the last success earned is over, or while a worker has counted a failure and not yet
\* written its block; unless the cache failed, such a worker was killed, or a failure that was
\* counted earlier wrote its shorter block later.
CooldownServed ==
  [][\A w \in Workers :
       pc[w] = "blocked" /\ pc'[w] = "add" =>
         \/ now >= sentence
         \/ \E v \in Workers : pc[v] = "block"
         \/ spared \/ degraded']_vars
=============================================================================
